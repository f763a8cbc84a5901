-------------------------- MODULE CostingCloseProofs --------------------------
(* Whatever the number of requests, users, items and exceptions: who reviewed *)
(* an item is not who prepared it, and requests that do not overlap close     *)
(* complete months only.                                                      *)
EXTENDS CostingClose, TLAPS

ItemShape(c) == c.on \in Item /\ c.to \in ItemStatus /\ c.by \in User
LinkShape(c) == c.on \in Item /\ c.to \in {"linked", "unlinked"}
ResolveShape(c) == c.on \in Exception /\ c.to \in ExceptionStatus

(* What a request is about follows from how far it is.                        *)
Shape(c) ==
  /\ c.pc = "item" => ItemShape(c)
  /\ c.pc = "link" => LinkShape(c)
  /\ c.pc = "resolve" => ResolveShape(c)
  /\ c.pc = "commit" => ItemShape(c) \/ LinkShape(c) \/ ResolveShape(c)
  /\ c.pc = "upsert" => c.on \in Exception
  /\ c.pc = "transition" => c.on \in Level /\ c.to \in State

(* A request that has locked item i to change it.                             *)
Holds(c, i) == c.on = i /\ (c.pc = "item" \/ (c.pc = "commit" /\ c.to \in ItemStatus))

OneHolder ==
  \A i \in Item : \A s, t \in Session : Holds(call[s], i) /\ Holds(call[t], i) => s = t

(* The judgement an item is completed by stands while the lock is held.       *)
MayReview(c, i) ==
  c.to = "completed" /\ ~SelfReview /\ item[i].ready => c.by # item[i].by

JudgementStands ==
  \A s \in Session, i \in Evidenced : Holds(call[s], i) => MayReview(call[s], i)

ReadyHasPreparer == \A i \in Item : item[i].ready => item[i].by \in User

CloseInvariant ==
  /\ TypeOK
  /\ \A s \in Session : Shape(call[s])
  /\ OneHolder
  /\ JudgementStands
  /\ ReadyHasPreparer
  /\ ReviewedByAnother

(* Initially the month is open and has no checklist.                          *)
LEMMA CloseInit == Init => CloseInvariant
  BY CloseAssumption
     DEF Init, CloseInvariant, TypeOK, Shape, OneHolder, Holds, JudgementStands, ReadyHasPreparer,
         ReviewedByAnother, Idle, Call, ItemRow, Level, State, ItemStatus,
         ExceptionStatus

(* Making the checklist touches items that were not there.                    *)
LEMMA ChecklistKeeps ==
  ASSUME item \in [Item -> ItemRow]
  PROVE  /\ Checklist \in [Item -> ItemRow]
         /\ \A i \in Item : /\ Checklist[i].status # "absent"
                            /\ Checklist[i].ready = item[i].ready
                            /\ Checklist[i].by = item[i].by
                            /\ Checklist[i].reviewer = item[i].reviewer
                            /\ Checklist[i].status = "completed" => item[i].status = "completed"
                            /\ item[i].status # "absent" => Checklist[i] = item[i]
  <1> SUFFICES ASSUME NEW i \in Item
               PROVE  /\ Checklist[i] \in ItemRow
                      /\ Checklist[i].status # "absent"
                      /\ Checklist[i].ready = item[i].ready
                      /\ Checklist[i].by = item[i].by
                      /\ Checklist[i].reviewer = item[i].reviewer
                      /\ Checklist[i].status = "completed" => item[i].status = "completed"
                      /\ item[i].status # "absent" => Checklist[i] = item[i]
    BY DEF Checklist
  <1>1. item[i] \in ItemRow
    OBVIOUS
  <1>2. CASE item[i].status = "absent"
    BY <1>1, <1>2 DEF Checklist, ItemRow, ItemStatus
  <1>3. CASE item[i].status # "absent"
    BY <1>1, <1>3 DEF Checklist, ItemRow
  <1> QED
    BY <1>2, <1>3

(* A request moves on, or ends, and no item changes but those the checklist   *)
(* adds; if it holds an item then it held it before, or it is the first to.   *)
LEMMA RequestMoves ==
  ASSUME CloseInvariant, NEW s \in Session, NEW c \in Call, Shape(c),
         call' = [call EXCEPT ![s] = c],
         item' = item \/ item' = Checklist,
         \A i \in Item : Holds(c, i) =>
           \/ Holds(call[s], i) /\ c.to = call[s].to /\ c.by = call[s].by
           \/ /\ \A t \in Session : ~Holds(call[t], i)
              /\ i \in Evidenced => MayReview(c, i)
  PROVE  /\ item' \in [Item -> ItemRow] /\ call' \in [Session -> Call]
         /\ (\A t \in Session : Shape(call[t]))' /\ OneHolder' /\ JudgementStands'
         /\ ReadyHasPreparer' /\ ReviewedByAnother'
  <1> USE CloseAssumption
  <1>1. item \in [Item -> ItemRow] /\ call \in [Session -> Call]
    BY DEF CloseInvariant, TypeOK
  <1>2. /\ item' \in [Item -> ItemRow]
        /\ \A i \in Item : /\ item'[i].ready = item[i].ready /\ item'[i].by = item[i].by
                           /\ item'[i].reviewer = item[i].reviewer
                           /\ item'[i].status = "completed" => item[i].status = "completed"
    BY <1>1, ChecklistKeeps
  <1>3. /\ call' \in [Session -> Call] /\ call'[s] = c
        /\ \A t \in Session : t # s => call'[t] = call[t]
    BY <1>1
  <1>4. (\A t \in Session : Shape(call[t]))'
    <2> SUFFICES ASSUME NEW t \in Session PROVE Shape(call[t])'
      OBVIOUS
    <2>1. CASE t = s
      BY <1>3, <2>1 DEF Shape, ItemShape, LinkShape, ResolveShape
    <2>2. CASE t # s
      BY <1>3, <2>2 DEF CloseInvariant, Shape, ItemShape, LinkShape, ResolveShape
    <2> QED
      BY <2>1, <2>2
  <1>5. OneHolder'
    BY <1>3 DEF CloseInvariant, OneHolder, Holds
  <1>6. JudgementStands'
    <2> SUFFICES ASSUME NEW t \in Session, NEW i \in Evidenced, Holds(call[t], i)'
                 PROVE  MayReview(call[t], i)'
      BY DEF JudgementStands
    <2>0. i \in Item
      OBVIOUS
    <2>1. CASE t # s
      BY <1>2, <1>3, <2>0, <2>1 DEF CloseInvariant, JudgementStands, Holds, MayReview
    <2>2. CASE t = s
      BY <1>2, <1>3, <2>0, <2>2 DEF CloseInvariant, JudgementStands, Holds, MayReview
    <2> QED
      BY <2>1, <2>2
  <1>7. ReadyHasPreparer'
    BY <1>2 DEF CloseInvariant, ReadyHasPreparer
  <1>8. ReviewedByAnother'
    BY <1>2 DEF CloseInvariant, ReviewedByAnother
  <1> QED
    BY <1>2, <1>3, <1>4, <1>5, <1>6, <1>7, <1>8

(* The same for a request that leaves the items and the period alone.         *)
LEMMA RequestReads ==
  ASSUME CloseInvariant, NEW s \in Session, NEW c \in Call, Shape(c),
         call' = [call EXCEPT ![s] = c], serial' \in BOOLEAN, UNCHANGED <<period, item>>,
         evidence' \subseteq Item, late' \subseteq Exception,
         exception' \in [Exception -> ExceptionStatus \cup {"absent"}],
         \A i \in Item : Holds(c, i) =>
           \/ Holds(call[s], i) /\ c.to = call[s].to /\ c.by = call[s].by
           \/ /\ \A t \in Session : ~Holds(call[t], i)
              /\ i \in Evidenced => MayReview(c, i)
  PROVE  CloseInvariant'
  <1>1. /\ item' \in [Item -> ItemRow] /\ call' \in [Session -> Call]
        /\ (\A t \in Session : Shape(call[t]))' /\ OneHolder' /\ JudgementStands'
        /\ ReadyHasPreparer' /\ ReviewedByAnother'
    BY RequestMoves
  <1>2. TypeOK'
    BY <1>1 DEF CloseInvariant, TypeOK
  <1> QED
    BY <1>1, <1>2 DEF CloseInvariant

(* Every step of every request keeps the invariant.                           *)
LEMMA CloseStep == CloseInvariant /\ [Next]_vars => CloseInvariant'
  <1> SUFFICES ASSUME CloseInvariant, [Next]_vars
               PROVE  CloseInvariant'
    OBVIOUS
  <1> USE CloseAssumption
  <1>a. /\ period \in [Level -> State] /\ item \in [Item -> ItemRow]
        /\ evidence \subseteq Item /\ late \subseteq Exception /\ serial \in BOOLEAN
        /\ exception \in [Exception -> ExceptionStatus \cup {"absent"}]
        /\ call \in [Session -> Call]
    BY DEF CloseInvariant, TypeOK
  <1>b. /\ Idle \in Call /\ Shape(Idle) /\ \A i \in Item : ~Holds(Idle, i)
    BY DEF Idle, Call, Shape, Holds
  <1>c. \A i \in Item : ~Locked(i) => \A t \in Session : ~Holds(call[t], i)
    BY DEF Locked, Holds, ItemStatus
  (* A request that only reads. *)
  <1>d. ASSUME NEW s \in Session, NEW c \in Call, Shape(c), Begin(s, c),
               UNCHANGED <<period, artefacts>>,
               \A i \in Item : Holds(c, i) => /\ \A t \in Session : ~Holds(call[t], i)
                                              /\ i \in Evidenced => MayReview(c, i)
        PROVE  CloseInvariant'
    BY <1>a, <1>d, RequestReads DEF Begin, artefacts
  (* A request that commits or is rolled back without changing an item. *)
  <1>e. ASSUME NEW s \in Session, End(s), UNCHANGED <<period, item>>,
               evidence' \subseteq Item, late' \subseteq Exception,
               exception' \in [Exception -> ExceptionStatus \cup {"absent"}]
        PROVE  CloseInvariant'
    BY <1>a, <1>b, <1>e, RequestReads DEF End
  <1>1. ASSUME NEW s \in Session, NEW u \in User, NEW i \in Item, NEW to \in ItemStatus,
               ItemRead(s, u, i, to)
        PROVE  CloseInvariant'
    <2> DEFINE c == [Idle EXCEPT !.pc = "item", !.on = i, !.by = u, !.to = to]
    <2>1. c \in Call /\ c.pc = "item" /\ c.on = i /\ c.by = u /\ c.to = to
      BY DEF Idle, Call
    <2>2. Shape(c) /\ \A j \in Item : Holds(c, j) => j = i
      BY <2>1 DEF Shape, ItemShape, Holds
    <2>3. i \in Evidenced => MayReview(c, i)
      BY <1>1, <2>1 DEF ItemRead, MayComplete, MayReview
    <2>4. \A t \in Session : ~Holds(call[t], i)
      BY <1>1, <1>c DEF ItemRead
    <2>5. Begin(s, c) /\ UNCHANGED <<period, artefacts>>
      BY <1>1 DEF ItemRead
    <2> HIDE DEF c
    <2> QED
      BY <1>d, <2>1, <2>2, <2>3, <2>4, <2>5
  <1>2. ASSUME NEW s \in Session, NEW i \in Item, NEW to \in {"linked", "unlinked"},
               EvidenceRead(s, i, to)
        PROVE  CloseInvariant'
    <2> DEFINE c == [Idle EXCEPT !.pc = "link", !.on = i, !.to = to]
    <2>1. c \in Call /\ Shape(c) /\ \A j \in Item : ~Holds(c, j)
      BY DEF Idle, Call, Shape, LinkShape, Holds
    <2>2. Begin(s, c) /\ UNCHANGED <<period, artefacts>>
      BY <1>2 DEF EvidenceRead
    <2> HIDE DEF c
    <2> QED
      BY <1>d, <2>1, <2>2
  <1>3. ASSUME NEW s \in Session, NEW x \in Exception, UpsertRead(s, x)
        PROVE  CloseInvariant'
    <2> DEFINE c == [Idle EXCEPT !.pc = "upsert", !.on = x, !.seen = exception[x]]
    <2>1. c \in Call /\ Shape(c) /\ \A j \in Item : ~Holds(c, j)
      BY <1>a DEF Idle, Call, Shape, Holds
    <2>2. call' = [call EXCEPT ![s] = c] /\ serial' \in BOOLEAN /\ UNCHANGED <<period, artefacts>>
      BY <1>a, <1>3 DEF UpsertRead, Begin
    <2> HIDE DEF c
    <2> QED
      BY <1>a, <2>1, <2>2, RequestReads DEF artefacts
  <1>4. ASSUME NEW s \in Session, NEW x \in Exception, NEW to \in ExceptionStatus,
               ResolveRead(s, x, to)
        PROVE  CloseInvariant'
    <2> DEFINE c == [Idle EXCEPT !.pc = "resolve", !.on = x, !.to = to]
    <2>1. c \in Call /\ Shape(c) /\ \A j \in Item : ~Holds(c, j)
      BY DEF Idle, Call, Shape, ResolveShape, Holds
    <2>2. Begin(s, c) /\ UNCHANGED <<period, artefacts>>
      BY <1>4 DEF ResolveRead
    <2> HIDE DEF c
    <2> QED
      BY <1>d, <2>1, <2>2
  <1>5. ASSUME NEW s \in Session, NEW l \in Level, NEW to \in State, TransitionRead(s, l, to)
        PROVE  CloseInvariant'
    <2> DEFINE c == [Idle EXCEPT !.pc = "transition", !.on = l, !.to = to]
    <2>1. c \in Call /\ Shape(c) /\ \A j \in Item : ~Holds(c, j)
      BY DEF Idle, Call, Shape, Holds
    <2>2. Begin(s, c) /\ UNCHANGED <<period, artefacts>>
      BY <1>5 DEF TransitionRead
    <2> HIDE DEF c
    <2> QED
      BY <1>d, <2>1, <2>2
  <1>6. ASSUME NEW s \in Session, EnsureChecklist(s)
        PROVE  CloseInvariant'
    <2>1. call' = [call EXCEPT ![s] = call[s]] /\ item' = Checklist
      BY <1>a, <1>6 DEF EnsureChecklist
    <2>2. call[s] \in Call /\ Shape(call[s]) /\ \A i \in Item : ~Holds(call[s], i)
      BY <1>b, <1>6 DEF EnsureChecklist
    <2>3. /\ item' \in [Item -> ItemRow] /\ call' \in [Session -> Call]
          /\ (\A t \in Session : Shape(call[t]))' /\ OneHolder' /\ JudgementStands'
          /\ ReadyHasPreparer' /\ ReviewedByAnother'
      BY <1>b, <1>6, <2>1, <2>2, RequestMoves DEF EnsureChecklist
    <2> QED
      BY <1>a, <1>6, <2>3 DEF EnsureChecklist, CloseInvariant, TypeOK
  <1>7. ASSUME NEW s \in Session, Guarded(s)
        PROVE  CloseInvariant'
    <2> DEFINE c == [call[s] EXCEPT !.pc = "commit"]
    <2>1. /\ c \in Call /\ c.pc = "commit" /\ c.on = call[s].on /\ c.to = call[s].to
          /\ c.by = call[s].by
      BY <1>a DEF Call
    <2>2. Shape(call[s]) /\ call[s].pc \in {"item", "resolve", "link"}
      BY <1>7 DEF Guarded, CloseInvariant
    <2>3. Shape(c)
      BY <2>1, <2>2 DEF Shape, ItemShape, LinkShape, ResolveShape
    <2>4. \A i \in Item : Holds(c, i) => Holds(call[s], i)
      BY <2>1, <2>2 DEF Holds, Shape, LinkShape, ResolveShape, ItemStatus, ExceptionStatus
    <2>5. call' = [call EXCEPT ![s] = c] /\ serial' = serial /\ UNCHANGED <<period, artefacts>>
      BY <1>a, <1>7 DEF Guarded, Goto
    <2> HIDE DEF c
    <2> QED
      BY <1>a, <2>1, <2>3, <2>4, <2>5, RequestReads DEF artefacts
  <1>8. ASSUME NEW s \in Session, ItemCommit(s)
        PROVE  CloseInvariant'
    <2> DEFINE i == call[s].on  u == call[s].by  to == call[s].to
    <2>1. i \in Item /\ to \in ItemStatus /\ Holds(call[s], i)
      BY <1>8 DEF ItemCommit, Holds
    <2>2. u \in User
      BY <1>8 DEF ItemCommit, CloseInvariant, Shape, ItemShape, LinkShape, ResolveShape,
         ItemStatus, ExceptionStatus
    <2>3. item[i] \in ItemRow
      BY <1>a, <2>1
    <2>4. /\ item' \in [Item -> ItemRow] /\ \A j \in Item : j # i => item'[j] = item[j]
          /\ item'[i].status = to /\ item'[i].ready = (item[i].ready \/ to = "ready_for_review")
          /\ item'[i].by = IF to = "ready_for_review" \/ (to = "completed" /\ item[i].by = Nobody)
                           THEN u ELSE item[i].by
          /\ item'[i].reviewer = IF to = "completed" THEN u ELSE item[i].reviewer
      BY <1>8, <1>a, <2>1, <2>2, <2>3 DEF ItemCommit, ItemRow
    <2>5. /\ call' \in [Session -> Call] /\ call'[s] = Idle
          /\ \A t \in Session : t # s => call'[t] = call[t]
      BY <1>a, <1>b, <1>8 DEF ItemCommit, End
    <2>7. UNCHANGED <<period, evidence, exception, late, serial>>
      BY <1>8 DEF ItemCommit, End
    <2> HIDE DEF i, u, to
    <2>8. TypeOK'
      BY <1>a, <2>4, <2>5, <2>7 DEF TypeOK
    <2>9. (\A t \in Session : Shape(call[t]))'
      BY <1>b, <2>5 DEF CloseInvariant, Shape, ItemShape, LinkShape, ResolveShape
    <2>10. OneHolder'
      BY <1>b, <2>5 DEF CloseInvariant, OneHolder, Holds
    <2>11. JudgementStands'
      <3> SUFFICES ASSUME NEW t \in Session, NEW j \in Evidenced, Holds(call[t], j)'
                   PROVE  MayReview(call[t], j)'
        BY DEF JudgementStands
      <3>1. j \in Item /\ t # s /\ Holds(call[t], j)
        BY <1>b, <2>5 DEF Holds
      <3>2. j # i
        BY <2>1, <3>1 DEF CloseInvariant, OneHolder
      <3> QED
        BY <2>4, <2>5, <3>1, <3>2 DEF CloseInvariant, JudgementStands, MayReview
    <2>12. ReadyHasPreparer'
      BY <2>1, <2>2, <2>4 DEF CloseInvariant, ReadyHasPreparer
    <2>13. ReviewedByAnother'
      <3> SUFFICES ASSUME NEW j \in Evidenced, ~SelfReview, item'[j].status = "completed",
                          item'[j].ready
                   PROVE  item'[j].reviewer # item'[j].by
        BY DEF ReviewedByAnother
      <3>1. CASE j # i
        BY <2>4, <3>1 DEF CloseInvariant, ReviewedByAnother
      <3>2. CASE j = i
        <4>1. to = "completed" /\ item[i].ready
          BY <2>4, <3>2
        <4>2. item[i].by # Nobody
          BY <2>1, <4>1 DEF CloseInvariant, ReadyHasPreparer
        <4>3. u # item[i].by
          BY <2>1, <3>2, <4>1 DEF CloseInvariant, JudgementStands, MayReview, u, to
        <4> QED
          BY <2>4, <3>2, <4>1, <4>2, <4>3
      <3> QED
        BY <3>1, <3>2
    <2> QED
      BY <2>8, <2>9, <2>10, <2>11, <2>12, <2>13 DEF CloseInvariant
  <1>9. ASSUME NEW s \in Session, EvidenceCommit(s)
        PROVE  CloseInvariant'
    <2>1. call[s].on \in Item
      BY <1>9 DEF EvidenceCommit, CloseInvariant, Shape, ItemShape, LinkShape, ResolveShape,
         ItemStatus, ExceptionStatus
    <2> QED
      BY <1>a, <1>e, <1>9, <2>1 DEF EvidenceCommit
  <1>10. ASSUME NEW s \in Session, UpsertInsert(s) \/ UpsertUpdate(s)
         PROVE  CloseInvariant'
    <2>1. call[s].on \in Exception
      BY <1>10 DEF UpsertInsert, UpsertUpdate, CloseInvariant, Shape
    <2>2. exception' \in [Exception -> ExceptionStatus \cup {"absent"}] /\ late' \subseteq Exception
      BY <1>a, <1>10, <2>1 DEF UpsertInsert, UpsertUpdate, ExceptionStatus
    <2> QED
      BY <1>a, <1>e, <1>10, <2>2 DEF UpsertInsert, UpsertUpdate
  <1>11. ASSUME NEW s \in Session, ResolveCommit(s)
         PROVE  CloseInvariant'
    BY <1>a, <1>e, <1>11 DEF ResolveCommit
  <1>12. ASSUME NEW s \in Session, TransitionCommit(s)
         PROVE  CloseInvariant'
    <2>1. call[s].on \in Level /\ call[s].to \in State
      BY <1>12 DEF TransitionCommit, CloseInvariant, Shape
    <2>2. item' = item \/ item' = Checklist
      BY <1>12 DEF TransitionCommit
    <2>3. /\ item' \in [Item -> ItemRow] /\ call' \in [Session -> Call]
          /\ (\A t \in Session : Shape(call[t]))' /\ OneHolder' /\ JudgementStands'
          /\ ReadyHasPreparer' /\ ReviewedByAnother'
      BY <1>b, <1>12, <2>2, RequestMoves DEF TransitionCommit, End
    <2>4. period' \in [Level -> State]
      BY <1>a, <1>12, <2>1 DEF TransitionCommit
    <2>5. TypeOK'
      BY <1>a, <1>12, <2>3, <2>4 DEF TransitionCommit, End, TypeOK
    <2> QED
      BY <2>3, <2>5 DEF CloseInvariant
  <1>13. ASSUME NEW s \in Session, Rollback(s)
         PROVE  CloseInvariant'
    BY <1>a, <1>e, <1>13 DEF Rollback, artefacts
  <1>14. CASE UNCHANGED vars
    BY <1>14 DEF vars, CloseInvariant, TypeOK, OneHolder, JudgementStands, MayReview,
       ReadyHasPreparer, ReviewedByAnother
  <1> QED
    BY <1>1, <1>2, <1>3, <1>4, <1>5, <1>6, <1>7, <1>8, <1>9, <1>10, <1>11, <1>12, <1>13, <1>14
       DEF Next, Start, Commit

(* Segregation of duties holds for every number of overlapping requests.      *)
THEOREM DutiesSegregated == Spec => []ReviewedByAnother
  <1>1. CloseInvariant => ReviewedByAnother
    BY DEF CloseInvariant
  <1> QED
    BY CloseInit, CloseStep, <1>1, PTL DEF Spec

------------------------------------------------------------------------------
(* What keeps months complete while requests do not overlap: one is under     *)
(* way at most, an artefact is about to change only in a month that is not    *)
(* hard closed, and a hard close has found nothing in its way.                *)
ChecklistMade == period["project"] # "open" => \A i \in Item : item[i].status # "absent"

ClosesComplete(c) ==
  /\ c.pc = "commit" => ~HardClosed
  /\ c.pc = "transition" /\ c.on = "project" /\ c.to = "hard_closed" =>
       ~Blocked /\ period["project"] = "soft_locked"

CloseInTurn ==
  serial =>
    /\ \A s, t \in Session : s # t => call[s] = Idle \/ call[t] = Idle
    /\ ChecklistMade
    /\ ClosedIsComplete
    /\ \A s \in Session : ClosesComplete(call[s])

(* What a step of the only request has to show.                               *)
LEMMA TurnKept ==
  ASSUME NEW s \in Session, \A t \in Session : t # s => call'[t] = Idle,
         ChecklistMade', ClosedIsComplete', ClosesComplete(call[s])'
  PROVE  CloseInTurn'
  <1>1. ASSUME NEW t \in Session PROVE ClosesComplete(call[t])'
    <2>1. CASE t = s
      BY <2>1
    <2>2. CASE t # s
      BY <2>2 DEF ClosesComplete, Idle
    <2> QED
      BY <2>1, <2>2
  <1> QED
    BY <1>1 DEF CloseInTurn

(* Every step keeps the months complete.                                      *)
LEMMA TurnStep == CloseInvariant /\ CloseInTurn /\ [Next]_vars => CloseInTurn'
  <1> SUFFICES ASSUME CloseInvariant, CloseInTurn, [Next]_vars, serial'
               PROVE  CloseInTurn'
    BY DEF CloseInTurn
  <1> USE CloseAssumption
  <1>a. /\ period \in [Level -> State] /\ item \in [Item -> ItemRow] /\ "project" \in Level
        /\ exception \in [Exception -> ExceptionStatus \cup {"absent"}]
        /\ call \in [Session -> Call]
    BY DEF CloseInvariant, TypeOK, Level
  <1>b. Idle.pc = "idle"
    BY DEF Idle
  (* A request begins, reading, when none is under way. *)
  <1>c. ASSUME NEW s \in Session, NEW c, Begin(s, c), UNCHANGED <<period, artefacts>>,
               c.pc # "commit",
               c.pc = "transition" /\ c.on = "project" /\ c.to = "hard_closed" =>
                 ~Blocked /\ period["project"] = "soft_locked"
        PROVE  CloseInTurn'
    <2>1. serial /\ \A t \in Session : call[t] = Idle
      BY <1>c DEF Begin
    <2>2. call'[s] = c /\ \A t \in Session : t # s => call'[t] = Idle
      BY <1>a, <1>c, <2>1 DEF Begin
    <2>3. ChecklistMade' /\ ClosedIsComplete'
      BY <1>c, <2>1 DEF CloseInTurn, ChecklistMade, ClosedIsComplete, artefacts
    <2>4. ClosesComplete(call[s])'
      BY <1>c, <2>2 DEF ClosesComplete, Blocked, artefacts
    <2> QED
      BY <2>2, <2>3, <2>4, TurnKept
  (* A request under way is the only one. *)
  <1>d. ASSUME NEW s \in Session, call[s].pc # "idle", serial
        PROVE  /\ \A t \in Session : t # s => call[t] = Idle
               /\ ChecklistMade /\ ClosedIsComplete /\ ClosesComplete(call[s])
    BY <1>b, <1>d DEF CloseInTurn
  (* A request ends. *)
  <1>e. ASSUME NEW s \in Session, call[s].pc # "idle", End(s), ChecklistMade', ClosedIsComplete'
        PROVE  CloseInTurn'
    <2>1. serial /\ call'[s] = Idle /\ \A t \in Session : t # s => call'[t] = call[t]
      BY <1>a, <1>e DEF End
    <2>2. \A t \in Session : t # s => call'[t] = Idle
      BY <1>d, <1>e, <2>1
    <2>3. ClosesComplete(call[s])'
      BY <1>b, <2>1 DEF ClosesComplete
    <2> QED
      BY <1>e, <2>2, <2>3, TurnKept
  (* A request commits a change of an artefact in a month not hard closed. *)
  <1>f. ASSUME NEW s \in Session, call[s].pc # "idle", End(s), period' = period, ~HardClosed,
               \A i \in Item : item[i].status # "absent" => item'[i].status # "absent"
        PROVE  CloseInTurn'
    <2>1. serial
      BY <1>f DEF End
    <2>2. ChecklistMade'
      BY <1>d, <1>f, <2>1 DEF ChecklistMade
    <2>3. ClosedIsComplete'
      BY <1>a, <1>f DEF ClosedIsComplete, HardClosed
    <2> QED
      BY <1>e, <1>f, <2>2, <2>3
  <1>1. ASSUME NEW s \in Session, Start(s), ~EnsureChecklist(s)
        PROVE  CloseInTurn'
    <2>1. ASSUME NEW u \in User, NEW i \in Item, NEW to \in ItemStatus, ItemRead(s, u, i, to)
          PROVE  CloseInTurn'
      BY <1>c, <2>1 DEF ItemRead, Idle
    <2>2. ASSUME NEW i \in Item, NEW to \in {"linked", "unlinked"}, EvidenceRead(s, i, to)
          PROVE  CloseInTurn'
      BY <1>c, <2>2 DEF EvidenceRead, Idle
    <2>3. ASSUME NEW x \in Exception, UpsertRead(s, x)
          PROVE  CloseInTurn'
      BY <1>c, <2>3 DEF UpsertRead, Idle
    <2>4. ASSUME NEW x \in Exception, NEW to \in ExceptionStatus, ResolveRead(s, x, to)
          PROVE  CloseInTurn'
      BY <1>c, <2>4 DEF ResolveRead, Idle
    <2>5. ASSUME NEW l \in Level, NEW to \in State, TransitionRead(s, l, to)
          PROVE  CloseInTurn'
      <3>1. l = "project" /\ to = "hard_closed" => ~Blocked /\ period["project"] = "soft_locked"
        BY <2>5 DEF TransitionRead
      <3> QED
        BY <1>c, <2>5, <3>1 DEF TransitionRead, Idle
    <2> QED
      BY <1>1, <2>1, <2>2, <2>3, <2>4, <2>5 DEF Start
  <1>2. ASSUME NEW s \in Session, EnsureChecklist(s)
        PROVE  CloseInTurn'
    <2>1. serial /\ UNCHANGED <<period, evidence, exception, late, call>> /\ item' = Checklist
      BY <1>2 DEF EnsureChecklist
    <2>2. \A i \in Item : item'[i].status # "absent"
      BY <1>a, <2>1, ChecklistKeeps
    <2>3. period["project"] # "open" => item' = item
      <3> SUFFICES ASSUME period["project"] # "open" PROVE item' = item
        OBVIOUS
      <3>1. \A i \in Item : item[i].status # "absent"
        BY <2>1 DEF CloseInTurn, ChecklistMade
      <3>2. Checklist \in [Item -> ItemRow] /\ \A i \in Item : Checklist[i] = item[i]
        BY <1>a, <3>1, ChecklistKeeps
      <3> QED
        BY <1>a, <2>1, <3>2
    <2>4. ClosedIsComplete'
      BY <2>1, <2>3 DEF CloseInTurn, ClosedIsComplete
    <2>5. ASSUME NEW t \in Session PROVE ClosesComplete(call[t])'
      <3>1. ClosesComplete(call[t])
        BY <2>1 DEF CloseInTurn
      <3> QED
        BY <2>1, <2>3, <3>1 DEF ClosesComplete, Blocked, HardClosed
    <2> QED
      BY <2>1, <2>2, <2>4, <2>5 DEF CloseInTurn, ChecklistMade
  <1>3. ASSUME NEW s \in Session, Guarded(s)
        PROVE  CloseInTurn'
    <2>1. /\ serial /\ UNCHANGED <<period, artefacts>> /\ ~HardClosed /\ call[s].pc # "idle"
          /\ call'[s].pc = "commit" /\ \A t \in Session : t # s => call'[t] = call[t]
      BY <1>a, <1>3 DEF Guarded, Goto, Call
    <2>2. ChecklistMade' /\ ClosedIsComplete'
      BY <1>d, <2>1 DEF ChecklistMade, ClosedIsComplete, artefacts
    <2>3. ClosesComplete(call[s])'
      BY <2>1 DEF ClosesComplete, HardClosed
    <2> QED
      BY <1>d, <2>1, <2>2, <2>3, TurnKept
  <1>4. ASSUME NEW s \in Session, ItemCommit(s) \/ EvidenceCommit(s) \/ ResolveCommit(s)
        PROVE  CloseInTurn'
    <2>1. serial /\ call[s].pc = "commit" /\ End(s) /\ period' = period
      BY <1>4 DEF ItemCommit, EvidenceCommit, ResolveCommit, End
    <2>2. ~HardClosed
      BY <1>d, <2>1 DEF ClosesComplete
    <2>3. \A i \in Item : item[i].status # "absent" => item'[i].status # "absent"
      BY <1>a, <1>4 DEF ItemCommit, EvidenceCommit, ResolveCommit, ItemStatus
    <2> QED
      BY <1>f, <2>1, <2>2, <2>3
  <1>5. ASSUME NEW s \in Session, UpsertUpdate(s)
        PROVE  CloseInTurn'
    BY <1>5, <1>f DEF UpsertUpdate
  <1>6. ASSUME NEW s \in Session, UpsertInsert(s)
        PROVE  CloseInTurn'
    <2>1. /\ serial /\ call[s].pc = "upsert" /\ End(s) /\ UNCHANGED <<period, item, evidence>>
          /\ call[s].on \in Exception
      BY <1>6 DEF UpsertInsert, End, CloseInvariant, Shape
    <2>2. ChecklistMade'
      BY <1>d, <2>1 DEF ChecklistMade
    <2>3. \A x \in Exception : exception'[x] = "open" /\ period["project"] = "hard_closed" =>
            exception[x] = "open" \/ x \in late'
      BY <1>a, <1>6, <2>1 DEF UpsertInsert
    <2>4. late \subseteq late'
      BY <1>6 DEF UpsertInsert
    <2>5. ClosedIsComplete'
      BY <1>d, <2>1, <2>3, <2>4 DEF ClosedIsComplete
    <2> QED
      BY <1>e, <2>1, <2>2, <2>5
  <1>7. ASSUME NEW s \in Session, TransitionCommit(s)
        PROVE  CloseInTurn'
    <2>1. /\ serial /\ call[s].pc = "transition" /\ End(s) /\ UNCHANGED <<evidence, exception>>
          /\ call[s].on \in Level /\ call[s].to \in State
          /\ period' = [period EXCEPT ![call[s].on] = call[s].to]
      BY <1>7 DEF TransitionCommit, End, CloseInvariant, Shape
    <2>2. ChecklistMade /\ ClosedIsComplete /\ ClosesComplete(call[s])
      BY <1>d, <2>1
    <2>3. CASE call[s].on # "project"
      <3>1. period'["project"] = period["project"] /\ item' = item /\ late' = late
        BY <1>7, <1>a, <2>1, <2>3 DEF TransitionCommit
      <3>2. ChecklistMade' /\ ClosedIsComplete'
        BY <2>1, <2>2, <3>1 DEF ChecklistMade, ClosedIsComplete
      <3> QED
        BY <1>e, <2>1, <3>2
    <2>4. CASE call[s].on = "project"
      <3>1. period'["project"] = call[s].to
        BY <1>a, <2>1, <2>4
      <3>2. CASE call[s].to = "open"
        BY <1>e, <2>1, <3>1, <3>2 DEF ChecklistMade, ClosedIsComplete
      <3>3. CASE call[s].to = "soft_locked"
        <4>1. item' = Checklist
          BY <1>7, <2>4, <3>3 DEF TransitionCommit
        <4>2. \A i \in Item : item'[i].status # "absent"
          BY <1>a, <4>1, ChecklistKeeps
        <4> QED
          BY <1>e, <2>1, <3>1, <3>3, <4>2 DEF ChecklistMade, ClosedIsComplete
      <3>4. CASE call[s].to = "hard_closed"
        <4>1. item' = item /\ ~Blocked /\ period["project"] = "soft_locked"
          BY <1>7, <2>1, <2>2, <2>4, <3>4 DEF TransitionCommit, ClosesComplete
        <4>2. \A i \in Item : item[i].status \in ItemStatus
          BY <1>a, <2>2, <4>1 DEF ChecklistMade, ItemRow
        <4>3. ChecklistMade'
          BY <2>2, <4>1 DEF ChecklistMade
        <4>4. ClosedIsComplete'
          BY <2>1, <4>1, <4>2 DEF ClosedIsComplete, Blocked, ItemStatus
        <4> QED
          BY <1>e, <2>1, <4>3, <4>4
      <3> QED
        BY <2>1, <3>2, <3>3, <3>4 DEF State
    <2> QED
      BY <2>3, <2>4
  <1>8. ASSUME NEW s \in Session, Rollback(s)
        PROVE  CloseInTurn'
    <2>1. serial /\ UNCHANGED <<period, artefacts>>
      BY <1>8 DEF Rollback, End
    <2>2. ChecklistMade' /\ ClosedIsComplete'
      BY <2>1 DEF CloseInTurn, ChecklistMade, ClosedIsComplete, artefacts
    <2>3. call'[s] = Idle /\ \A t \in Session : t # s => call'[t] = Idle
      BY <1>a, <1>8, <2>1 DEF Rollback, End, CloseInTurn
    <2>4. ClosesComplete(call[s])'
      BY <1>b, <2>3 DEF ClosesComplete
    <2> QED
      BY <2>2, <2>3, <2>4, TurnKept
  <1>9. CASE UNCHANGED vars
    <2>1. UNCHANGED <<period, item, evidence, exception, late, serial, call>>
      BY <1>9 DEF vars
    <2>2. \A s \in Session : ClosesComplete(call[s])' <=> ClosesComplete(call[s])
      BY <2>1 DEF ClosesComplete, Blocked, HardClosed
    <2> QED
      BY <2>1, <2>2 DEF CloseInTurn, ChecklistMade, ClosedIsComplete
  <1> QED
    BY <1>1, <1>2, <1>3, <1>4, <1>5, <1>6, <1>7, <1>8, <1>9 DEF Next, Commit

(* Requests that do not overlap hard close complete months only, and leave    *)
(* them complete.                                                             *)
THEOREM ClosedMonthsAreComplete == Spec => []ClosedIsCompleteSerially
  <1>1. Init => CloseInTurn
    BY DEF Init, CloseInTurn, ChecklistMade, ClosedIsComplete, ClosesComplete, Level, Idle
  <1>2. Init => CloseInvariant
    BY CloseInit
  <1>3. CloseInvariant /\ CloseInTurn /\ [Next]_vars => (CloseInvariant /\ CloseInTurn)'
    BY CloseStep, TurnStep
  <1>4. CloseInTurn => ClosedIsCompleteSerially
    BY DEF CloseInTurn, ClosedIsCompleteSerially
  <1> QED
    BY <1>1, <1>2, <1>3, <1>4, PTL DEF Spec
==============================================================================
