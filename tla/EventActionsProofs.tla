-------------------------- MODULE EventActionsProofs --------------------------
(* Whatever the number of sessions, instances and action types: a contractual *)
(* action is performed only after an approval; as long as calls do not        *)
(* overlap, effects repeat only after an execution that ended half-way; and   *)
(* if none stops or loses a write either, the row tells what was done.        *)
EXTENDS EventActions, TLAPS

Approved == \E i \in Instance : verdict[i] = "approved"

(* A row that is not there has no instance and nobody working on it.          *)
AbsentIsUntouched ==
  log.status = "absent" =>
    /\ done = 0 /\ taken = 0
    /\ \A i \in Instance : verdict[i] = "none"
    /\ \A s \in Session : call[s].pc \in {"idle", "upsert", "read"}

(* A call about to perform a contractual action has seen its approval.        *)
PerformsApproved ==
  \A s \in Session :
    call[s].pc \in {"perform", "order"} /\ log.type \in Contractual => Approved

(* An evaluation about to insert the row knows its plan.                      *)
UpsertHasPlan == \A s \in Session : call[s].pc = "upsert" => call[s].plan \in Rule

EventInvariant ==
  /\ TypeOK
  /\ AbsentIsUntouched
  /\ PerformsApproved
  /\ UpsertHasPlan
  /\ ContractualWasApproved

(* Initially there is no row.                                                 *)
LEMMA EventInit == Init => EventInvariant
  BY EventAssumption DEF Init, VerdictInit, EventInvariant, TypeOK, AbsentIsUntouched,
     PerformsApproved, UpsertHasPlan, ContractualWasApproved, Idle, Call, Pc, Rule, Log,
     Status, Verdict, Decision

(* A step of one call that leaves the row's type and the engine alone.        *)
LEMMA EventMoves ==
  ASSUME EventInvariant, UNCHANGED <<rule, verdict, done, taken>>,
         slips' \in 0 .. MaxDone, serial' \in BOOLEAN, alone' \in BOOLEAN,
         NEW s \in Session, NEW c \in Call, call' = [call EXCEPT ![s] = c],
         log' \in Log, log'.type = log.type,
         log'.status = "absent" => log.status = "absent" /\ c.pc \in {"idle", "upsert", "read"},
         c.pc \in {"perform", "order"} /\ log.type \in Contractual => Approved,
         c.pc = "upsert" => c.plan \in Rule
  PROVE  EventInvariant'
  <1> USE DEF EventInvariant
  <1>1. TypeOK'
    BY DEF TypeOK
  <1>2. call \in [Session -> Call] /\ call'[s] = c /\ \A t \in Session : t # s => call'[t] = call[t]
    BY DEF TypeOK
  <1>3. AbsentIsUntouched'
    BY <1>2 DEF AbsentIsUntouched
  <1>4. Approved' = Approved
    BY DEF Approved
  <1>5. PerformsApproved' /\ UpsertHasPlan'
    BY <1>2, <1>4 DEF PerformsApproved, UpsertHasPlan
  <1>6. ContractualWasApproved'
    BY <1>4 DEF ContractualWasApproved, Approved
  <1> QED
    BY <1>1, <1>3, <1>5, <1>6

(* The engine opens or closes an instance: approvals stand.                   *)
LEMMA EngineMoves ==
  ASSUME EventInvariant, UNCHANGED <<rule, log, done, taken, slips>>, log.status # "absent",
         verdict' \in [Instance -> Verdict], Approved => Approved',
         serial' \in BOOLEAN, alone' \in BOOLEAN, call' \in [Session -> Call],
         \A t \in Session :
           call'[t] = call[t] \/ call'[t].pc \notin {"perform", "order", "upsert"}
  PROVE  EventInvariant'
  BY DEF EventInvariant, TypeOK, AbsentIsUntouched, PerformsApproved, UpsertHasPlan,
     ContractualWasApproved, Approved

(* Every step of every call keeps the invariant.                              *)
LEMMA EventStep == EventInvariant /\ [Next]_vars => EventInvariant'
  <1> SUFFICES ASSUME EventInvariant, [Next]_vars
               PROVE  EventInvariant'
    OBVIOUS
  <1> USE EventAssumption
  <1>a. /\ rule \in Rule /\ log \in Log
        /\ done \in 0 .. MaxDone /\ taken \in 0 .. MaxDone /\ slips \in 0 .. MaxDone
        /\ serial \in BOOLEAN /\ alone \in BOOLEAN
        /\ verdict \in [Instance -> Verdict] /\ call \in [Session -> Call]
    BY DEF EventInvariant, TypeOK
  <1>b. \A s \in Session : call[s].pc \notin {"idle", "upsert", "read"} => log.status # "absent"
    BY DEF EventInvariant, AbsentIsUntouched
  <1>c. \A i \in Instance : verdict[i] # "none" => log.status # "absent"
    BY DEF EventInvariant, AbsentIsUntouched
  <1>d. \A pc \in Pc : \A i \in Instance \cup {NoInstance} : \A p \in Rule \cup {NoPlan} :
          [pc |-> pc, plan |-> p, inst |-> i] \in Call
    BY DEF Call
  <1>e. /\ log.type \in Type /\ log.status \in Status
        /\ log.inst \in Instance \cup {NoInstance}
        /\ \A new \in Status : [log EXCEPT !.status = new] \in Log
        /\ \A new \in Status : /\ [log EXCEPT !.status = new].type = log.type
                               /\ [log EXCEPT !.status = new].status = new
    BY <1>a DEF Log
  <1>h. ASSUME Slip
        PROVE  slips' \in 0 .. MaxDone
    BY <1>a, <1>h DEF Slip
  (* A call under way that reads on, stops or fails. *)
  <1>f. ASSUME NEW s \in Session, NEW pc \in Pc, NEW i \in Instance \cup {NoInstance},
               Goto(s, pc, i), pc = "idle" \/ call[s].pc \notin {"idle", "upsert", "read"},
               UNCHANGED <<rule, log, verdict, done, taken>>, slips' \in 0 .. MaxDone,
               serial' \in BOOLEAN, alone' \in BOOLEAN, pc # "upsert",
               pc \in {"perform", "order"} /\ log.type \in Contractual => Approved
        PROVE  EventInvariant'
    <2>1. [pc |-> pc, plan |-> NoPlan, inst |-> i] \in Call
      BY <1>d
    <2> QED
      BY <1>a, <1>b, <1>f, <2>1, EventMoves DEF Goto
  (* A call under way that writes the row's status. *)
  <1>g. ASSUME NEW s \in Session, NEW pc \in {"idle", "execute"},
               Goto(s, pc, NoInstance), call[s].pc \notin {"idle", "upsert", "read"},
               NEW new \in Status \ {"absent"}, SetStatus(new),
               UNCHANGED <<rule, verdict, history>>
        PROVE  EventInvariant'
    <2>1. [pc |-> pc, plan |-> NoPlan, inst |-> NoInstance] \in Call
      BY <1>d DEF Pc
    <2> QED
      BY <1>a, <1>b, <1>e, <1>g, <2>1, EventMoves DEF Goto, SetStatus, history
  <1>1. ASSUME NEW s \in Session, EvaluatePlan(s)
        PROVE  EventInvariant'
    <2>1. [pc |-> "upsert", plan |-> rule, inst |-> NoInstance] \in Call
      BY <1>a, <1>d DEF Pc
    <2> QED
      BY <1>a, <1>1, <2>1, EventMoves DEF EvaluatePlan, Begin
  <1>2. ASSUME NEW s \in Session, NEW i \in Instance, DecideOther(s, i)
        PROVE  EventInvariant'
    <2>1. [pc |-> "settle", plan |-> NoPlan, inst |-> i] \in Call
      BY <1>d DEF Pc
    <2> QED
      BY <1>a, <1>c, <1>2, <2>1, EventMoves DEF DecideOther, Begin
  <1>3. ASSUME NEW i \in Instance, NEW d \in Decision, Decided(i, d)
        PROVE  /\ verdict' \in [Instance -> Verdict] /\ (Approved => Approved')
               /\ log.status # "absent"
    BY <1>a, <1>c, <1>3 DEF Decided, Approved, Verdict
  <1>4. ASSUME NEW s \in Session, NEW i \in Instance, NEW d \in {"approved", "rejected"},
               Decide(s, i, d)
        PROVE  EventInvariant'
    <2>1. [pc |-> "settle", plan |-> NoPlan, inst |-> i] \in Call
      BY <1>d DEF Pc
    <2>2. d \in Decision
      BY DEF Decision
    <2>3. /\ serial' \in BOOLEAN /\ alone' \in BOOLEAN /\ call' \in [Session -> Call]
          /\ \A t \in Session :
               call'[t] = call[t] \/ call'[t].pc \notin {"perform", "order", "upsert"}
      BY <1>a, <1>4, <2>1 DEF Decide, Begin
    <2>4. Decided(i, d) /\ UNCHANGED <<rule, log, done, taken, slips>>
      BY <1>4 DEF Decide, Begin
    <2>5. /\ verdict' \in [Instance -> Verdict] /\ (Approved => Approved')
          /\ log.status # "absent"
      BY <1>3, <2>2, <2>4
    <2> QED
      BY <2>3, <2>4, <2>5, EngineMoves
  <1>5. ASSUME NEW i \in Instance, Cancel(i)
        PROVE  EventInvariant'
    <2>1. "cancelled" \in Decision
      BY DEF Decision
    <2>2. Decided(i, "cancelled") /\ UNCHANGED <<rule, log, history, call>>
      BY <1>5 DEF Cancel
    <2>3. /\ verdict' \in [Instance -> Verdict] /\ (Approved => Approved')
          /\ log.status # "absent"
      BY <1>3, <2>1, <2>2
    <2> QED
      BY <1>a, <2>2, <2>3, EngineMoves DEF history
  (* An evaluation that has looked for the row, or failed to insert it. *)
  <1>j. ASSUME NEW s \in Session, call[s].pc = "upsert", call' = [call EXCEPT ![s].pc = "read"]
        PROVE  /\ [call[s] EXCEPT !.pc = "read"] \in Call
               /\ call' = [call EXCEPT ![s] = [call[s] EXCEPT !.pc = "read"]]
               /\ call' \in [Session -> Call] /\ call'[s].pc = "read"
               /\ \A t \in Session : t # s => call'[t] = call[t]
    BY <1>a, <1>j DEF Call, Pc
  <1>6. ASSUME NEW s \in Session, EvaluateUpsert(s)
        PROVE  EventInvariant'
    <2>1. call[s].plan \in Rule /\ call[s].plan.type \in Type
      BY <1>6 DEF EvaluateUpsert, EventInvariant, UpsertHasPlan, Rule
    <2>2. /\ call' \in [Session -> Call] /\ call'[s].pc = "read"
          /\ \A t \in Session : t # s => call'[t] = call[t]
      BY <1>6, <1>j DEF EvaluateUpsert
    <2>3. log' \in Log /\ log'.status # "absent"
      BY <1>a, <1>6, <2>1 DEF EvaluateUpsert, Log, Status
    <2>4. CASE log.status = "absent"
      <3>1. /\ done = 0 /\ taken = 0
            /\ \A t \in Session : call[t].pc \in {"idle", "upsert", "read"}
        BY <2>4 DEF EventInvariant, AbsentIsUntouched
      <3> QED
        BY <1>a, <1>6, <2>2, <2>3, <3>1
           DEF EvaluateUpsert, EventInvariant, TypeOK, AbsentIsUntouched, PerformsApproved,
               UpsertHasPlan, ContractualWasApproved, history
    <2>5. CASE log.status # "absent"
      <3>1. Approved' = Approved /\ log' = log
        BY <1>6, <2>5 DEF EvaluateUpsert, Approved
      <3> QED
        BY <1>a, <1>6, <2>2, <2>3, <3>1
           DEF EvaluateUpsert, EventInvariant, TypeOK, AbsentIsUntouched, PerformsApproved,
               UpsertHasPlan, ContractualWasApproved, history
    <2> QED
      BY <2>4, <2>5
  <1>7. ASSUME NEW s \in Session, EvaluateRead(s)
        PROVE  EventInvariant'
    <2>1. CASE ~Fresh
      BY <1>a, <1>7, <1>f, <2>1 DEF EvaluateRead, Pc, history
    <2>2. CASE Fresh
      <3>1. PICK pc \in {"start", "approve"} : Goto(s, pc, NoInstance)
        BY <1>7, <2>2 DEF EvaluateRead
      <3>2. [pc |-> pc, plan |-> NoPlan, inst |-> NoInstance] \in Call
        BY <1>d DEF Pc
      <3> QED
        BY <1>a, <1>7, <2>2, <3>1, <3>2, EventMoves DEF EvaluateRead, Goto, Fresh, history
    <2> QED
      BY <2>1, <2>2
  <1>8. ASSUME NEW s \in Session,
               StartNone(s) \/ StartMiss(s) \/ StartReuse(s) \/ Settle(s) \/ PerformFails(s)
        PROVE  EventInvariant'
    <2>1. CASE StartNone(s) \/ StartMiss(s)
      BY <1>a, <1>f, <2>1 DEF StartNone, StartMiss, End, Pc, history
    <2>2. CASE StartReuse(s)
      BY <1>a, <1>f, <2>2 DEF StartReuse, Open, Pc, history
    <2>3. CASE Settle(s)
      BY <1>a, <1>f, <2>3 DEF Settle, Pc, history
    <2>4. CASE PerformFails(s)
      BY <1>a, <1>f, <2>4 DEF PerformFails, Pc, history
    <2> QED
      BY <1>8, <2>1, <2>2, <2>3, <2>4
  <1>9. ASSUME NEW s \in Session, StartOpen(s)
        PROVE  EventInvariant'
    <2>1. PICK i \in Instance : Opened(i) /\ Goto(s, "link", i)
      BY <1>9 DEF StartOpen
    <2>2. [pc |-> "link", plan |-> NoPlan, inst |-> i] \in Call
      BY <1>d DEF Pc
    <2>3. /\ call' \in [Session -> Call]
          /\ \A t \in Session :
               call'[t] = call[t] \/ call'[t].pc \notin {"perform", "order", "upsert"}
      BY <1>a, <2>1, <2>2 DEF Goto
    <2>4. verdict' \in [Instance -> Verdict] /\ (Approved => Approved')
      BY <1>a, <2>1 DEF Opened, Verdict, Approved
    <2> QED
      BY <1>a, <1>b, <1>9, <2>3, <2>4, EngineMoves DEF StartOpen, history
  <1>10. ASSUME NEW s \in Session, Link(s)
         PROVE  EventInvariant'
    <2>1. call[s].inst \in Instance \cup {NoInstance}
      BY <1>a DEF Call
    <2>2. log' \in Log /\ log'.type = log.type /\ log'.status = log.status
      BY <1>a, <1>10, <2>1 DEF Link, Log
    <2>3. [pc |-> "idle", plan |-> NoPlan, inst |-> NoInstance] \in Call
      BY <1>d DEF Pc
    <2> QED
      BY <1>a, <1>b, <1>10, <2>2, <2>3, EventMoves DEF Link, End, Goto, history
  <1>11. ASSUME NEW s \in Session, SettleReject(s) \/ Approve(s) \/ Record(s) \/ RecordFailure(s)
         PROVE  EventInvariant'
    BY <1>g, <1>11 DEF SettleReject, Approve, Record, RecordFailure, End, Status
  <1>12. ASSUME NEW s \in Session, Execute(s)
         PROVE  EventInvariant'
    BY <1>a, <1>e, <1>f, <1>12 DEF Execute, Pc, history
  <1>13. ASSUME NEW s \in Session, Floor(s)
         PROVE  EventInvariant'
    <2>1. call[s].inst \in Instance \cup {NoInstance}
      BY <1>a DEF Call
    <2>2. CASE Approved
      BY <1>a, <1>f, <1>13, <2>2 DEF Floor, Pc, history
    <2>3. CASE ~Approved
      <3>1. Goto(s, "fail", NoInstance)
        BY <1>13, <2>1, <2>3 DEF Floor, Approved
      <3> QED
        BY <1>a, <1>f, <1>13, <3>1 DEF Floor, Pc, history
    <2> QED
      BY <2>2, <2>3
  <1>14. ASSUME NEW s \in Session, Perform(s) \/ Order(s) \/ TakeStock(s)
         PROVE  EventInvariant'
    <2>1. PICK pc \in {"record", "order"} : Goto(s, pc, NoInstance)
      BY <1>14 DEF Perform, Order, TakeStock
    <2>2. [pc |-> pc, plan |-> NoPlan, inst |-> NoInstance] \in Call
      BY <1>d DEF Pc
    <2>3. /\ call' \in [Session -> Call] /\ call'[s].pc = pc
          /\ \A t \in Session : t # s => call'[t] = call[t]
      BY <1>a, <2>1, <2>2 DEF Goto
    <2>4. done' \in 0 .. MaxDone /\ taken' \in 0 .. MaxDone
      BY <1>a, <1>14 DEF Perform, Order, TakeStock
    <2>5. /\ UNCHANGED <<rule, log, verdict, slips, serial, alone>>
          /\ call[s].pc \in {"perform", "order"}
      BY <1>14 DEF Perform, Order, TakeStock
    <2>6. log.status # "absent" /\ (log.type \in Contractual => Approved) /\ Approved' = Approved
      BY <1>b, <2>5 DEF EventInvariant, PerformsApproved, Approved
    <2> QED
      BY <1>a, <2>3, <2>4, <2>5, <2>6
         DEF EventInvariant, TypeOK, AbsentIsUntouched, PerformsApproved, UpsertHasPlan,
             ContractualWasApproved, Approved
  <1>15. ASSUME NEW s \in Session, OrderFails(s)
         PROVE  EventInvariant'
    BY <1>a, <1>f, <1>h, <1>15 DEF OrderFails, Pc
  <1>16. ASSUME NEW s \in Session, Stop(s)
         PROVE  EventInvariant'
    <2>1. slips' \in 0 .. MaxDone
      BY <1>a, <1>h, <1>16 DEF Stop
    <2> QED
      BY <1>a, <1>f, <1>16, <2>1 DEF Stop, End, Pc
  <1>17. ASSUME NEW s \in Session, WriteLost(s)
         PROVE  EventInvariant'
    <2>1. slips' \in 0 .. MaxDone
      BY <1>a, <1>h, <1>17 DEF WriteLost
    <2>2. CASE call[s].pc = "upsert"
      <3>1. call' = [call EXCEPT ![s].pc = "read"]
        BY <1>17, <2>2 DEF WriteLost
      <3> QED
        BY <1>a, <1>17, <1>j, <2>1, <2>2, <3>1, EventMoves DEF WriteLost
    <2>3. CASE call[s].pc = "approve"
      <3>1. Goto(s, "execute", NoInstance)
        BY <1>17, <2>3 DEF WriteLost
      <3> QED
        BY <1>a, <1>f, <1>17, <2>1, <2>3, <3>1 DEF WriteLost, Pc
    <2>4. CASE call[s].pc \notin {"upsert", "approve"}
      <3>1. End(s)
        BY <1>17, <2>4 DEF WriteLost
      <3> QED
        BY <1>a, <1>f, <1>17, <2>1, <3>1 DEF WriteLost, End, Pc
    <2> QED
      BY <2>2, <2>3, <2>4
  <1>18. ASSUME NEW r \in Rule, SaveRule(r)
         PROVE  EventInvariant'
    BY <1>18 DEF SaveRule, EventInvariant, TypeOK, AbsentIsUntouched, PerformsApproved,
       UpsertHasPlan, ContractualWasApproved, Approved, history
  <1>19. CASE UNCHANGED vars
    BY <1>19 DEF vars, EventInvariant, TypeOK, AbsentIsUntouched, PerformsApproved,
       UpsertHasPlan, ContractualWasApproved, Approved, history
  <1> QED
    BY <1>1, <1>2, <1>4, <1>5, <1>6, <1>7, <1>8, <1>9, <1>10, <1>11, <1>12, <1>13, <1>14,
       <1>15, <1>16, <1>17, <1>18, <1>19
       DEF Next, Start, Continue, Evaluate, ExecuteAction

(* The governance hard floor holds for every number of calls.                 *)
THEOREM HardFloor == Spec => []ContractualWasApproved
  <1>1. EventInvariant => ContractualWasApproved
    BY DEF EventInvariant
  <1> QED
    BY EventInit, EventStep, <1>1, PTL DEF Spec

------------------------------------------------------------------------------
(* An execution, from the mark as approved to the record of its outcome.      *)
Executing == {"approve", "execute", "floor", "perform", "order", "record", "fail"}

(* A call that is not overlapped by another one.                              *)
OneCall == \A s, t \in Session : call[s] = Idle \/ call[t] = Idle \/ s = t

(* Nobody is about to execute or reject a row that is executed.               *)
ExecutedIsLeft ==
  \A s \in Session : call[s].pc \in Executing \cup {"reject"} => log.status # "executed"

(* The effect n is made up for by the slips, but for one that the row shows   *)
(* as executed or whose call is still under way, at one of the places pcs.    *)
Accounted(n, pcs) ==
  \/ n <= slips
  \/ n <= slips + 1 /\ (log.status = "executed" \/ \E s \in Session : call[s].pc \in pcs)

InSeries ==
  serial => /\ OneCall
            /\ ExecutedIsLeft
            /\ Accounted(done, {"record"})
            /\ Accounted(taken, {"order", "record"})

(* A step of the only call, which neither writes the row's status nor has an  *)
(* effect.                                                                    *)
LEMMA SeriesMoves ==
  ASSUME EventInvariant, InSeries, serial, NEW s \in Session, call[s] # Idle,
         call' \in [Session -> Call], \A t \in Session : t # s => call'[t] = call[t],
         log'.status = log.status, done' = done, taken' = taken, serial' = serial,
         \/ slips' = slips
         \/ slips' = slips + 1
         \/ slips' = slips /\ slips = MaxDone,
         call[s].pc \in {"order", "record"} => slips' = slips + 1 \/ slips = MaxDone,
         call'[s].pc \in Executing \cup {"reject"} => log.status # "executed"
  PROVE  InSeries'
  <1> USE EventAssumption
  <1>1. OneCall'
    BY DEF InSeries, OneCall
  <1>2. ExecutedIsLeft'
    BY DEF InSeries, OneCall, ExecutedIsLeft
  <1>3. done \in 0 .. MaxDone /\ taken \in 0 .. MaxDone /\ slips \in 0 .. MaxDone
    BY DEF EventInvariant, TypeOK
  <1>4. \A t \in Session : t # s => call[t].pc = "idle"
    BY DEF InSeries, OneCall, Idle
  <1>5. ASSUME NEW n \in 0 .. MaxDone, NEW pcs \in SUBSET {"order", "record"}, Accounted(n, pcs)
        PROVE  \/ n <= slips'
               \/ n <= slips' + 1 /\ log'.status = "executed"
    <2>1. CASE \E t \in Session : call[t].pc \in pcs
      <3>1. call[s].pc \in {"order", "record"}
        BY <1>4, <1>5, <2>1
      <3>2. slips' = slips + 1 \/ slips' = MaxDone
        BY <3>1
      <3> QED
        BY <1>3, <1>5, <3>2 DEF Accounted
    <2>2. CASE ~ \E t \in Session : call[t].pc \in pcs
      BY <1>3, <1>5, <2>2 DEF Accounted
    <2> QED
      BY <2>1, <2>2
  <1>6. Accounted(done, {"record"})' /\ Accounted(taken, {"order", "record"})'
    BY <1>3, <1>5 DEF InSeries, Accounted
  <1> QED
    BY <1>1, <1>2, <1>6 DEF InSeries

(* A call that begins or a step that no call takes leaves all as it was.      *)
LEMMA SeriesStands ==
  ASSUME EventInvariant, InSeries, serial, UNCHANGED <<log, done, taken, slips>>, OneCall',
         call' \in [Session -> Call],
         \A t \in Session : \/ call'[t] = call[t]
                            \/ call[t] = Idle /\ call'[t].pc \in {"upsert", "settle"}
  PROVE  InSeries'
  <1>1. ExecutedIsLeft'
    BY DEF InSeries, ExecutedIsLeft, Executing
  <1>2. Accounted(done, {"record"})' /\ Accounted(taken, {"order", "record"})'
    BY DEF InSeries, Accounted, Idle
  <1> QED
    BY <1>1, <1>2 DEF InSeries

(* Every step keeps the effects accounted for.                                *)
LEMMA SeriesStep == EventInvariant /\ InSeries /\ [Next]_vars => InSeries'
  <1> SUFFICES ASSUME EventInvariant, InSeries, [Next]_vars, serial'
               PROVE  InSeries'
    BY DEF InSeries
  <1> USE EventAssumption
  <1>a. /\ log \in Log /\ verdict \in [Instance -> Verdict] /\ call \in [Session -> Call]
        /\ done \in 0 .. MaxDone /\ taken \in 0 .. MaxDone /\ slips \in 0 .. MaxDone
        /\ done \in Nat /\ taken \in Nat /\ slips \in Nat
    BY DEF EventInvariant, TypeOK
  <1>b. call' \in [Session -> Call]
    BY EventStep DEF EventInvariant, TypeOK
  <1>c. \A s \in Session : call[s].pc # "idle" => call[s] # Idle
    BY DEF Idle
  (* A call begins when none is under way. *)
  <1>d. ASSUME NEW s \in Session, NEW pc \in {"upsert", "settle"}, NEW plan, NEW i,
               Begin(s, pc, plan, i), UNCHANGED log
        PROVE  InSeries'
    <2>1. serial /\ \A t \in Session : call[t] = Idle
      BY <1>d DEF Begin
    <2>2. call'[s].pc = pc /\ \A t \in Session : t # s => call'[t] = call[t]
      BY <1>a, <1>d DEF Begin
    <2>3. OneCall'
      BY <2>1, <2>2 DEF OneCall
    <2> QED
      BY <1>b, <1>d, <2>1, <2>2, <2>3, SeriesStands DEF Begin
  (* A call under way goes on, which changes no other. *)
  <1>e. ASSUME NEW s \in Session, NEW pc, NEW i, Goto(s, pc, i)
        PROVE  call'[s].pc = pc /\ \A t \in Session : t # s => call'[t] = call[t]
    BY <1>a, <1>e DEF Goto
  <1>f. ASSUME NEW s \in Session, call[s].pc \notin {"idle", "order", "record"},
               UNCHANGED <<done, taken, slips, serial>>,
               log'.status = log.status, \A t \in Session : t # s => call'[t] = call[t],
               call'[s].pc \in Executing \cup {"reject"} => log.status # "executed"
        PROVE  InSeries'
    <2>1. serial /\ call[s] # Idle
      BY <1>c, <1>f
    <2> QED
      BY <1>b, <1>f, <2>1, SeriesMoves
  <1>g. ASSUME Slip
        PROVE  slips' = slips + 1 \/ (slips' = slips /\ slips = MaxDone)
    BY <1>a, <1>g DEF Slip
  <1>h. \A s \in Session :
          serial /\ call[s].pc \in Executing \cup {"reject"} => log.status # "executed"
    BY DEF InSeries, ExecutedIsLeft
  <1>1. ASSUME NEW s \in Session, EvaluatePlan(s)
        PROVE  InSeries'
    BY <1>1, <1>d DEF EvaluatePlan
  <1>2. ASSUME NEW s \in Session, NEW i \in Instance,
               DecideOther(s, i) \/ \E d \in {"approved", "rejected"} : Decide(s, i, d)
        PROVE  InSeries'
    BY <1>2, <1>d DEF DecideOther, Decide
  <1>3. ASSUME NEW i \in Instance, Cancel(i)
        PROVE  InSeries'
    BY <1>b, <1>3, SeriesStands DEF Cancel, history, InSeries, OneCall
  <1>4. ASSUME NEW s \in Session, EvaluateUpsert(s)
        PROVE  InSeries'
    <2>1. /\ call'[s].pc = "read" /\ call[s].pc = "upsert"
          /\ \A t \in Session : t # s => call'[t] = call[t]
      BY <1>a, <1>4 DEF EvaluateUpsert, Call
    <2>2. CASE log.status = "absent"
      <3>1. done = 0 /\ taken = 0 /\ serial /\ call[s] # Idle
        BY <1>4, <1>c, <2>1, <2>2 DEF EventInvariant, AbsentIsUntouched, EvaluateUpsert, history
      <3>2. OneCall' /\ ExecutedIsLeft'
        BY <1>4, <2>1, <2>2, <3>1
           DEF InSeries, OneCall, ExecutedIsLeft, EvaluateUpsert, Executing, Idle
      <3>3. Accounted(done, {"record"})' /\ Accounted(taken, {"order", "record"})'
        BY <1>a, <1>4, <3>1 DEF Accounted, EvaluateUpsert, history
      <3> QED
        BY <3>2, <3>3 DEF InSeries
    <2>3. CASE log.status # "absent"
      BY <1>4, <1>f, <2>1, <2>3 DEF EvaluateUpsert, Executing, history
    <2> QED
      BY <2>2, <2>3
  <1>5. ASSUME NEW s \in Session, EvaluateRead(s)
        PROVE  InSeries'
    <2>1. PICK pc \in {"idle", "start", "approve"} :
            Goto(s, pc, NoInstance) /\ (pc # "idle" => Fresh)
      BY <1>5 DEF EvaluateRead
    <2>2. call'[s].pc = pc /\ \A t \in Session : t # s => call'[t] = call[t]
      BY <1>e, <2>1
    <2>3. log' = log /\ UNCHANGED <<done, taken, slips, serial>> /\ call[s].pc = "read"
      BY <1>5 DEF EvaluateRead, history
    <2> QED
      BY <1>f, <2>1, <2>2, <2>3 DEF Fresh, Executing
  <1>6. ASSUME NEW s \in Session,
               StartNone(s) \/ StartMiss(s) \/ StartReuse(s) \/ StartOpen(s) \/ Link(s)
        PROVE  InSeries'
    <2>1. PICK pc \in {"idle", "open", "link"}, i \in Instance \cup {NoInstance} :
            Goto(s, pc, i)
      BY <1>6 DEF StartNone, StartMiss, StartReuse, StartOpen, Link, End, Open
    <2>2. /\ log'.status = log.status /\ UNCHANGED <<done, taken, slips, serial>>
          /\ call[s].pc \in {"start", "open", "link"}
      BY <1>a, <1>6 DEF StartNone, StartMiss, StartReuse, StartOpen, Link, Log, history
    <2>3. call'[s].pc = pc /\ \A t \in Session : t # s => call'[t] = call[t]
      BY <1>e, <2>1
    <2> QED
      BY <1>f, <2>1, <2>2, <2>3 DEF Executing
  <1>7. ASSUME NEW s \in Session, Settle(s)
        PROVE  InSeries'
    <2>1. PICK pc \in {"idle", "approve", "reject"} :
            Goto(s, pc, NoInstance) /\ (pc # "idle" => log.status # "executed")
      BY <1>7 DEF Settle
    <2>2. call'[s].pc = pc /\ \A t \in Session : t # s => call'[t] = call[t]
      BY <1>e, <2>1
    <2>3. log' = log /\ UNCHANGED <<done, taken, slips, serial>> /\ call[s].pc = "settle"
      BY <1>7 DEF Settle, history
    <2> QED
      BY <1>f, <2>1, <2>2, <2>3 DEF Executing
  <1>8. ASSUME NEW s \in Session, Execute(s) \/ Floor(s) \/ PerformFails(s)
        PROVE  InSeries'
    <2>1. PICK pc \in {"idle", "floor", "perform", "fail"}, i \in Instance \cup {NoInstance} :
            Goto(s, pc, i)
      BY <1>8, <1>a DEF EventInvariant, TypeOK, Log, Execute, Floor, PerformFails
    <2>2. /\ UNCHANGED <<log, done, taken, slips, serial>>
          /\ call[s].pc \in {"execute", "floor", "perform"}
      BY <1>8 DEF Execute, Floor, PerformFails, history
    <2>3. call'[s].pc = pc /\ \A t \in Session : t # s => call'[t] = call[t]
      BY <1>e, <2>1
    <2>4. log.status # "executed"
      BY <1>h, <2>2 DEF Executing
    <2> QED
      BY <1>f, <2>2, <2>3, <2>4
  <1>9. ASSUME NEW s \in Session, SettleReject(s) \/ Approve(s) \/ RecordFailure(s) \/ Record(s)
        PROVE  InSeries'
    <2>1. PICK pc \in {"idle", "execute"} : Goto(s, pc, NoInstance)
      BY <1>9 DEF SettleReject, Approve, RecordFailure, Record, End
    <2>2. /\ UNCHANGED <<done, taken, slips, serial>> /\ serial
          /\ call[s].pc \in {"reject", "approve", "fail", "record"}
          /\ call[s].pc = "record" <=> log'.status = "executed"
      BY <1>a, <1>9 DEF SettleReject, Approve, RecordFailure, Record, SetStatus, Log, history
    <2>4. call'[s].pc = pc /\ \A t \in Session : t # s => call'[t] = call[t]
      BY <1>e, <2>1
    <2>10. pc = "execute" => call[s].pc = "approve"
      BY <1>a, <1>9, <2>4 DEF SettleReject, Approve, RecordFailure, Record, End, Goto
    <2>3. \A t \in Session : t # s => call[t].pc = "idle" /\ call'[t].pc = "idle"
      BY <1>c, <2>2, <2>4 DEF InSeries, OneCall, Idle
    <2>5. OneCall'
      BY <1>c, <2>2, <2>4 DEF InSeries, OneCall
    <2>6. ExecutedIsLeft'
      BY <2>2, <2>3, <2>4, <2>10 DEF ExecutedIsLeft, Executing
    <2>7. log.status # "executed"
      BY <1>h, <2>2 DEF Executing
    <2>8. ASSUME NEW n \in Nat, NEW pcs \in {{"record"}, {"order", "record"}}, Accounted(n, pcs)
          PROVE  n <= slips \/ (n <= slips + 1 /\ log'.status = "executed")
      BY <2>2, <2>3, <2>7, <2>8 DEF Accounted
    <2>9. Accounted(done, {"record"})' /\ Accounted(taken, {"order", "record"})'
      BY <1>a, <2>2, <2>8 DEF InSeries, Accounted
    <2> QED
      BY <2>5, <2>6, <2>9 DEF InSeries
  <1>10. ASSUME NEW s \in Session, Perform(s) \/ TakeStock(s) \/ Order(s)
         PROVE  InSeries'
    <2>1. PICK pc \in {"order", "record"} : Goto(s, pc, NoInstance)
      BY <1>10 DEF Perform, TakeStock, Order
    <2>2. UNCHANGED <<log, slips, serial>> /\ serial /\ call[s].pc \in {"perform", "order"}
      BY <1>10 DEF Perform, TakeStock, Order
    <2>3. call'[s].pc = pc /\ \A t \in Session : t # s => call'[t] = call[t]
      BY <1>e, <2>1
    <2>4. \A t \in Session : t # s => call[t].pc = "idle"
      BY <1>c, <2>2 DEF InSeries, OneCall, Idle
    <2>5. OneCall' /\ ExecutedIsLeft'
      BY <1>c, <1>h, <2>2, <2>3, <2>4 DEF InSeries, OneCall, ExecutedIsLeft, Executing
    <2>6. log.status # "executed"
      BY <1>h, <2>2 DEF Executing
    <2>7. done <= slips /\ (call[s].pc = "perform" => taken <= slips) /\ taken <= slips + 1
      BY <1>a, <2>2, <2>4, <2>6 DEF InSeries, Accounted
    <2>8. /\ pc = "record" => done' = done + 1 /\ taken' = taken
          /\ pc = "order" => done' = done /\ taken' = taken + 1 /\ call[s].pc = "perform"
      <3>1. CASE Perform(s)
        BY <2>3, <3>1, <1>e DEF Perform
      <3>2. CASE TakeStock(s)
        BY <2>3, <3>2, <1>e DEF TakeStock
      <3>3. CASE Order(s)
        BY <2>3, <3>3, <1>e DEF Order
      <3> QED
        BY <1>10, <3>1, <3>2, <3>3
    <2>9. Accounted(done, {"record"})' /\ Accounted(taken, {"order", "record"})'
      BY <1>a, <2>2, <2>3, <2>7, <2>8 DEF Accounted
    <2> QED
      BY <2>5, <2>9 DEF InSeries
  <1>11. ASSUME NEW s \in Session, OrderFails(s)
         PROVE  InSeries'
    <2>1. /\ call'[s].pc = "fail" /\ \A t \in Session : t # s => call'[t] = call[t]
          /\ call[s].pc = "order" /\ serial /\ UNCHANGED <<log, done, taken, serial>>
      BY <1>11, <1>e DEF OrderFails
    <2>2. log.status # "executed"
      BY <1>h, <2>1 DEF Executing
    <2>3. slips' = slips + 1 \/ (slips' = slips /\ slips = MaxDone)
      BY <1>11, <1>g DEF OrderFails
    <2> QED
      BY <1>b, <1>c, <2>1, <2>2, <2>3, SeriesMoves
  <1>12. ASSUME NEW s \in Session, Stop(s)
         PROVE  InSeries'
    <2>1. /\ call'[s].pc = "idle" /\ \A t \in Session : t # s => call'[t] = call[t]
          /\ call[s] # Idle /\ serial /\ UNCHANGED <<log, done, taken, serial>>
      BY <1>12, <1>e DEF Stop, End
    <2>2. \/ slips' = slips /\ call[s].pc \notin {"order", "record"}
          \/ slips' = slips + 1
          \/ slips' = slips /\ slips = MaxDone
      BY <1>12, <1>g DEF Stop
    <2> QED
      BY <1>b, <2>1, <2>2, SeriesMoves DEF Executing
  <1>13. ASSUME NEW s \in Session, WriteLost(s)
         PROVE  InSeries'
    <2>1. serial /\ UNCHANGED <<log, done, taken, serial>> /\ call[s] # Idle
      BY <1>13, <1>c DEF WriteLost
    <2>2. /\ \A t \in Session : t # s => call'[t] = call[t]
          /\ \/ call'[s].pc \in {"idle", "read"}
             \/ call'[s].pc = "execute" /\ call[s].pc = "approve"
      <3>1. CASE call[s].pc = "upsert"
        BY <1>a, <1>13, <3>1 DEF WriteLost, Call
      <3>2. CASE call[s].pc = "approve"
        BY <1>e, <1>13, <3>2 DEF WriteLost
      <3>3. CASE call[s].pc \notin {"upsert", "approve"}
        BY <1>e, <1>13, <3>3 DEF WriteLost, End
      <3> QED
        BY <3>1, <3>2, <3>3
    <2>3. call'[s].pc \in Executing \cup {"reject"} => log.status # "executed"
      BY <1>h, <2>1, <2>2 DEF Executing
    <2>4. \/ slips' = slips /\ call[s].pc \notin {"order", "record"}
          \/ slips' = slips + 1
          \/ slips' = slips /\ slips = MaxDone
      BY <1>13, <1>g DEF WriteLost
    <2> QED
      BY <1>b, <2>1, <2>2, <2>3, <2>4, SeriesMoves
  <1>14. ASSUME NEW r \in Rule, SaveRule(r)
         PROVE  InSeries'
    BY <1>b, <1>14, SeriesStands DEF SaveRule, history, InSeries, OneCall
  <1>15. CASE UNCHANGED vars
    BY <1>b, <1>15, SeriesStands DEF vars, history, InSeries, OneCall
  <1> QED
    BY <1>1, <1>2, <1>3, <1>4, <1>5, <1>6, <1>7, <1>8, <1>9, <1>10, <1>11, <1>12, <1>13, <1>14,
       <1>15
       DEF Next, Start, Continue, Evaluate, ExecuteAction

(* While calls do not overlap, an effect is repeated only after an execution  *)
(* that had one and ended half-way: by a stop, a lost record or a failed      *)
(* order.                                                                     *)
THEOREM EffectsAccountedFor == Spec => []RepeatedOnlyAfterSlips
  <1>1. Init => EventInvariant /\ InSeries
    BY EventInit, EventAssumption DEF Init, InSeries, OneCall, ExecutedIsLeft, Accounted, Idle,
       Executing
  <1>2. EventInvariant /\ InSeries /\ [Next]_vars => (EventInvariant /\ InSeries)'
    BY EventStep, SeriesStep
  <1>3. EventInvariant /\ InSeries => RepeatedOnlyAfterSlips
    <2> SUFFICES ASSUME EventInvariant, InSeries, serial
                 PROVE  done <= 1 + slips /\ taken <= 1 + slips
      BY DEF RepeatedOnlyAfterSlips
    <2>1. done \in Nat /\ taken \in Nat /\ slips \in Nat
      BY EventAssumption DEF EventInvariant, TypeOK
    <2> QED
      BY <2>1 DEF InSeries, Accounted
  <1> QED
    BY <1>1, <1>2, <1>3, PTL DEF Spec

------------------------------------------------------------------------------
(* What holds while calls neither overlap nor stop nor lose a write, c being  *)
(* the one call that is under way, or Idle.                                   *)
DoneOnce(c) ==
  /\ done <= 1
  /\ c.pc = "record" => done = 1 /\ log.status # "executed"
  /\ c.pc # "record" => (log.status = "executed" <=> done = 1)
  /\ c.pc \in Executing \cup {"reject"} => log.status # "executed"

(* Stock is taken by the call under way, or the row tells.                    *)
StockTold(c) ==
  /\ taken > 0 => log.status \in {"executed", "failed"} \/ c.pc \in Executing
  /\ c.pc = "reject" => taken = 0
  /\ c.pc = "order" => taken > 0
  /\ c.pc = "record" /\ log.type \in Stocked => taken > 0
  /\ log.status = "executed" /\ log.type \in Stocked => taken > 0

(* The row has one instance at most, which it is bound to or about to be.     *)
OneInstance(c) ==
  /\ \A i, j \in Instance : verdict[i] # "none" /\ verdict[j] # "none" => i = j
  /\ \A i \in Instance : verdict[i] # "none" => log.inst = i \/ (c.pc = "link" /\ c.inst = i)
  /\ c.pc \in {"start", "open", "link"} => Fresh
  /\ c.pc = "settle" => c.inst \in Instance /\ verdict[c.inst] # "none"

(* The row is where the verdict of its instance takes it, or on the way.      *)
RowFollows(c) ==
  \A i \in Instance :
    /\ verdict[i] = "open" =>
         log.status = "pending_approval" /\ c.pc \notin Executing \cup {"reject"}
    /\ verdict[i] = "approved" =>
         /\ log.status \in {"executed", "failed"} \/ c.pc \in Executing \cup {"settle"}
         /\ log.status # "rejected" /\ c.pc # "reject"
    /\ verdict[i] \in {"rejected", "cancelled"} =>
         log.status \in {"pending_approval", "rejected"} /\ c.pc \notin Executing
    /\ verdict[i] = "rejected" => log.status = "rejected" \/ c.pc \in {"settle", "reject"}

RowState(c) == DoneOnce(c) /\ StockTold(c) /\ OneInstance(c) /\ RowFollows(c)

InTurn ==
  alone =>
    \/ (\A t \in Session : call[t] = Idle) /\ RowState(Idle)
    \/ \E s \in Session :
         /\ call[s] # Idle /\ RowState(call[s])
         /\ \A t \in Session : t # s => call[t] = Idle

(* A call under way that is alone is the only one, and the row is as it says. *)
LEMMA TurnOfCall ==
  ASSUME InTurn, alone, NEW s \in Session, call[s] # Idle
  PROVE  RowState(call[s]) /\ \A t \in Session : t # s => call[t] = Idle
  BY DEF InTurn

(* What a step of the only call has to show.                                  *)
LEMMA TurnKept ==
  ASSUME NEW s \in Session, \A t \in Session : t # s => call'[t] = Idle, RowState(call[s])'
  PROVE  InTurn'
  <1>1. CASE call'[s] = Idle
    <2>1. RowState(Idle)'
      BY <1>1 DEF RowState, DoneOnce, StockTold, OneInstance, RowFollows, Idle
    <2> QED
      BY <1>1, <2>1 DEF InTurn
  <1>2. CASE call'[s] # Idle
    BY <1>2 DEF InTurn
  <1> QED
    BY <1>1, <1>2

(* Initially nothing was done or started.                                     *)
LEMMA TurnInit == Init => InTurn
  BY EventAssumption DEF Init, VerdictInit, InTurn, RowState, DoneOnce, StockTold,
     OneInstance, RowFollows, Idle, Executing

(* Every step of every call keeps the row in turn.                            *)
LEMMA TurnStep == EventInvariant /\ InTurn /\ [Next]_vars => InTurn'
  <1> SUFFICES ASSUME EventInvariant, InTurn, [Next]_vars, alone'
               PROVE  InTurn'
    BY DEF InTurn
  <1> USE EventAssumption
  <1>a. /\ log \in Log /\ done \in Nat /\ taken \in Nat
        /\ verdict \in [Instance -> Verdict] /\ call \in [Session -> Call]
        /\ log.inst \in Instance \cup {NoInstance}
    BY DEF EventInvariant, TypeOK, Log
  <1>b. \A s \in Session : call[s].pc # "idle" => call[s] # Idle
    BY DEF Idle
  (* A call begins when none is under way. *)
  <1>c. ASSUME NEW s \in Session, NEW pc, NEW plan, NEW i, Begin(s, pc, plan, i)
        PROVE  /\ RowState(Idle) /\ call'[s] = [pc |-> pc, plan |-> plan, inst |-> i]
               /\ \A t \in Session : t # s => call'[t] = Idle
    <2>1. alone /\ \A t \in Session : call[t] = Idle
      BY <1>c DEF Begin
    <2> QED
      BY <1>a, <1>c, <2>1 DEF Begin, InTurn
  (* A call under way goes on. *)
  <1>d. ASSUME NEW s \in Session, NEW pc, NEW i, Goto(s, pc, i), call[s].pc # "idle", alone' = alone
        PROVE  /\ RowState(call[s]) /\ call'[s] = [pc |-> pc, plan |-> NoPlan, inst |-> i]
               /\ \A t \in Session : t # s => call'[t] = Idle
    <2>1. RowState(call[s]) /\ \A t \in Session : t # s => call[t] = Idle
      BY <1>b, <1>d, TurnOfCall
    <2> QED
      BY <1>a, <1>d, <2>1 DEF Goto
  <1>1. ASSUME NEW s \in Session, EvaluatePlan(s)
        PROVE  InTurn'
    <2>1. /\ RowState(Idle) /\ call'[s] = [pc |-> "upsert", plan |-> rule, inst |-> NoInstance]
          /\ \A t \in Session : t # s => call'[t] = Idle
      BY <1>1, <1>c DEF EvaluatePlan
    <2>2. RowState(call[s])'
      BY <1>1, <2>1
         DEF EvaluatePlan, Begin, RowState, DoneOnce, StockTold, OneInstance, RowFollows, Idle,
             Executing, Fresh
    <2> QED
      BY <2>1, <2>2, TurnKept
  <1>2. ASSUME NEW s \in Session, NEW i \in Instance,
               DecideOther(s, i) \/ \E d \in {"approved", "rejected"} : Decide(s, i, d)
        PROVE  InTurn'
    <2>1. /\ RowState(Idle) /\ call'[s] = [pc |-> "settle", plan |-> NoPlan, inst |-> i]
          /\ \A t \in Session : t # s => call'[t] = Idle
      BY <1>2, <1>c DEF DecideOther, Decide
    <2>2. RowState(call[s])'
      <3>0. UNCHANGED <<log, done, taken>>
        BY <1>2 DEF DecideOther, Decide, Begin
      <3>1. DoneOnce(call[s])'
        BY <2>1, <3>0 DEF RowState, DoneOnce, Idle, Executing
      <3>5. StockTold(call[s])'
        BY <2>1, <3>0 DEF RowState, StockTold, Idle, Executing
      <3>2. OneInstance(call[s])'
        BY <1>a, <1>2, <2>1 DEF DecideOther, Decide, Decided, RowState, OneInstance, Idle
      <3>3. ASSUME DecideOther(s, i)
            PROVE  RowFollows(call[s])'
        <4>1. verdict' = verdict
          BY <3>3 DEF DecideOther
        <4>2. call'[s].pc = "settle" /\ Idle.pc = "idle"
          BY <2>1 DEF Idle
        <4>3. RowFollows(Idle)
          BY <2>1 DEF RowState
        <4> QED
          BY <3>0, <4>1, <4>2, <4>3 DEF RowFollows, Executing
      <3>4. ASSUME NEW d \in {"approved", "rejected"}, Decide(s, i, d)
            PROVE  RowFollows(call[s])'
        <4>1. verdict[i] = "open" /\ verdict' = [verdict EXCEPT ![i] = d]
          BY <3>4 DEF Decide, Decided
        <4>2. call'[s].pc = "settle" /\ Idle.pc = "idle" /\ RowFollows(Idle)
          BY <2>1 DEF RowState, Idle
        <4>3. log'.status = log.status /\ log.status = "pending_approval"
          BY <3>0, <4>1, <4>2 DEF RowFollows
        <4>4. verdict'[i] = d /\ \A j \in Instance : j # i => verdict'[j] = verdict[j]
          BY <1>a, <4>1
        <4>5. \A j \in Instance \ {i} : verdict[j] \notin {"approved", "rejected"}
          BY <4>2, <4>3 DEF RowFollows, Executing
        <4>6. "settle" \notin Executing \cup {"reject"}
          BY DEF Executing
        <4> QED
          BY <4>2, <4>3, <4>4, <4>5, <4>6 DEF RowFollows
      <3> QED
        BY <1>2, <3>1, <3>2, <3>3, <3>4, <3>5 DEF RowState
    <2> QED
      BY <2>1, <2>2, TurnKept
  <1>3. ASSUME NEW i \in Instance, Cancel(i)
        PROVE  InTurn'
    <2>1. alone /\ UNCHANGED <<log, done, taken, call>>
      BY <1>3 DEF Cancel, history
    <2>2. ASSUME NEW c \in Call, RowState(c)
          PROVE  DoneOnce(c)' /\ StockTold(c)' /\ OneInstance(c)' /\ RowFollows(c)'
      BY <1>a, <1>3, <2>1, <2>2
         DEF Cancel, Decided, RowState, DoneOnce, StockTold, OneInstance,
             RowFollows, Fresh, Executing
    <2>3. CASE \A t \in Session : call[t] = Idle
      <3>1. RowState(Idle)
        BY <2>1, <2>3 DEF InTurn
      <3>2. Idle \in Call
        BY DEF Idle, Call, Pc
      <3>3. RowState(Idle)'
        BY <2>2, <3>1, <3>2 DEF RowState, Idle
      <3> QED
        BY <2>1, <2>3, <3>3 DEF InTurn
    <2>4. CASE \E t \in Session : call[t] # Idle
      <3>1. PICK t \in Session : /\ call[t] # Idle /\ RowState(call[t])
                                 /\ \A u \in Session : u # t => call[u] = Idle
        BY <2>1, <2>4, TurnOfCall
      <3>2. RowState(call[t])'
        BY <1>a, <1>3, <2>1, <3>1
           DEF Cancel, Decided, RowState, DoneOnce, StockTold, OneInstance,
               RowFollows, Fresh, Executing
      <3> QED
        BY <2>1, <3>1, <3>2, TurnKept
    <2> QED
      BY <2>3, <2>4
  <1>4. ASSUME NEW s \in Session, EvaluateUpsert(s)
        PROVE  InTurn'
    <2>1. alone /\ RowState(call[s]) /\ \A t \in Session : t # s => call[t] = Idle
      BY <1>b, <1>4, TurnOfCall DEF EvaluateUpsert, history
    <2>2. /\ call'[s].pc = "read" /\ call[s].pc = "upsert"
          /\ \A t \in Session : t # s => call'[t] = Idle
      BY <1>a, <1>4, <2>1 DEF EvaluateUpsert, Call
    <2>3. log.status = "absent" =>
            /\ log'.status = "pending_approval" /\ log'.inst = NoInstance
            /\ \A i \in Instance : verdict[i] = "none"
            /\ taken = 0
      BY <1>4 DEF EvaluateUpsert, EventInvariant, AbsentIsUntouched
    <2>4. log.status # "absent" => log' = log
      BY <1>4 DEF EvaluateUpsert
    <2>5. RowState(call[s])'
      BY <1>a, <1>4, <2>1, <2>2, <2>3, <2>4
         DEF EvaluateUpsert, history, RowState, DoneOnce, StockTold, OneInstance,
             RowFollows, Fresh, Executing
    <2> QED
      BY <2>2, <2>5, TurnKept
  <1>5. ASSUME NEW s \in Session, EvaluateRead(s)
        PROVE  InTurn'
    <2>1. PICK pc \in {"idle", "start", "approve"} :
            Goto(s, pc, NoInstance) /\ (pc # "idle" => Fresh)
      BY <1>5 DEF EvaluateRead
    <2>2. /\ RowState(call[s]) /\ call'[s] = [pc |-> pc, plan |-> NoPlan, inst |-> NoInstance]
          /\ \A t \in Session : t # s => call'[t] = Idle
      BY <1>5, <1>d, <2>1 DEF EvaluateRead, history
    <2>3. RowState(call[s])'
      BY <1>a, <1>5, <2>1, <2>2
         DEF EvaluateRead, history, RowState, DoneOnce, StockTold, OneInstance,
             RowFollows, Fresh, Executing
    <2> QED
      BY <2>2, <2>3, TurnKept
  <1>6. ASSUME NEW s \in Session, StartNone(s) \/ StartMiss(s) \/ StartReuse(s)
        PROVE  InTurn'
    <2>1. PICK pc \in {"idle", "open", "link"}, i \in Instance \cup {NoInstance} :
            Goto(s, pc, i) /\ (pc = "link" => i \in Open)
      BY <1>6 DEF StartNone, StartMiss, StartReuse, End, Open
    <2>2. /\ RowState(call[s]) /\ call'[s] = [pc |-> pc, plan |-> NoPlan, inst |-> i]
          /\ \A t \in Session : t # s => call'[t] = Idle
      BY <1>6, <1>d, <2>1 DEF StartNone, StartMiss, StartReuse, history
    <2>3. /\ UNCHANGED <<log, done, taken, verdict>> /\ call[s].pc = "start"
      BY <1>6 DEF StartNone, StartMiss, StartReuse, history
    <2>4. DoneOnce(call[s])' /\ StockTold(call[s])' /\ RowFollows(call[s])'
      BY <2>2, <2>3 DEF RowState, DoneOnce, StockTold, RowFollows, Executing
    <2>5. OneInstance(call[s])'
      BY <1>a, <2>1, <2>2, <2>3 DEF RowState, OneInstance, Open, Fresh
    <2> QED
      BY <2>2, <2>4, <2>5, TurnKept DEF RowState
  <1>7. ASSUME NEW s \in Session, StartOpen(s)
        PROVE  InTurn'
    <2>1. PICK i \in Instance : Opened(i) /\ Goto(s, "link", i)
      BY <1>7 DEF StartOpen
    <2>2. /\ RowState(call[s]) /\ call'[s] = [pc |-> "link", plan |-> NoPlan, inst |-> i]
          /\ \A t \in Session : t # s => call'[t] = Idle
      BY <1>7, <1>d, <2>1 DEF StartOpen, history
    <2>3. Fresh /\ \A j \in Instance : verdict[j] = "none"
      BY <1>a, <1>7, <2>2 DEF StartOpen, RowState, OneInstance, Fresh
    <2>4. RowState(call[s])'
      BY <1>a, <1>7, <2>1, <2>2, <2>3
         DEF StartOpen, Opened, history, RowState, DoneOnce, StockTold, OneInstance,
             RowFollows, Fresh, Executing
    <2> QED
      BY <2>2, <2>4, TurnKept
  <1>8. ASSUME NEW s \in Session, Link(s)
        PROVE  InTurn'
    <2>1. /\ RowState(call[s]) /\ call'[s] = [pc |-> "idle", plan |-> NoPlan, inst |-> NoInstance]
          /\ \A t \in Session : t # s => call'[t] = Idle
      BY <1>8, <1>d DEF Link, End, history
    <2>2. log'.status = log.status /\ log'.inst = call[s].inst /\ log'.type = log.type
      BY <1>a, <1>8 DEF Link, Log
    <2>3. RowState(call[s])'
      BY <1>a, <1>8, <2>1, <2>2
         DEF Link, history, RowState, DoneOnce, StockTold, OneInstance, RowFollows, Fresh, Executing
    <2> QED
      BY <2>1, <2>3, TurnKept
  <1>9. ASSUME NEW s \in Session, Settle(s)
        PROVE  InTurn'
    <2>1. PICK pc \in {"idle", "approve", "reject"} :
            /\ Goto(s, pc, NoInstance)
            /\ LET v == verdict[call[s].inst] IN
               /\ pc = "idle" => log.status \in {"executed", "rejected"} \/ v = "open"
               /\ pc # "idle" => /\ log.status \notin {"executed", "rejected"} /\ v # "open"
                                 /\ v = "approved" <=> pc = "approve"
      BY <1>9 DEF Settle
    <2>2. /\ RowState(call[s]) /\ call'[s] = [pc |-> pc, plan |-> NoPlan, inst |-> NoInstance]
          /\ \A t \in Session : t # s => call'[t] = Idle
      BY <1>9, <1>d, <2>1 DEF Settle, history
    <2>3. /\ call[s].inst \in Instance /\ verdict[call[s].inst] # "none"
          /\ \A i \in Instance : i # call[s].inst => verdict[i] = "none"
      BY <1>9, <2>2 DEF Settle, RowState, OneInstance
    <2>4. verdict[call[s].inst] \in {"open", "approved", "rejected", "cancelled"}
      BY <1>a, <2>3 DEF Verdict, Decision
    <2>5. DoneOnce(call[s])' /\ OneInstance(call[s])'
      BY <1>a, <1>9, <2>1, <2>2, <2>3
         DEF Settle, history, RowState, DoneOnce, OneInstance, Fresh, Executing
    <2>6. RowFollows(call[s])'
      BY <1>a, <1>9, <2>1, <2>2, <2>3, <2>4 DEF Settle, history, RowState, RowFollows, Executing
    <2>7. StockTold(call[s])'
      <3>1. pc = "reject" => verdict[call[s].inst] \in {"rejected", "cancelled"}
        BY <2>1, <2>4
      <3>2. pc = "reject" => taken = 0
        <4>1. call[s].pc = "settle"
          BY <1>9 DEF Settle
        <4>2. pc = "reject" => log.status \in {"pending_approval", "rejected"}
          BY <2>2, <2>3, <3>1 DEF RowState, RowFollows
        <4>3. taken > 0 => log.status \in {"executed", "failed"}
          BY <2>2, <4>1 DEF RowState, StockTold, Executing
        <4> QED
          BY <1>a, <4>2, <4>3
      <3> QED
        BY <1>a, <1>9, <2>1, <2>2, <3>2 DEF Settle, history, RowState, StockTold, Executing
    <2> QED
      BY <2>2, <2>5, <2>6, <2>7, TurnKept DEF RowState
  <1>10. ASSUME NEW s \in Session, SettleReject(s) \/ Approve(s) \/ Record(s) \/ RecordFailure(s)
         PROVE  InTurn'
    <2>1. PICK pc \in {"idle", "execute"} :
            /\ Goto(s, pc, NoInstance) /\ call[s].pc # "idle"
            /\ pc = "execute" <=> call[s].pc = "approve"
            /\ alone' = alone
      BY <1>10 DEF SettleReject, Approve, Record, RecordFailure, End, history
    <2>2. /\ RowState(call[s]) /\ call'[s] = [pc |-> pc, plan |-> NoPlan, inst |-> NoInstance]
          /\ \A t \in Session : t # s => call'[t] = Idle
      BY <1>d, <2>1
    <2>3. /\ log'.inst = log.inst /\ log'.type = log.type
          /\ \/ call[s].pc = "reject" /\ log'.status = "rejected"
             \/ call[s].pc = "approve" /\ log'.status = "approved"
             \/ call[s].pc = "record" /\ log'.status = "executed"
             \/ call[s].pc = "fail" /\ log'.status = "failed"
          /\ done' = done /\ taken' = taken /\ verdict' = verdict
      BY <1>a, <1>10 DEF SettleReject, Approve, Record, RecordFailure, SetStatus, Log, history
    <2>4. DoneOnce(call[s])' /\ StockTold(call[s])' /\ OneInstance(call[s])'
      BY <1>a, <2>1, <2>2, <2>3 DEF RowState, DoneOnce, StockTold, OneInstance, Fresh, Executing
    <2>5. \A i \in Instance : verdict[i] \in {"none", "open", "approved", "rejected", "cancelled"}
      BY <1>a DEF Verdict, Decision
    <2>6. RowFollows(call[s])'
      BY <2>1, <2>2, <2>3, <2>5 DEF RowState, RowFollows, Executing
    <2> QED
      BY <2>2, <2>4, <2>6, TurnKept DEF RowState
  <1>11. ASSUME NEW s \in Session, ExecuteAction(s), call[s].pc \in Executing,
                call[s].pc \notin {"approve", "record", "fail"}
         PROVE  InTurn'
    <2>1. PICK pc \in {"idle", "floor", "perform", "order", "record", "fail"},
               i \in Instance \cup {NoInstance} :
            /\ Goto(s, pc, i) /\ alone' = alone
            /\ pc = "idle" => log.status = "executed"
            /\ done' = IF pc = "record" THEN done + 1 ELSE done
            /\ taken' = IF pc = "order" THEN taken + 1 ELSE taken
            /\ pc = "record" /\ log.type \in Stocked => call[s].pc = "order"
            /\ UNCHANGED <<log, verdict>>
      <3>1. CASE Execute(s)
        BY <1>a, <3>1 DEF Execute, history
      <3>2. CASE Floor(s)
        BY <1>a, <3>2 DEF Floor, history
      <3>3. CASE Perform(s) \/ Order(s)
        BY <1>a, <3>3 DEF Perform, Order
      <3>4. CASE PerformFails(s)
        BY <1>a, <3>4 DEF PerformFails, history
      <3>5. CASE TakeStock(s)
        BY <1>a, <3>5 DEF TakeStock
      <3>6. CASE OrderFails(s)
        BY <1>a, <3>6 DEF OrderFails
      <3> QED
        BY <1>11, <3>1, <3>2, <3>3, <3>4, <3>5, <3>6
           DEF ExecuteAction, Approve, Record, RecordFailure
    <2>2. /\ RowState(call[s]) /\ call'[s] = [pc |-> pc, plan |-> NoPlan, inst |-> i]
          /\ \A t \in Session : t # s => call'[t] = Idle
      BY <1>11, <1>d, <2>1 DEF Executing
    <2>3. pc # "idle" /\ log.status # "executed" /\ done = 0
      BY <1>a, <1>11, <2>1, <2>2 DEF RowState, DoneOnce, Executing
    <2>4. DoneOnce(call[s])' /\ OneInstance(call[s])'
      BY <1>a, <1>11, <2>1, <2>2, <2>3 DEF RowState, DoneOnce, OneInstance, Fresh, Executing
    <2>5. StockTold(call[s])'
      BY <1>a, <1>11, <2>1, <2>2, <2>3 DEF RowState, StockTold, Executing
    <2>6. RowFollows(call[s])'
      BY <1>11, <2>1, <2>2, <2>3 DEF RowState, RowFollows, Executing
    <2> QED
      BY <2>2, <2>4, <2>5, <2>6, TurnKept DEF RowState
  <1>12. ASSUME NEW r \in Rule, SaveRule(r)
         PROVE  InTurn'
    BY <1>12 DEF SaveRule, history, InTurn, RowState, DoneOnce, StockTold, OneInstance,
       RowFollows, Fresh
  <1>13. CASE UNCHANGED vars
    <2>1. UNCHANGED <<log, done, taken, alone, verdict, call>>
      BY <1>13 DEF vars, history
    <2>2. RowState(Idle)' <=> RowState(Idle)
      BY <2>1 DEF RowState, DoneOnce, StockTold, OneInstance, RowFollows, Fresh
    <2>3. \A s \in Session : RowState(call[s])' <=> RowState(call[s])
      BY <2>1 DEF RowState, DoneOnce, StockTold, OneInstance, RowFollows, Fresh
    <2> QED
      BY <2>1, <2>2, <2>3 DEF InTurn
  <1>14. ASSUME NEW s \in Session, Stop(s) \/ WriteLost(s)
         PROVE  FALSE
    BY <1>14 DEF Stop, WriteLost
  <1>15. ASSUME NEW s \in Session, ExecuteAction(s)
         PROVE  InTurn'
    BY <1>10, <1>11, <1>15
       DEF ExecuteAction, Approve, Execute, Floor, Perform, PerformFails, TakeStock, Order,
           OrderFails, Record, RecordFailure, Executing
  <1> QED
    BY <1>1, <1>2, <1>3, <1>4, <1>5, <1>6, <1>7, <1>8, <1>9, <1>10, <1>12, <1>13, <1>14, <1>15
       DEF Next, Start, Continue, Evaluate

(* Both invariants together.                                                  *)
LEMMA TurnAlways == Spec => [](EventInvariant /\ InTurn)
  <1>1. Init => EventInvariant /\ InTurn
    BY EventInit, TurnInit
  <1>2. EventInvariant /\ InTurn /\ [Next]_vars => (EventInvariant /\ InTurn)'
    BY EventStep, TurnStep
  <1> QED
    BY <1>1, <1>2, PTL DEF Spec

(* Between calls that neither overlap nor stop nor lose a write, the row an   *)
(* operator reads is what happened, stock included.                           *)
THEOREM RowTellsTheTruth == Spec => []RowIsTrueAlone
  <1>1. EventInvariant /\ InTurn => RowIsTrueAlone
    <2> SUFFICES ASSUME EventInvariant, InTurn, alone, \A s \in Session : call[s] = Idle
                 PROVE  /\ log.status = "executed" <=> done = 1
                        /\ log.status = "executed" /\ log.type \in Stocked => taken > 0
                        /\ taken > 0 => log.status \in {"executed", "failed"}
                        /\ \A i \in Instance :
                             /\ verdict[i] = "approved" => log.status \in {"executed", "failed"}
                             /\ verdict[i] = "rejected" => log.status = "rejected"
      BY DEF RowIsTrueAlone
    <2>1. RowState(Idle)
      BY DEF InTurn
    <2> QED
      BY <2>1 DEF RowState, DoneOnce, StockTold, RowFollows, Idle, Executing
  <1> QED
    BY TurnAlways, <1>1, PTL
==============================================================================
