--------------------------- MODULE PoApprovalProofs ---------------------------
(* Whatever the number of sessions, instances and interleavings, a settlement *)
(* never mirrors an outcome that is not the bound instance's; and as long as  *)
(* calls do not overlap, whichever of them stop, the order says what its      *)
(* instance decided and no one bypasses the engine.                           *)
EXTENDS PoApproval, FiniteSetTheorems, TLAPS

(* A settlement knows the instance that was decided.                          *)
SettlesInstance == \A s \in Session : call[s].pc = "settle" => call[s].inst \in Instance

PoInvariant == TypeOK /\ SettlesInstance /\ SettledByItsVerdict

(* Initially nothing was decided or settled.                                  *)
LEMMA PoInit == Init => PoInvariant
  BY PoAssumption DEF Init, VerdictInit, PoInvariant, TypeOK, SettlesInstance,
     SettledByItsVerdict, Idle, Call, PoStatus, Verdict, Decision

(* A call that only moves on leaves the order, its link and the engine alone. *)
LEMMA CallMoves ==
  ASSUME PoInvariant, UNCHANGED <<po, link, via, verdict>>,
         serial' \in BOOLEAN, owed' \subseteq Instance,
         NEW s \in Session, NEW c \in Call, call' = [call EXCEPT ![s] = c],
         c.pc = "settle" => c.inst \in Instance
  PROVE  PoInvariant'
  BY DEF PoInvariant, TypeOK, SettlesInstance, SettledByItsVerdict

(* A call that ends, whatever it wrote, leaves no settlement behind.          *)
LEMMA CallEnds ==
  ASSUME PoInvariant, NEW s \in Session, End(s)
  PROVE  (call \in [Session -> Call])' /\ SettlesInstance' /\ serial' \in BOOLEAN
  <1>1. Idle \in Call
    BY DEF Idle, Call, PoStatus
  <1>2. Idle.pc # "settle"
    BY DEF Idle
  <1> QED
    BY <1>1, <1>2 DEF End, PoInvariant, TypeOK, SettlesInstance

(* A decision closes an instance that was open, hence not one an order was    *)
(* settled by.                                                                *)
LEMMA DecisionKeepsSettled ==
  ASSUME PoInvariant, NEW i \in Instance, NEW d \in Decision, Decided(i, d),
         UNCHANGED <<po, link, via>>
  PROVE  (verdict \in [Instance -> Verdict])' /\ SettledByItsVerdict'
  <1>1. verdict \in [Instance -> Verdict]
    BY DEF PoInvariant, TypeOK
  <1>2. verdict' \in [Instance -> Verdict]
    BY <1>1 DEF Decided, Verdict
  <1>3. \A j \in Instance : verdict[j] # "open" => verdict'[j] = verdict[j]
    BY <1>1 DEF Decided
  <1> QED
    BY <1>2, <1>3 DEF PoInvariant, SettledByItsVerdict

(* A write that is not the engine's settlement keeps the invariant.           *)
LEMMA OwnWrite ==
  ASSUME PoInvariant, NEW s \in Session, End(s), UNCHANGED verdict,
         NEW new \in PoStatus, NEW by \in {"none", "auto", "manual"},
         WritePo(s, new, by),
         link' \in Instance \cup {NoInstance}, owed' = owed,
         s \notin PoWriter => link' = link
  PROVE  PoInvariant'
  <1>1. (call \in [Session -> Call])' /\ SettlesInstance' /\ serial' \in BOOLEAN
    BY CallEnds
  <1>2. CASE s \in PoWriter
    BY <1>1, <1>2 DEF WritePo, PoInvariant, TypeOK, SettledByItsVerdict
  <1>3. CASE s \notin PoWriter
    BY <1>1, <1>3 DEF WritePo, PoInvariant, TypeOK, SettledByItsVerdict
  <1> QED
    BY <1>2, <1>3

(* Every step of every call keeps the invariant.                              *)
LEMMA PoStep == PoInvariant /\ [Next]_vars => PoInvariant'
  <1> SUFFICES ASSUME PoInvariant, [Next]_vars
               PROVE  PoInvariant'
    OBVIOUS
  <1> USE PoAssumption
  <1>a. /\ po \in PoStatus /\ link \in Instance \cup {NoInstance}
        /\ call \in [Session -> Call] /\ verdict \in [Instance -> Verdict]
        /\ via \in {"none", "auto", "manual", "engine"} /\ serial \in BOOLEAN
        /\ owed \subseteq Instance
    BY DEF PoInvariant, TypeOK
  <1>b. Idle \in Call /\ Idle.pc # "settle"
    BY DEF Idle, Call, PoStatus
  <1>c. ASSUME NEW s \in Session, End(s), UNCHANGED <<po, link, via, verdict>>,
               owed' \subseteq Instance
        PROVE  PoInvariant'
    BY <1>a, <1>b, <1>c, CallMoves DEF End
  <1>d. ASSUME NEW s \in Session, NEW pc, NEW i, NEW to,
               Goto(s, pc, i, to) \/ Begin(s, pc, i, to),
               pc \in {"submit", "open", "link", "manual", "checked", "issue"},
               i \in Instance \cup {NoInstance}, to \in PoStatus,
               UNCHANGED <<po, link, via, verdict, owed>>
        PROVE  PoInvariant'
    <2>1. [pc |-> pc, inst |-> i, to |-> to] \in Call
      BY <1>d DEF Call
    <2> QED
      BY <1>a, <1>d, <2>1, CallMoves DEF Goto, Begin
  <1>1. ASSUME NEW s \in Session, Submit(s)
        PROVE  PoInvariant'
    <2>1. CASE SubmitRead(s) \/ SubmitUnruled(s) \/ SubmitMiss(s)
      BY <2>1, <1>d DEF SubmitRead, SubmitUnruled, SubmitMiss, Goto, PoStatus
    <2>2. CASE SubmitReuse(s)
      <3>1. PICK i \in Open : Goto(s, "link", i, "pending_approval")
        BY <2>2 DEF SubmitReuse
      <3> QED
        BY <2>2, <3>1, <1>d DEF SubmitReuse, Goto, Open, PoStatus
    <2>3. CASE SubmitOpen(s)
      <3>1. PICK i \in Instance : Opened(i) /\ Goto(s, "link", i, "pending_approval")
        BY <2>3 DEF SubmitOpen
      <3>2. [pc |-> "link", inst |-> i, to |-> "pending_approval"] \in Call
        BY DEF Call, PoStatus
      <3>3. (call \in [Session -> Call])' /\ SettlesInstance'
        BY <1>a, <3>1, <3>2 DEF Goto, PoInvariant, SettlesInstance
      <3>4. verdict' \in [Instance -> Verdict]
        BY <1>a, <3>1 DEF Opened, Verdict
      <3>5. \A j \in Instance : verdict[j] # "none" => verdict'[j] = verdict[j]
        BY <1>a, <3>1 DEF Opened
      <3>6. SettledByItsVerdict'
        BY <2>3, <3>5 DEF SubmitOpen, PoInvariant, SettledByItsVerdict
      <3> QED
        BY <1>a, <2>3, <3>1, <3>3, <3>4, <3>6 DEF SubmitOpen, Goto, PoInvariant, TypeOK
    <2>4. CASE SubmitAuto(s)
      BY <1>a, <2>4, OwnWrite DEF SubmitAuto, PoStatus
    <2>5. CASE Link(s)
      <3>1. call[s].inst \in Instance \cup {NoInstance}
        BY <1>a DEF Call
      <3> QED
        BY <1>a, <2>5, <3>1, OwnWrite DEF Link, PoStatus
    <2> QED
      BY <1>1, <2>1, <2>2, <2>3, <2>4, <2>5 DEF Submit
  <1>2. ASSUME NEW s \in Session, DecideCall(s)
        PROVE  PoInvariant'
    <2>1. ASSUME NEW i \in Instance, NEW d \in {"approved", "rejected"}, Decide(s, i, d)
          PROVE  PoInvariant'
      <3>1. (verdict \in [Instance -> Verdict])' /\ SettledByItsVerdict'
        BY <2>1, DecisionKeepsSettled DEF Decide, Decision
      <3>2. [pc |-> "settle", inst |-> i, to |-> "draft"] \in Call
        BY DEF Call, PoStatus
      <3>3. (call \in [Session -> Call])' /\ SettlesInstance'
        BY <1>a, <2>1, <3>2 DEF Decide, Begin, PoInvariant, SettlesInstance
      <3> QED
        BY <1>a, <2>1, <3>1, <3>3 DEF Decide, Begin, PoInvariant, TypeOK
    <2>2. ASSUME NEW i \in Instance, DecideOther(s, i)
          PROVE  PoInvariant'
      <3>1. [pc |-> "settle", inst |-> i, to |-> "draft"] \in Call
        BY DEF Call, PoStatus
      <3> QED
        BY <1>a, <2>2, <3>1, CallMoves DEF DecideOther, Begin
    <2>3. CASE SettleNothing(s)
      BY <1>a, <2>3, <1>c DEF SettleNothing
    <2>4. CASE Settle(s)
      <3>1. link \in Instance
        BY <2>4 DEF Settle, PoInvariant, SettlesInstance
      <3>2. PICK new \in PoStatusFor(verdict[link]) : WritePo(s, new, "engine")
        BY <2>4 DEF Settle
      <3>3. \/ verdict[link] = "approved" /\ new = "approved"
            \/ verdict[link] = "rejected" /\ new = "draft"
        BY DEF PoStatusFor
      <3>4. (call \in [Session -> Call])' /\ SettlesInstance' /\ serial' \in BOOLEAN
        BY <2>4, CallEnds DEF Settle
      <3>5. CASE s \in PoWriter
        BY <1>a, <2>4, <3>1, <3>2, <3>3, <3>4, <3>5
           DEF Settle, WritePo, PoStatus, PoInvariant, TypeOK, SettledByItsVerdict
      <3>6. CASE s \notin PoWriter
        BY <1>a, <2>4, <3>2, <3>4, <3>6
           DEF Settle, WritePo, PoInvariant, TypeOK, SettledByItsVerdict
      <3> QED
        BY <3>5, <3>6
    <2> QED
      BY <1>2, <2>1, <2>2, <2>3, <2>4 DEF DecideCall
  <1>3. ASSUME NEW s \in Session, Manual(s)
        PROVE  PoInvariant'
    <2>a. call[s].to \in PoStatus
      BY <1>a DEF Call
    <2>1. ASSUME NEW to \in {"approved", "draft"}, ManualRead(s, to)
          PROVE  PoInvariant'
      BY <2>1, <1>d DEF ManualRead, PoStatus
    <2>2. CASE ManualCheck(s)
      BY <2>2, <2>a, <1>d DEF ManualCheck, Goto
    <2>3. CASE ManualRefused(s)
      BY <1>a, <2>3, <1>c DEF ManualRefused
    <2>4. CASE ManualWrite(s)
      BY <1>a, <2>4, <2>a, OwnWrite DEF ManualWrite
    <2> QED
      BY <1>3, <2>1, <2>2, <2>3, <2>4 DEF Manual
  <1>4. ASSUME NEW s \in Session, IssueRead(s)
        PROVE  PoInvariant'
    BY <1>4, <1>d DEF IssueRead, PoStatus
  <1>5. ASSUME NEW s \in Session, IssueWrite(s)
        PROVE  PoInvariant'
    <2>1. (call \in [Session -> Call])' /\ SettlesInstance' /\ serial' \in BOOLEAN
      BY <1>5, CallEnds DEF IssueWrite
    <2>2. CASE s \in PoWriter
      BY <1>a, <1>5, <2>1, <2>2
         DEF IssueWrite, WritePo, PoStatus, PoInvariant, TypeOK, SettledByItsVerdict
    <2>3. CASE s \notin PoWriter
      BY <1>a, <1>5, <2>1, <2>3
         DEF IssueWrite, WritePo, PoInvariant, TypeOK, SettledByItsVerdict
    <2> QED
      BY <2>2, <2>3
  <1>6. ASSUME NEW i \in Instance, Cancel(i)
        PROVE  PoInvariant'
    <2>1. (verdict \in [Instance -> Verdict])' /\ SettledByItsVerdict'
      BY <1>6, DecisionKeepsSettled DEF Cancel, Decision
    <2> QED
      BY <1>a, <1>6, <2>1 DEF Cancel, PoInvariant, TypeOK, SettlesInstance
  <1>7. ASSUME NEW s \in Session, Stop(s)
        PROVE  PoInvariant'
    BY <1>a, <1>7, <1>c DEF Stop
  <1>8. CASE UNCHANGED vars
    BY <1>8 DEF vars, PoInvariant, TypeOK, SettlesInstance, SettledByItsVerdict
  <1> QED
    BY <1>1, <1>2, <1>3, <1>4, <1>5, <1>6, <1>7, <1>8 DEF Next

(* settlePoAfterDecision: an order the engine wrote as approved, or sent back *)
(* to draft, is bound to an instance with that verdict.                       *)
THEOREM SettlementMirrorsVerdict == Spec => []SettledByItsVerdict
  <1>1. PoInvariant => SettledByItsVerdict
    BY DEF PoInvariant
  <1> QED
    BY PoInit, PoStep, <1>1, PTL DEF Spec
------------------------------------------------------------------------------
(* What keeps calls that do not overlap in order: at most one is under way,   *)
(* an order being issued is still approved, at most one instance is open and  *)
(* none when one is about to be inserted or has just been looked for in vain. *)
InTurn ==
  serial =>
    /\ \A s, t \in Session : s # t => call[s] = Idle \/ call[t] = Idle
    /\ \A i, j \in Open : i = j
    /\ \A s \in Session :
         /\ call[s].pc = "issue" => po = "approved"
         /\ call[s].pc \in {"open", "checked"} => Open = {}

(* A manual call carries approvePo's or rejectPo's status, never "issued".    *)
ManualKnows ==
  \A s \in Session : call[s].pc \in {"manual", "checked"} => call[s].to \in {"approved", "draft"}

TurnInvariant == TypeOK /\ InTurn /\ ManualKnows

(* Initially no call is under way and no instance exists.                     *)
LEMMA TurnInit == Init => InTurn /\ ManualKnows
  BY DEF Init, VerdictInit, InTurn, ManualKnows, Idle, Open

(* A set of instances without two members that is not a singleton is empty.   *)
LEMMA NoSingleton ==
  ASSUME NEW S, \A i, j \in S : i = j, Cardinality(S) # 1
  PROVE  S = {}
  <1> SUFFICES ASSUME NEW i \in S PROVE FALSE
    OBVIOUS
  <1>1. S = {i}
    OBVIOUS
  <1> QED
    BY <1>1, FS_Singleton

(* A call that begins while another is under way overlaps it.                 *)
LEMMA TurnBegins ==
  ASSUME TurnInvariant, NEW s \in Session, NEW pc, NEW i, NEW to, Begin(s, pc, i, to),
         Open' \subseteq Open, po' = po, pc \notin {"open", "checked"},
         pc = "issue" => po = "approved",
         pc = "manual" => to \in {"approved", "draft"}
  PROVE  InTurn' /\ ManualKnows'
  <1> USE DEF TurnInvariant, TypeOK
  <1>1. /\ call'[s] = [pc |-> pc, inst |-> i, to |-> to]
        /\ \A t \in Session : t # s => call'[t] = call[t]
    BY DEF Begin
  <1>2. ManualKnows'
    BY <1>1 DEF ManualKnows
  <1>3. ASSUME serial' PROVE InTurn'
    <2>1. serial /\ \A t \in Session : call[t] = Idle
      BY <1>3 DEF Begin
    <2> QED
      BY <1>1, <2>1 DEF InTurn, Idle
  <1> QED
    BY <1>2, <1>3 DEF InTurn

(* A call under way that moves on, keeping or closing instances.              *)
LEMMA TurnMoves ==
  ASSUME TurnInvariant, NEW s \in Session, call[s] # Idle,
         NEW pc, NEW i, NEW to, Goto(s, pc, i, to),
         Open' \subseteq Open, po' = po, pc # "issue",
         serial /\ pc \in {"open", "checked"} => Open = {},
         pc = "checked" => to \in {"approved", "draft"}, pc # "manual"
  PROVE  InTurn' /\ ManualKnows'
  <1> USE DEF TurnInvariant, TypeOK
  <1>1. /\ call'[s] = [pc |-> pc, inst |-> i, to |-> to] /\ serial' = serial
        /\ \A t \in Session : t # s => call'[t] = call[t]
    BY DEF Goto
  <1>2. ManualKnows'
    BY <1>1 DEF ManualKnows
  <1>3. ASSUME serial' PROVE InTurn'
    <2>1. serial /\ \A t \in Session : t # s => call[t] = Idle
      BY <1>1, <1>3 DEF InTurn
    <2> QED
      BY <1>1, <2>1 DEF InTurn, Idle
  <1> QED
    BY <1>2, <1>3 DEF InTurn

(* A call that ends leaves none under way, whatever it wrote.                 *)
LEMMA TurnEnds ==
  ASSUME TurnInvariant, NEW s \in Session, call[s] # Idle, End(s), verdict' = verdict
  PROVE  InTurn' /\ ManualKnows'
  <1> USE DEF TurnInvariant, TypeOK
  <1>1. /\ call'[s] = Idle /\ serial' = serial
        /\ \A t \in Session : t # s => call'[t] = call[t]
    BY DEF End
  <1>2. ManualKnows'
    BY <1>1 DEF ManualKnows, Idle
  <1>3. ASSUME serial' PROVE InTurn'
    <2>1. serial /\ \A t \in Session : t # s => call[t] = Idle
      BY <1>1, <1>3 DEF InTurn
    <2>2. Open' = Open
      BY DEF Open
    <2> QED
      BY <1>1, <2>1, <2>2 DEF InTurn, Idle
  <1> QED
    BY <1>2, <1>3 DEF InTurn

(* Every step keeps the calls in turn.                                        *)
LEMMA TurnStep == PoInvariant /\ TurnInvariant /\ [Next]_vars => InTurn' /\ ManualKnows'
  <1> SUFFICES ASSUME PoInvariant, TurnInvariant, [Next]_vars
               PROVE  InTurn' /\ ManualKnows'
    OBVIOUS
  <1> USE PoAssumption
  <1>a. verdict \in [Instance -> Verdict] /\ call \in [Session -> Call]
    BY DEF TurnInvariant, TypeOK
  <1>b. \A s \in Session : call[s].pc # "idle" => call[s] # Idle
    BY DEF Idle
  <1>c. verdict' = verdict => Open' = Open
    BY DEF Open
  <1>1. ASSUME NEW s \in Session, Submit(s)
        PROVE  InTurn' /\ ManualKnows'
    <2>1. CASE SubmitRead(s)
      BY <1>c, <2>1, TurnBegins DEF SubmitRead
    <2>2. CASE SubmitUnruled(s)
      BY <1>b, <1>c, <2>2, TurnMoves DEF SubmitUnruled
    <2>3. CASE SubmitReuse(s)
      <3>1. PICK i \in Open : Goto(s, "link", i, "pending_approval")
        BY <2>3 DEF SubmitReuse
      <3> QED
        BY <1>b, <1>c, <2>3, <3>1, TurnMoves DEF SubmitReuse
    <2>4. CASE SubmitMiss(s)
      BY <1>b, <1>c, <2>4, TurnMoves DEF SubmitMiss
    <2>5. CASE SubmitOpen(s)
      <3>1. PICK i \in Instance : Opened(i) /\ Goto(s, "link", i, "pending_approval")
        BY <2>5 DEF SubmitOpen
      <3>2. /\ call'[s].pc = "link" /\ serial' = serial /\ po' = po
            /\ \A t \in Session : t # s => call'[t] = call[t]
        BY <1>a, <2>5, <3>1 DEF Goto, SubmitOpen
      <3>3. ManualKnows'
        BY <3>2 DEF TurnInvariant, ManualKnows
      <3>4. Open' = Open \cup {i}
        BY <1>a, <3>1 DEF Open, Opened
      <3>5. ASSUME serial' PROVE InTurn'
        <4>1. Open = {}
          BY <2>5, <3>2, <3>5 DEF SubmitOpen, TurnInvariant, InTurn
        <4>2. \A t \in Session : t # s => call[t] = Idle
          BY <1>b, <2>5, <3>2, <3>5 DEF SubmitOpen, TurnInvariant, InTurn
        <4> QED
          BY <3>2, <3>4, <4>1, <4>2 DEF InTurn, Idle
      <3> QED
        BY <3>3, <3>5 DEF InTurn
    <2>6. CASE SubmitAuto(s)
      BY <1>b, <2>6, TurnEnds DEF SubmitAuto
    <2>7. CASE Link(s)
      BY <1>b, <2>7, TurnEnds DEF Link
    <2> QED
      BY <1>1, <2>1, <2>2, <2>3, <2>4, <2>5, <2>6, <2>7 DEF Submit
  <1>2. ASSUME NEW s \in Session, DecideCall(s)
        PROVE  InTurn' /\ ManualKnows'
    <2>1. ASSUME NEW i \in Instance, NEW d \in {"approved", "rejected"}, Decide(s, i, d)
          PROVE  InTurn' /\ ManualKnows'
      <3>1. Open' \subseteq Open
        BY <1>a, <2>1 DEF Decide, Decided, Open
      <3> QED
        BY <2>1, <3>1, TurnBegins DEF Decide
    <2>2. ASSUME NEW i \in Instance, DecideOther(s, i)
          PROVE  InTurn' /\ ManualKnows'
      BY <1>c, <2>2, TurnBegins DEF DecideOther
    <2>3. CASE Settle(s)
      BY <1>b, <2>3, TurnEnds DEF Settle
    <2>4. CASE SettleNothing(s)
      BY <1>b, <2>4, TurnEnds DEF SettleNothing
    <2> QED
      BY <1>2, <2>1, <2>2, <2>3, <2>4 DEF DecideCall
  <1>3. ASSUME NEW s \in Session, Manual(s)
        PROVE  InTurn' /\ ManualKnows'
    <2>1. ASSUME NEW to \in {"approved", "draft"}, ManualRead(s, to)
          PROVE  InTurn' /\ ManualKnows'
      BY <1>c, <2>1, TurnBegins DEF ManualRead
    <2>2. CASE ManualCheck(s)
      <3>1. serial => Open = {}
        BY <2>2, NoSingleton DEF ManualCheck, TurnInvariant, InTurn
      <3>2. call[s].to \in {"approved", "draft"}
        BY <2>2 DEF ManualCheck, TurnInvariant, ManualKnows
      <3> QED
        BY <1>b, <1>c, <2>2, <3>1, <3>2, TurnMoves DEF ManualCheck
    <2>3. CASE ManualRefused(s)
      BY <1>b, <2>3, TurnEnds DEF ManualRefused
    <2>4. CASE ManualWrite(s)
      BY <1>b, <2>4, TurnEnds DEF ManualWrite
    <2> QED
      BY <1>3, <2>1, <2>2, <2>3, <2>4 DEF Manual
  <1>4. ASSUME NEW s \in Session, IssueRead(s)
        PROVE  InTurn' /\ ManualKnows'
    BY <1>c, <1>4, TurnBegins DEF IssueRead
  <1>5. ASSUME NEW s \in Session, IssueWrite(s)
        PROVE  InTurn' /\ ManualKnows'
    BY <1>b, <1>5, TurnEnds DEF IssueWrite
  <1>6. ASSUME NEW i \in Instance, Cancel(i)
        PROVE  InTurn' /\ ManualKnows'
    <2>1. Open' \subseteq Open
      BY <1>a, <1>6 DEF Cancel, Decided, Open
    <2> QED
      BY <1>6, <2>1 DEF Cancel, TurnInvariant, InTurn, ManualKnows
  <1>7. ASSUME NEW s \in Session, Stop(s)
        PROVE  InTurn' /\ ManualKnows'
    BY <1>7, TurnEnds DEF Stop
  <1>8. CASE UNCHANGED vars
    BY <1>8 DEF vars, TurnInvariant, InTurn, ManualKnows, Open
  <1> QED
    BY <1>1, <1>2, <1>3, <1>4, <1>5, <1>6, <1>7, <1>8 DEF Next

(* Both invariants together.                                                  *)
LEMMA TurnAlways == Spec => [](PoInvariant /\ TurnInvariant)
  <1>1. Init => PoInvariant /\ TurnInvariant
    BY PoInit, TurnInit DEF PoInvariant, TurnInvariant
  <1>2. PoInvariant /\ TurnInvariant /\ [Next]_vars => (PoInvariant /\ TurnInvariant)'
    BY PoStep, TurnStep DEF PoInvariant, TurnInvariant
  <1> QED
    BY <1>1, <1>2, PTL DEF Spec

------------------------------------------------------------------------------
(* The order says what its instance decided, unless that is still owed.       *)
Mirrored ==
  link \in Instance \ owed =>
    /\ verdict[link] = "approved" => po \in {"approved", "issued"}
    /\ verdict[link] = "rejected" => po = "draft" \/ via = "auto"

(* Only the threshold's approval is "auto".                                   *)
AutoApproves == via = "auto" => po \in {"approved", "issued"}

(* As long as calls did not overlap: the order is in step with its instance,  *)
(* which exists; an order is about to be bound to an undecided instance at    *)
(* most; and a manual call has the pending order it read.                     *)
InStep ==
  serial =>
    /\ Mirrored
    /\ link \in Instance => verdict[link] # "none"
    /\ \A s \in Session :
         /\ call[s].pc = "link" /\ call[s].inst \in Instance =>
              verdict[call[s].inst] \in {"open", "cancelled"}
         /\ call[s].pc \in {"manual", "checked"} => po = "pending_approval"

MirrorInvariant == AutoApproves /\ InStep

(* Initially nothing is bound, approved or under way.                         *)
LEMMA MirrorInit == Init => MirrorInvariant
  BY PoAssumption DEF Init, VerdictInit, MirrorInvariant, AutoApproves, InStep, Mirrored, Idle

(* A call that begins finds the order in step, and owes what it decides.      *)
LEMMA MirrorBegins ==
  ASSUME TurnInvariant, MirrorInvariant, UNCHANGED <<po, link, via>>, owed \subseteq owed',
         NEW s \in Session, NEW pc, NEW i, NEW to, Begin(s, pc, i, to),
         \A j \in Instance : verdict'[j] # verdict[j] => j \in owed' /\ verdict'[j] # "none",
         pc \notin {"link", "checked"}, pc = "manual" => po = "pending_approval"
  PROVE  MirrorInvariant'
  <1> USE DEF TurnInvariant, TypeOK
  <1>1. /\ call'[s] = [pc |-> pc, inst |-> i, to |-> to]
        /\ \A t \in Session : t # s => call'[t] = call[t]
    BY DEF Begin
  <1>2. ASSUME serial' PROVE InStep'
    <2>1. serial /\ \A t \in Session : call[t] = Idle
      BY <1>2 DEF Begin
    <2>2. Mirrored /\ (link \in Instance => verdict[link] # "none")
      BY <2>1 DEF MirrorInvariant, InStep
    <2>3. Mirrored' /\ (link' \in Instance => verdict'[link'] # "none")
      BY <2>2 DEF Mirrored
    <2> QED
      BY <1>1, <2>1, <2>3 DEF InStep, Idle
  <1> QED
    BY <1>2 DEF MirrorInvariant, AutoApproves, InStep

(* A call that moves on, and opens an instance at most, leaves the order in   *)
(* step.                                                                      *)
LEMMA MirrorMoves ==
  ASSUME TurnInvariant, MirrorInvariant, UNCHANGED <<po, link, via>>,
         NEW s \in Session, call[s] # Idle,
         NEW pc, NEW i, NEW to, Goto(s, pc, i, to), pc # "manual",
         \A j \in Instance : verdict'[j] # verdict[j] => verdict'[j] = "open",
         pc = "link" /\ i \in Instance => verdict'[i] = "open",
         pc = "checked" => call[s].pc = "manual"
  PROVE  MirrorInvariant'
  <1> USE DEF TurnInvariant, TypeOK
  <1>1. /\ call'[s] = [pc |-> pc, inst |-> i, to |-> to] /\ serial' = serial /\ owed' = owed
        /\ \A t \in Session : t # s => call'[t] = call[t]
    BY DEF Goto
  <1>2. ASSUME serial' PROVE InStep'
    <2>1. serial /\ \A t \in Session : t # s => call[t] = Idle
      BY <1>1, <1>2 DEF InTurn
    <2>2. Mirrored /\ (link \in Instance => verdict[link] # "none")
      BY <2>1 DEF MirrorInvariant, InStep
    <2>3. Mirrored' /\ (link' \in Instance => verdict'[link'] # "none")
      BY <1>1, <2>2 DEF Mirrored
    <2>4. pc = "checked" => po = "pending_approval"
      BY <2>1 DEF MirrorInvariant, InStep
    <2> QED
      BY <1>1, <2>1, <2>3, <2>4 DEF InStep, Idle
  <1> QED
    BY <1>2 DEF MirrorInvariant, AutoApproves, InStep

(* A call that ends has to leave the order in step.                           *)
LEMMA MirrorEnds ==
  ASSUME TurnInvariant, NEW s \in Session, call[s] # Idle, End(s), AutoApproves',
         serial => Mirrored' /\ (link' \in Instance => verdict'[link'] # "none")
  PROVE  MirrorInvariant'
  <1> USE DEF TurnInvariant, TypeOK
  <1>1. serial' = serial
    BY DEF End
  <1>2. ASSUME serial' PROVE \A t \in Session : call'[t] = Idle
    BY <1>2 DEF End, InTurn
  <1> QED
    BY <1>1, <1>2 DEF MirrorInvariant, InStep, Idle

(* A call that ends without having written anything, but for a settlement     *)
(* that had nothing to settle, leaves the order in step.                      *)
LEMMA MirrorQuiet ==
  ASSUME TurnInvariant, MirrorInvariant, NEW s \in Session, call[s] # Idle, End(s),
         UNCHANGED <<po, link, via, verdict>>,
         link \in Instance /\ link \notin owed' =>
           link \notin owed \/ verdict[link] \notin {"approved", "rejected"}
  PROVE  MirrorInvariant'
  <1>1. AutoApproves'
    BY DEF MirrorInvariant, AutoApproves
  <1>2. serial => Mirrored' /\ (link' \in Instance => verdict'[link'] # "none")
    BY DEF MirrorInvariant, InStep, Mirrored
  <1> QED
    BY <1>1, <1>2, MirrorEnds

(* Every step keeps the order in step.                                        *)
LEMMA MirrorStep ==
  ASSUME PoInvariant, TurnInvariant, MirrorInvariant, [Next]_vars
  PROVE  MirrorInvariant'
  <1> USE PoAssumption
  <1>a. /\ verdict \in [Instance -> Verdict] /\ call \in [Session -> Call]
        /\ link \in Instance \cup {NoInstance} /\ AutoApproves
        /\ serial => Mirrored /\ (link \in Instance => verdict[link] # "none")
    BY DEF TurnInvariant, TypeOK, MirrorInvariant, InStep
  <1>b. \A s \in Session : call[s].pc # "idle" => call[s] # Idle
    BY DEF Idle
  <1>c. ASSUME NEW s \in Session, call[s] # Idle, End(s), UNCHANGED <<po, link, via, verdict, owed>>
        PROVE  MirrorInvariant'
    BY <1>c, MirrorQuiet
  <1>1. ASSUME NEW s \in Session, Submit(s)
        PROVE  MirrorInvariant'
    <2>1. CASE SubmitRead(s)
      BY <2>1, MirrorBegins DEF SubmitRead
    <2>2. CASE SubmitUnruled(s)
      BY <1>b, <2>2, MirrorMoves DEF SubmitUnruled
    <2>3. CASE SubmitReuse(s)
      <3>1. PICK i \in Open : Goto(s, "link", i, "pending_approval")
        BY <2>3 DEF SubmitReuse
      <3> QED
        BY <1>b, <2>3, <3>1, MirrorMoves DEF SubmitReuse, Open
    <2>4. CASE SubmitMiss(s)
      BY <1>b, <2>4, MirrorMoves DEF SubmitMiss
    <2>5. CASE SubmitOpen(s)
      <3>1. PICK i \in Instance : Opened(i) /\ Goto(s, "link", i, "pending_approval")
        BY <2>5 DEF SubmitOpen
      <3>2. verdict'[i] = "open" /\ \A j \in Instance : j # i => verdict'[j] = verdict[j]
        BY <1>a, <3>1 DEF Opened
      <3> QED
        BY <1>b, <2>5, <3>1, <3>2, MirrorMoves DEF SubmitOpen
    <2>6. CASE SubmitAuto(s)
      <3>1. CASE s \in PoWriter
        <4>1. AutoApproves' /\ Mirrored'
          BY <2>6, <3>1 DEF SubmitAuto, WritePo, AutoApproves, Mirrored
        <4> QED
          BY <1>a, <1>b, <2>6, <4>1, MirrorEnds DEF SubmitAuto
      <3>2. CASE s \notin PoWriter
        BY <1>b, <1>c, <2>6, <3>2 DEF SubmitAuto, WritePo
      <3> QED
        BY <3>1, <3>2
    <2>7. CASE Link(s)
      <3>1. CASE s \in PoWriter
        <4>1. po' = "pending_approval" /\ via' = "none" /\ link' = call[s].inst
          BY <2>7, <3>1 DEF Link, WritePo
        <4>2. ASSUME serial, link' \in Instance PROVE verdict'[link'] \in {"open", "cancelled"}
          BY <2>7, <4>1, <4>2 DEF Link, MirrorInvariant, InStep
        <4>3. AutoApproves'
          BY <4>1 DEF AutoApproves
        <4>4. serial => Mirrored' /\ (link' \in Instance => verdict'[link'] # "none")
          BY <4>2 DEF Mirrored
        <4> QED
          BY <1>b, <2>7, <4>3, <4>4, MirrorEnds DEF Link
      <3>2. CASE s \notin PoWriter
        BY <1>b, <1>c, <2>7, <3>2 DEF Link, WritePo
      <3> QED
        BY <3>1, <3>2
    <2> QED
      BY <1>1, <2>1, <2>2, <2>3, <2>4, <2>5, <2>6, <2>7 DEF Submit
  <1>2. ASSUME NEW s \in Session, DecideCall(s)
        PROVE  MirrorInvariant'
    <2>1. ASSUME NEW i \in Instance, NEW d \in {"approved", "rejected"}, Decide(s, i, d)
          PROVE  MirrorInvariant'
      <3>1. /\ verdict'[i] = d /\ \A j \in Instance : j # i => verdict'[j] = verdict[j]
            /\ owed' = owed \cup {i}
        BY <1>a, <2>1 DEF Decide, Decided
      <3> QED
        BY <2>1, <3>1, MirrorBegins DEF Decide
    <2>2. ASSUME NEW i \in Instance, DecideOther(s, i)
          PROVE  MirrorInvariant'
      BY <2>2, MirrorBegins DEF DecideOther
    <2>3. CASE Settle(s)
      <3>1. PICK new \in PoStatusFor(verdict[link]) : WritePo(s, new, "engine")
        BY <2>3 DEF Settle
      <3>2. \/ verdict[link] = "approved" /\ new = "approved"
            \/ verdict[link] = "rejected" /\ new = "draft"
        BY DEF PoStatusFor
      <3>3. CASE s \in PoWriter
        <4>1. po' = new /\ via' = "engine" /\ UNCHANGED <<link, verdict>>
          BY <2>3, <3>1, <3>3 DEF Settle, WritePo
        <4>2. AutoApproves' /\ Mirrored'
          BY <3>2, <4>1 DEF AutoApproves, Mirrored
        <4> QED
          BY <1>a, <1>b, <2>3, <4>1, <4>2, MirrorEnds DEF Settle
      <3>4. CASE s \notin PoWriter
        BY <1>b, <1>c, <2>3, <3>1, <3>4 DEF Settle, WritePo
      <3> QED
        BY <3>3, <3>4
    <2>4. CASE SettleNothing(s)
      <3>1. link \in Instance /\ link \notin owed' =>
              link \notin owed \/ verdict[link] \notin {"approved", "rejected"}
        BY <2>4 DEF SettleNothing, PoStatusFor
      <3> QED
        BY <1>b, <2>4, <3>1, MirrorQuiet DEF SettleNothing
    <2> QED
      BY <1>2, <2>1, <2>2, <2>3, <2>4 DEF DecideCall
  <1>3. ASSUME NEW s \in Session, Manual(s)
        PROVE  MirrorInvariant'
    <2>1. ASSUME NEW to \in {"approved", "draft"}, ManualRead(s, to)
          PROVE  MirrorInvariant'
      BY <2>1, MirrorBegins DEF ManualRead
    <2>2. CASE ManualCheck(s)
      BY <1>b, <2>2, MirrorMoves DEF ManualCheck
    <2>3. CASE ManualRefused(s)
      BY <1>b, <1>c, <2>3 DEF ManualRefused
    <2>4. CASE ManualWrite(s)
      <3>1. CASE s \in PoWriter
        <4>1. po' = call[s].to /\ via' = "manual" /\ UNCHANGED <<link, verdict, owed>>
          BY <2>4, <3>1 DEF ManualWrite, WritePo
        <4>2. ASSUME serial PROVE Mirrored'
          <5>1. po = "pending_approval"
            BY <2>4, <4>2 DEF ManualWrite, MirrorInvariant, InStep
          <5>2. link \in Instance \ owed => verdict[link] \notin {"approved", "rejected"}
            BY <1>a, <4>2, <5>1 DEF Mirrored, AutoApproves
          <5> QED
            BY <4>1, <5>2 DEF Mirrored
        <4>3. AutoApproves'
          BY <4>1 DEF AutoApproves
        <4> QED
          BY <1>a, <1>b, <2>4, <4>1, <4>2, <4>3, MirrorEnds DEF ManualWrite
      <3>2. CASE s \notin PoWriter
        BY <1>b, <1>c, <2>4, <3>2 DEF ManualWrite, WritePo
      <3> QED
        BY <3>1, <3>2
    <2> QED
      BY <1>3, <2>1, <2>2, <2>3, <2>4 DEF Manual
  <1>4. ASSUME NEW s \in Session, IssueRead(s)
        PROVE  MirrorInvariant'
    BY <1>4, MirrorBegins DEF IssueRead
  <1>5. ASSUME NEW s \in Session, IssueWrite(s)
        PROVE  MirrorInvariant'
    <2>1. CASE s \in PoWriter
      <3>1. po' = "issued" /\ UNCHANGED <<link, via, verdict, owed>>
        BY <1>5, <2>1 DEF IssueWrite, WritePo
      <3>2. ASSUME serial PROVE Mirrored'
        <4>1. po = "approved"
          BY <1>5, <3>2 DEF IssueWrite, TurnInvariant, InTurn
        <4> QED
          BY <1>a, <3>1, <3>2, <4>1 DEF Mirrored
      <3>3. AutoApproves'
        BY <3>1 DEF AutoApproves
      <3> QED
        BY <1>a, <1>b, <1>5, <3>1, <3>2, <3>3, MirrorEnds DEF IssueWrite
    <2>2. CASE s \notin PoWriter
      BY <1>b, <1>c, <1>5, <2>2 DEF IssueWrite, WritePo
    <2> QED
      BY <2>1, <2>2
  <1>6. ASSUME NEW i \in Instance, Cancel(i)
        PROVE  MirrorInvariant'
    <2>1. verdict'[i] = "cancelled" /\ \A j \in Instance : j # i => verdict'[j] = verdict[j]
      BY <1>a, <1>6 DEF Cancel, Decided
    <2>2. UNCHANGED <<po, link, via, call, serial, owed>>
      BY <1>6 DEF Cancel
    <2>3. Mirrored => Mirrored'
      BY <2>1, <2>2 DEF Mirrored
    <2> QED
      BY <2>1, <2>2, <2>3 DEF MirrorInvariant, AutoApproves, InStep
  <1>7. ASSUME NEW s \in Session, Stop(s)
        PROVE  MirrorInvariant'
    BY <1>7, <1>c DEF Stop
  <1>8. CASE UNCHANGED vars
    BY <1>8 DEF vars, MirrorInvariant, AutoApproves, InStep, Mirrored
  <1> QED
    BY <1>1, <1>2, <1>3, <1>4, <1>5, <1>6, <1>7, <1>8 DEF Next

(* All invariants together.                                                   *)
LEMMA MirrorAlways == Spec => [](PoInvariant /\ TurnInvariant /\ MirrorInvariant)
  <1>1. PoInvariant /\ TurnInvariant /\ MirrorInvariant /\ [Next]_vars => MirrorInvariant'
    BY MirrorStep
  <1> QED
    BY MirrorInit, TurnAlways, <1>1, PTL DEF Spec

(* The consistency audit's class C4: as long as calls did not overlap,        *)
(* whichever stopped and whoever may update orders, the order says what its   *)
(* instance decided, unless that outcome is still owed.                       *)
THEOREM MirrorsInTurn == Spec => []MirrorsInstance
  <1>1. MirrorInvariant => MirrorsInstance
    BY DEF MirrorInvariant, InStep, Mirrored, MirrorsInstance
  <1> QED
    BY MirrorAlways, <1>1, PTL

(* assertNoOpenPoInstance: as long as calls did not overlap, whichever        *)
(* stopped, a manual decision is written only while no instance is open, and  *)
(* never over a decision of the order's instance that has been settled.       *)
THEOREM NoBypassInTurn == Spec => NoManualBypass
  <1> DEFINE Kept ==
        \A s \in Session :
          serial /\ call[s].pc = "checked" /\ call'[s] = Idle /\ po' # po =>
            /\ Open = {}
            /\ link \in Instance \ owed => verdict[link] = "cancelled"
  <1>1. ASSUME TurnInvariant, MirrorInvariant PROVE Kept
    <2> SUFFICES ASSUME NEW s \in Session, serial, call[s].pc = "checked"
                 PROVE  /\ Open = {}
                        /\ link \in Instance \ owed => verdict[link] = "cancelled"
      OBVIOUS
    <2>1. Open = {}
      BY <1>1 DEF TurnInvariant, InTurn
    <2>2. po = "pending_approval" /\ Mirrored /\ (link \in Instance => verdict[link] # "none")
      BY <1>1 DEF MirrorInvariant, InStep
    <2>3. ASSUME link \in Instance \ owed PROVE verdict[link] = "cancelled"
      <3>1. verdict[link] \in Verdict /\ verdict[link] # "open"
        BY <1>1, <2>1, <2>3 DEF TurnInvariant, TypeOK, Open
      <3>2. verdict[link] \notin {"approved", "rejected"}
        BY <1>1, <2>2, <2>3 DEF Mirrored, MirrorInvariant, AutoApproves
      <3> QED
        BY <2>2, <2>3, <3>1, <3>2 DEF Verdict, Decision
    <2> QED
      BY <2>1, <2>3
  <1>2. PoInvariant /\ TurnInvariant /\ MirrorInvariant /\ [Next]_vars => [Kept]_vars
    BY <1>1
  <1> QED
    BY <1>2, MirrorAlways, PTL DEF NoManualBypass, Spec
==============================================================================
