----------------------------- MODULE EventActions -----------------------------
(* The O&M action that one rule plans for one SCADA event: the evaluation of  *)
(* the event, the approval it may need, the execution of the action and its   *)
(* settlement after a decision (scada-actions.server.ts).  The engine below   *)
(* is ApprovalVerdict; every instance here is about this one log row.         *)
(*                                                                            *)
(* Each call is a sequence of separate database requests, made with the       *)
(* service role: no policy, trigger or lock guards event_action_log, only its *)
(* unique (rule_id, scada_event_id).                                          *)
EXTENDS Naturals, ApprovalVerdict

CONSTANTS Session,   \* server function calls that may run at the same time
          Failing,   \* sessions whose calls may stop half-way
          Type,      \* event_action_type
          Contractual,
          Stocked,   \* types that take stock before they order (spare_parts_request)
          NoInstance, NoPlan,
          MaxDone    \* cap on the executions followed, at least 2

ASSUME EventAssumption ==
  /\ Failing \subseteq Session
  /\ Contractual \subseteq Type /\ Stocked \subseteq Type /\ Type # {}
  /\ Instance \subseteq Nat /\ NoInstance \notin Instance
  /\ MaxDone \in Nat

VARIABLES rule,  \* event_action_rules: action_type and requires_approval
          log,   \* the event_action_log row of the rule and the event
          call,  \* the server function each session is running
          done,  \* history: how often the order, ticket, claim ... was made
          taken, \* history: how often stock was taken
          slips, \* history: executions that ended after an effect of theirs and
                 \* did not leave the row as executed
          serial, \* history: no two calls overlapped so far,
          alone   \* nor did one stop or lose a write

history == <<done, taken, slips, serial, alone>>

vars == <<rule, log, verdict, call, history>>

Status == {"absent", "pending_approval", "approved", "executed", "rejected", "failed"}
Pc == {"idle", "upsert", "read", "start", "open", "link", "settle", "approve",
       "reject", "execute", "floor", "perform", "order", "record", "fail"}

(* actionRequiresApproval: the governance floor, whatever the rule says.      *)
RequiresApproval(type, flag) == type \in Contractual \/ flag

Rule == {r \in [type : Type, approval : BOOLEAN] :
           r.approval = RequiresApproval(r.type, r.approval)}

Log == [status : Status, type : Type, inst : Instance \cup {NoInstance}]

Call == [pc : Pc, plan : Rule \cup {NoPlan}, inst : Instance \cup {NoInstance}]

Idle == [pc |-> "idle", plan |-> NoPlan, inst |-> NoInstance]

TypeOK ==
  /\ rule \in Rule
  /\ log \in Log
  /\ done \in 0 .. MaxDone /\ taken \in 0 .. MaxDone /\ slips \in 0 .. MaxDone
  /\ serial \in BOOLEAN /\ alone \in BOOLEAN
  /\ verdict \in [Instance -> Verdict]
  /\ call \in [Session -> Call]

------------------------------------------------------------------------------
Open == {i \in Instance : verdict[i] = "open"}

(* A call begins, perhaps while another one is under way.                     *)
Begin(s, pc, plan, i) ==
  /\ call[s] = Idle
  /\ call' = [call EXCEPT ![s] = [pc |-> pc, plan |-> plan, inst |-> i]]
  /\ serial' = (serial /\ \A t \in Session : call[t] = Idle)
  /\ alone' = (alone /\ serial')
  /\ UNCHANGED <<done, taken, slips>>

Goto(s, pc, i) == call' = [call EXCEPT ![s] = [pc |-> pc, plan |-> NoPlan, inst |-> i]]

End(s) == Goto(s, "idle", NoInstance)

SetStatus(new) == log' = [log EXCEPT !.status = new]

Init ==
  /\ rule \in Rule
  /\ log = [status |-> "absent", type |-> rule.type, inst |-> NoInstance]
  /\ done = 0 /\ taken = 0 /\ slips = 0 /\ serial = TRUE /\ alone = TRUE
  /\ VerdictInit
  /\ call = [s \in Session |-> Idle]

(* saveActionRule, which applies the floor to what it stores.                 *)
SaveRule(r) ==
  /\ rule' = r
  /\ UNCHANGED <<log, verdict, call, history>>

------------------------------------------------------------------------------
(* evaluateEventActions reads the rules and plans, ...                        *)
EvaluatePlan(s) ==
  /\ Begin(s, "upsert", rule, NoInstance)
  /\ UNCHANGED <<rule, log, verdict>>

(* ... inserts the log row unless there is one, ...                           *)
EvaluateUpsert(s) ==
  /\ call[s].pc = "upsert"
  /\ log' = IF log.status = "absent"
            THEN [status |-> "pending_approval", type |-> call[s].plan.type,
                  inst |-> NoInstance]
            ELSE log
  /\ call' = [call EXCEPT ![s].pc = "read"]
  /\ UNCHANGED <<rule, verdict, history>>

Fresh == log.status = "pending_approval" /\ log.inst = NoInstance

(* Mutant: a row is taken for fresh whatever became of it.                    *)
EvaluateAgain(s) ==
  /\ call[s].pc = "read"
  /\ Goto(s, IF call[s].plan.approval THEN "start" ELSE "approve", NoInstance)
  /\ UNCHANGED <<rule, log, verdict, history>>

(* ... reads it back, and leaves one alone that is already under way.         *)
EvaluateRead(s) ==
  /\ call[s].pc = "read"
  /\ Goto(s, IF ~Fresh THEN "idle" ELSE IF call[s].plan.approval THEN "start" ELSE "approve",
          NoInstance)
  /\ UNCHANGED <<rule, log, verdict, history>>

(* startApprovalFor: no user (an evaluation by the ingestion), no rule of the *)
(* engine or an error leaves the row waiting without an instance; otherwise   *)
(* start_approval_instance answers one that is open ...                       *)
StartNone(s) ==
  /\ call[s].pc = "start"
  /\ End(s)
  /\ UNCHANGED <<rule, log, verdict, history>>

StartReuse(s) ==
  /\ call[s].pc = "start"
  /\ \E i \in Open : Goto(s, "link", i)
  /\ UNCHANGED <<rule, log, verdict, history>>

StartMiss(s) ==
  /\ call[s].pc = "start"
  /\ Open = {}
  /\ Goto(s, "open", NoInstance)
  /\ UNCHANGED <<rule, log, verdict, history>>

(* ... or inserts one, having found none.                                     *)
StartOpen(s) ==
  /\ call[s].pc = "open"
  /\ \E i \in Instance :
       /\ Opened(i)
       /\ \A j \in Instance : j < i => verdict[j] # "none"
       /\ Goto(s, "link", i)
  /\ UNCHANGED <<rule, log, history>>

Link(s) ==
  /\ call[s].pc = "link"
  /\ log' = [log EXCEPT !.inst = call[s].inst]
  /\ End(s)
  /\ UNCHANGED <<rule, verdict, history>>

------------------------------------------------------------------------------
(* decideApproval: a decision closes the instance, ...                        *)
Decide(s, i, d) ==
  /\ Decided(i, d)
  /\ Begin(s, "settle", NoPlan, i)
  /\ UNCHANGED <<rule, log>>

(* ... or is one of several, or repeats one taken before.                     *)
DecideOther(s, i) ==
  /\ verdict[i] # "none"
  /\ Begin(s, "settle", NoPlan, i)
  /\ UNCHANGED <<rule, log, verdict>>

Cancel(i) ==
  /\ Decided(i, "cancelled")
  /\ UNCHANGED <<rule, log, call, history>>

(* Mutant: only the instance the row is bound to settles it.                  *)
SettleBound(s) ==
  /\ call[s].pc = "settle"
  /\ LET v == verdict[call[s].inst] IN
     Goto(s, IF log.status \in {"executed", "rejected"} \/ v = "open" \/ log.inst # call[s].inst
             THEN "idle" ELSE IF v = "approved" THEN "approve" ELSE "reject", NoInstance)
  /\ UNCHANGED <<rule, log, verdict, history>>

(* settleEventActionsForInstance reads the instance back, then the row.       *)
Settle(s) ==
  /\ call[s].pc = "settle"
  /\ LET v == verdict[call[s].inst] IN
     Goto(s, IF log.status \in {"executed", "rejected"} \/ v = "open" THEN "idle"
             ELSE IF v = "approved" THEN "approve" ELSE "reject", NoInstance)
  /\ UNCHANGED <<rule, log, verdict, history>>

SettleReject(s) ==
  /\ call[s].pc = "reject"
  /\ SetStatus("rejected")
  /\ End(s)
  /\ UNCHANGED <<rule, verdict, history>>

------------------------------------------------------------------------------
(* The row is marked as approved, by an evaluation that needs no approval or  *)
(* by a settlement, and executeEventAction is called.                         *)
Approve(s) ==
  /\ call[s].pc = "approve"
  /\ SetStatus("approved")
  /\ Goto(s, "execute", NoInstance)
  /\ UNCHANGED <<rule, verdict, history>>

(* Mutant: the floor is not checked again for a rule that was edited.         *)
ExecuteUnchecked(s) ==
  /\ call[s].pc = "execute"
  /\ Goto(s, CASE log.status = "executed" -> "idle"
                   [] log.status = "approved" -> "perform"
                   [] OTHER -> "fail",
              log.inst)
  /\ UNCHANGED <<rule, log, verdict, history>>

(* executeEventAction reads the row, ...                                      *)
Execute(s) ==
  /\ call[s].pc = "execute"
  /\ Goto(s, CASE log.status = "executed" -> "idle"
                   [] log.status = "approved" /\ log.type \in Contractual -> "floor"
                   [] log.status = "approved" /\ log.type \notin Contractual -> "perform"
                   [] OTHER -> "fail",
              log.inst)
  /\ UNCHANGED <<rule, log, verdict, history>>

(* ... asks for an approved instance (hasApprovedInstance: the one the row    *)
(* was bound to, or any of the row's), ...                                    *)
Floor(s) ==
  /\ call[s].pc = "floor"
  /\ LET asked == IF call[s].inst = NoInstance THEN Instance ELSE {call[s].inst} IN
     Goto(s, IF \E i \in asked : verdict[i] = "approved" THEN "perform" ELSE "fail",
          NoInstance)
  /\ UNCHANGED <<rule, log, verdict, history>>

(* ... creates the work order, ticket, claim or notification, ...             *)
Perform(s) ==
  /\ call[s].pc = "perform" /\ log.type \notin Stocked
  /\ done < MaxDone
  /\ done' = done + 1
  /\ Goto(s, "record", NoInstance)
  /\ UNCHANGED <<rule, log, verdict, taken, slips, serial, alone>>

(* Mutant: an action that fails is taken for done.                            *)
PerformFailsSilently(s) ==
  /\ call[s].pc = "perform"
  /\ Goto(s, "record", NoInstance)
  /\ UNCHANGED <<rule, log, verdict, history>>

(* ... or finds its configuration incomplete or its first write refused; ...  *)
PerformFails(s) ==
  /\ call[s].pc = "perform"
  /\ Goto(s, "fail", NoInstance)
  /\ UNCHANGED <<rule, log, verdict, history>>

(* ... a spare-parts request first takes the parts from the stock, ...        *)
TakeStock(s) ==
  /\ call[s].pc = "perform" /\ log.type \in Stocked
  /\ taken < MaxDone
  /\ taken' = taken + 1
  /\ Goto(s, "order", NoInstance)
  /\ UNCHANGED <<rule, log, verdict, done, slips, serial, alone>>

(* ... then inserts their work order, ...                                     *)
Order(s) ==
  /\ call[s].pc = "order"
  /\ done < MaxDone
  /\ done' = done + 1
  /\ Goto(s, "record", NoInstance)
  /\ UNCHANGED <<rule, log, verdict, taken, slips, serial, alone>>

(* An execution ends half-way: it has had an effect.                          *)
Slip == slips' = IF slips < MaxDone THEN slips + 1 ELSE slips

(* ... which may fail and leaves the stock taken; ...                         *)
OrderFails(s) ==
  /\ call[s].pc = "order"
  /\ Slip
  /\ Goto(s, "fail", NoInstance)
  /\ UNCHANGED <<rule, log, verdict, done, taken, serial, alone>>

(* ... and records the outcome by the row's id.                               *)
Record(s) ==
  /\ call[s].pc = "record"
  /\ SetStatus("executed")
  /\ End(s)
  /\ UNCHANGED <<rule, verdict, history>>

RecordFailure(s) ==
  /\ call[s].pc = "fail"
  /\ SetStatus("failed")
  /\ End(s)
  /\ UNCHANGED <<rule, verdict, history>>

(* The call stops between two requests.                                       *)
Stop(s) ==
  /\ call[s] # Idle
  /\ End(s)
  /\ IF call[s].pc \in {"order", "record"} THEN Slip ELSE UNCHANGED slips
  /\ alone' = FALSE
  /\ UNCHANGED <<rule, log, verdict, done, taken, serial>>

(* An update of the row fails, which no caller looks at: the call goes on as  *)
(* if it had been made.                                                       *)
WriteLost(s) ==
  /\ call[s].pc \in {"upsert", "link", "reject", "approve", "record", "fail"}
  /\ CASE call[s].pc = "upsert" -> call' = [call EXCEPT ![s].pc = "read"]
       [] call[s].pc = "approve" -> Goto(s, "execute", NoInstance)
       [] OTHER -> End(s)
  /\ IF call[s].pc = "record" THEN Slip ELSE UNCHANGED slips
  /\ alone' = FALSE
  /\ UNCHANGED <<rule, log, verdict, done, taken, serial>>

------------------------------------------------------------------------------
Evaluate(s) ==
  \/ EvaluateUpsert(s) \/ EvaluateRead(s)
  \/ StartNone(s) \/ StartReuse(s) \/ StartMiss(s) \/ StartOpen(s) \/ Link(s)

ExecuteAction(s) ==
  \/ Approve(s) \/ Execute(s) \/ Floor(s) \/ Perform(s) \/ PerformFails(s)
  \/ TakeStock(s) \/ Order(s) \/ OrderFails(s) \/ Record(s) \/ RecordFailure(s)

Continue(s) == Evaluate(s) \/ Settle(s) \/ SettleReject(s) \/ ExecuteAction(s)

Start(s) ==
  \/ EvaluatePlan(s)
  \/ \E i \in Instance : DecideOther(s, i) \/ \E d \in {"approved", "rejected"} : Decide(s, i, d)

Next ==
  \/ \E s \in Session : Start(s) \/ Continue(s)
  \/ \E s \in Failing : Stop(s) \/ WriteLost(s)
  \/ \E r \in Rule : SaveRule(r)
  \/ \E i \in Instance : Cancel(i)

Spec == Init /\ [][Next]_vars

(* A call that does not stop makes its next request in the end.               *)
FairSpec == Spec /\ \A s \in Session \ Failing : WF_vars(Continue(s))

------------------------------------------------------------------------------
(* The governance hard floor (action-rules.ts:43, scada-actions.server.ts:304): *)
(* a contractual action was performed only after an approval of this row,     *)
(* even if its rule was turned into an operational one after the row was      *)
(* made, and however many evaluations, settlements, stops and lost writes     *)
(* overlapped.                                                                *)
ContractualWasApproved ==
  done + taken > 0 /\ log.type \in Contractual => \E i \in Instance : verdict[i] = "approved"

(* scada-actions.server.ts:95, "replaying the same event never duplicates     *)
(* work", as far as the code keeps it: while no two calls overlapped, an      *)
(* effect is repeated only after an execution that had one and then stopped,  *)
(* lost its record or failed, once for each.  Replayed evaluations, repeated  *)
(* decisions and failures without an effect repeat nothing.  (A second chance *)
(* after a failed order does take the stock again: StockTakenOnce.)           *)
RepeatedOnlyAfterSlips == serial => done <= 1 + slips /\ taken <= 1 + slips

(* The same without the reservations: of any overlap, and of a failed order.  *)
PerformedOnce == done <= 1
StockTakenOnce == alone => taken <= 1

(* Between calls that did not overlap, stop or lose a write, the row tells    *)
(* what happened: executed exactly when the action was performed, its stock   *)
(* included; failed if stock was taken and nothing else came of it; approved  *)
(* by nobody and not performed when rejected; settled when its instance is    *)
(* decided (the action log shows this row to operators,                       *)
(* scada-actions.server.ts:816).                                              *)
RowIsTrueAlone ==
  alone /\ (\A s \in Session : call[s] = Idle) =>
    /\ log.status = "executed" <=> done = 1
    /\ log.status = "executed" /\ log.type \in Stocked => taken > 0
    /\ taken > 0 => log.status \in {"executed", "failed"}
    /\ \A i \in Instance :
         /\ verdict[i] = "approved" => log.status \in {"executed", "failed"}
         /\ verdict[i] = "rejected" => log.status = "rejected"

(* A decision that approves or rejects is carried out by its call, if that    *)
(* does not stop or lose a write: the row reaches an outcome, also when the   *)
(* instance is not the one it is bound to (settleEventActionsForInstance).    *)
DecidedIsCarriedOut ==
  \A s \in Session \ Failing :
    call[s].pc = "settle" /\ verdict[call[s].inst] \in {"approved", "rejected"}
      ~> log.status \in {"executed", "rejected", "failed"}
==============================================================================
