------------------------------ MODULE PoApproval ------------------------------
(* The approval and issue of one purchase order: submitPoForApproval,         *)
(* approvePo, rejectPo and issuePo of po.functions.ts, and decideApproval with *)
(* its settlement of the order (po-approval.server.ts).  The engine underneath *)
(* is ApprovalVerdict, which ApprovalEngine implements.                       *)
(*                                                                            *)
(* Each call is a sequence of separate database requests.  An update of the   *)
(* order goes through row level security: a user outside the pos_write policy *)
(* updates no row and gets no error.                                          *)
EXTENDS Integers, FiniteSets, ApprovalVerdict

CONSTANTS Session,   \* server function calls that may run at the same time
          PoWriter,  \* sessions whose user passes the pos_write policy
          Failing,   \* sessions whose calls may stop half-way
          Routes,    \* what the threshold and the rules make of a submission:
                     \* "auto" below the threshold, "engine", "unruled" when
                     \* no active rule matches
          NoInstance

ASSUME PoAssumption ==
  /\ PoWriter \subseteq Session /\ Failing \subseteq Session
  /\ Routes \subseteq {"auto", "engine", "unruled"}
  /\ Instance \subseteq Nat /\ NoInstance \notin Instance

VARIABLES po,    \* purchase_orders.status
          link,  \* purchase_orders.approval_instance_id
          via,   \* who made the order's last decision (audit_logs)
          call,  \* the server function each session is running
          serial, \* history: no two calls overlapped so far
          owed   \* history: instances that were decided, and no settlement of
                 \* theirs has gone through yet

vars == <<po, link, via, verdict, call, serial, owed>>

PoStatus == {"draft", "pending_approval", "approved", "issued"}

Call == [pc: {"idle", "submit", "open", "link", "settle", "manual", "checked", "issue"},
         inst: Instance \cup {NoInstance}, to: PoStatus]

Idle == [pc |-> "idle", inst |-> NoInstance, to |-> "draft"]

TypeOK ==
  /\ po \in PoStatus
  /\ link \in Instance \cup {NoInstance}
  /\ via \in {"none", "auto", "manual", "engine"}
  /\ verdict \in [Instance -> Verdict]
  /\ call \in [Session -> Call]
  /\ serial \in BOOLEAN
  /\ owed \subseteq Instance

------------------------------------------------------------------------------
Open == {i \in Instance : verdict[i] = "open"}

Goto(s, pc, i, to) ==
  /\ call' = [call EXCEPT ![s] = [pc |-> pc, inst |-> i, to |-> to]]
  /\ UNCHANGED <<serial, owed>>

(* A call begins, perhaps while another one is under way.                     *)
Begin(s, pc, i, to) ==
  /\ call[s] = Idle
  /\ call' = [call EXCEPT ![s] = [pc |-> pc, inst |-> i, to |-> to]]
  /\ serial' = (serial /\ \A t \in Session : call[t] = Idle)

End(s) ==
  /\ call' = [call EXCEPT ![s] = Idle]
  /\ UNCHANGED serial

(* Mutant: a rejected order stays where it is.                                *)
PoStatusForApprovedOnly(v) == IF v = "approved" THEN {"approved"} ELSE {}

(* poStatusForInstance, without the open instances that settle nothing.       *)
PoStatusFor(v) ==
  IF v = "approved" THEN {"approved"} ELSE IF v = "rejected" THEN {"draft"} ELSE {}

(* "update purchase_orders set status = new" by the user of session s.        *)
WritePo(s, new, by) ==
  IF s \in PoWriter THEN po' = new /\ via' = by ELSE UNCHANGED <<po, via>>

------------------------------------------------------------------------------
Init ==
  /\ po = "draft" /\ link = NoInstance /\ via = "none" /\ serial = TRUE /\ owed = {}
  /\ VerdictInit
  /\ call = [s \in Session |-> Idle]

(* submitPoForApproval reads the draft, then the company's threshold.         *)
SubmitRead(s) ==
  /\ po = "draft"
  /\ Begin(s, "submit", NoInstance, "pending_approval")
  /\ UNCHANGED <<po, link, via, verdict, owed>>

SubmitAuto(s) ==
  /\ call[s].pc = "submit" /\ "auto" \in Routes
  /\ WritePo(s, "approved", "auto")
  /\ End(s)
  /\ UNCHANGED <<link, verdict, owed>>

(* start_approval_instance answers null, an instance that is already open, or *)
(* ...                                                                        *)
SubmitUnruled(s) ==
  /\ call[s].pc = "submit" /\ "unruled" \in Routes
  /\ Goto(s, "link", NoInstance, "pending_approval")
  /\ UNCHANGED <<po, link, via, verdict>>

SubmitReuse(s) ==
  /\ call[s].pc = "submit" /\ "engine" \in Routes
  /\ \E i \in Open : Goto(s, "link", i, "pending_approval")
  /\ UNCHANGED <<po, link, via, verdict>>

SubmitMiss(s) ==
  /\ call[s].pc = "submit" /\ "engine" \in Routes
  /\ Open = {}
  /\ Goto(s, "open", NoInstance, "pending_approval")
  /\ UNCHANGED <<po, link, via, verdict>>

(* ... one it inserts, having found none open.                                *)
SubmitOpen(s) ==
  /\ call[s].pc = "open"
  /\ \E i \in Instance :
       /\ Opened(i)
       /\ \A j \in Instance : j < i => verdict[j] # "none"
       /\ Goto(s, "link", i, "pending_approval")
  /\ UNCHANGED <<po, link, via>>

(* Only then is the order marked as pending and bound to the instance.        *)
Link(s) ==
  /\ call[s].pc = "link"
  /\ WritePo(s, "pending_approval", "none")
  /\ link' = IF s \in PoWriter THEN call[s].inst ELSE link
  /\ End(s)
  /\ UNCHANGED <<verdict, owed>>

(* decideApproval: the decision may close the instance, ...                   *)
Decide(s, i, d) ==
  /\ Decided(i, d)
  /\ owed' = owed \cup {i}
  /\ Begin(s, "settle", i, "draft")
  /\ UNCHANGED <<po, link, via>>

(* ... or be one of several, or repeat one taken before (a no-op for the      *)
(* engine).                                                                   *)
DecideOther(s, i) ==
  /\ verdict[i] # "none"
  /\ Begin(s, "settle", i, "draft")
  /\ UNCHANGED <<po, link, via, verdict, owed>>

(* Mutant: the order is settled by an instance it is no longer bound to.      *)
SettleUnbound(s) ==
  /\ call[s].pc = "settle"
  /\ \E new \in PoStatusFor(verdict[call[s].inst]) : WritePo(s, new, "engine")
  /\ owed' = owed \ {call[s].inst}
  /\ End(s)
  /\ UNCHANGED <<link, verdict>>

(* settlePoAfterDecision reads the instance back and mirrors its outcome onto *)
(* the order that is bound to it, whatever status that order has.  As a user  *)
(* outside pos_write it mirrors nothing, and the outcome remains owed.        *)
Settle(s) ==
  /\ call[s].pc = "settle"
  /\ link = call[s].inst
  /\ \E new \in PoStatusFor(verdict[link]) : WritePo(s, new, "engine")
  /\ owed' = IF s \in PoWriter THEN owed \ {link} ELSE owed
  /\ End(s)
  /\ UNCHANGED <<link, verdict>>

SettleNothing(s) ==
  /\ call[s].pc = "settle"
  /\ link # call[s].inst \/ PoStatusFor(verdict[call[s].inst]) = {}
  /\ owed' = owed \ {call[s].inst}
  /\ End(s)
  /\ UNCHANGED <<po, link, via, verdict>>

Cancel(i) ==
  /\ Decided(i, "cancelled")
  /\ UNCHANGED <<po, link, via, call, serial, owed>>

(* approvePo and rejectPo read the pending order, then look for an open       *)
(* instance.  maybeSingle answers two open instances with an error, which the *)
(* check ignores.                                                             *)
ManualRead(s, to) ==
  /\ po = "pending_approval"
  /\ Begin(s, "manual", NoInstance, to)
  /\ UNCHANGED <<po, link, via, verdict, owed>>

(* Mutant: no look for an open instance.                                      *)
ManualUnchecked(s) ==
  /\ call[s].pc = "manual"
  /\ Goto(s, "checked", NoInstance, call[s].to)
  /\ UNCHANGED <<po, link, via, verdict>>

ManualCheck(s) ==
  /\ call[s].pc = "manual"
  /\ Cardinality(Open) # 1
  /\ Goto(s, "checked", NoInstance, call[s].to)
  /\ UNCHANGED <<po, link, via, verdict>>

ManualRefused(s) ==
  /\ call[s].pc = "manual"
  /\ Cardinality(Open) = 1
  /\ End(s)
  /\ UNCHANGED <<po, link, via, verdict, owed>>

ManualWrite(s) ==
  /\ call[s].pc = "checked"
  /\ WritePo(s, call[s].to, "manual")
  /\ End(s)
  /\ UNCHANGED <<link, verdict, owed>>

(* issuePo reads the approved order and issues it by id alone.                *)
IssueRead(s) ==
  /\ po = "approved"
  /\ Begin(s, "issue", NoInstance, "issued")
  /\ UNCHANGED <<po, link, via, verdict, owed>>

IssueWrite(s) ==
  /\ call[s].pc = "issue"
  /\ WritePo(s, "issued", via)
  /\ End(s)
  /\ UNCHANGED <<link, verdict, owed>>

(* The call stops between two requests; a settlement that fails is swallowed. *)
Stop(s) ==
  /\ call[s] # Idle
  /\ End(s)
  /\ UNCHANGED <<po, link, via, verdict, owed>>

Submit(s) ==
  \/ SubmitRead(s) \/ SubmitAuto(s) \/ SubmitUnruled(s) \/ SubmitReuse(s)
  \/ SubmitMiss(s) \/ SubmitOpen(s) \/ Link(s)

DecideCall(s) ==
  \/ \E i \in Instance : DecideOther(s, i) \/ \E d \in {"approved", "rejected"} : Decide(s, i, d)
  \/ Settle(s) \/ SettleNothing(s)

Manual(s) ==
  \/ \E to \in {"approved", "draft"} : ManualRead(s, to)
  \/ ManualCheck(s) \/ ManualRefused(s) \/ ManualWrite(s)

Next ==
  \/ \E s \in Session : Submit(s) \/ DecideCall(s) \/ Manual(s) \/ IssueRead(s) \/ IssueWrite(s)
  \/ \E i \in Instance : Cancel(i)
  \/ \E s \in Failing : Stop(s)

Spec == Init /\ [][Next]_vars

------------------------------------------------------------------------------
(* A settlement never mirrors a stale outcome: when the engine wrote the      *)
(* order's status, the order is bound to an instance with that verdict, even  *)
(* if the order was rejected and submitted again between the decision and its *)
(* settlement.  (Not so once issued: IssueWrite overwrites any status.)       *)
SettledByItsVerdict ==
  via = "engine" =>
    /\ link \in Instance
    /\ po = "approved" => verdict[link] = "approved"
    /\ po = "draft" => verdict[link] = "rejected"

(* The consistency audit's class C4 (status-consistency.test.ts:154), while    *)
(* calls did not overlap, although any of them may have stopped half-way: an  *)
(* order bound to an approved instance is approved or issued, one bound to a  *)
(* rejected instance is a draft, unless a raised threshold has approved it    *)
(* since.  An outcome that is still owed, its settlement having stopped or    *)
(* been made by a user who may not update orders, is excepted until the       *)
(* decision is repeated.                                                      *)
MirrorsInstance ==
  serial /\ link \in Instance \ owed =>
    /\ verdict[link] = "approved" => po \in {"approved", "issued"}
    /\ verdict[link] = "rejected" => po = "draft" \/ via = "auto"

(* po.functions.ts:603: the engine owns the decision while an instance is     *)
(* open, no manual bypass: while calls did not overlap, whatever stopped, a   *)
(* manual decision finds no instance open, and none of the order's decided    *)
(* unless its outcome is still owed.                                          *)
NoManualBypass ==
  [][\A s \in Session :
       serial /\ call[s].pc = "checked" /\ call'[s] = Idle /\ po' # po =>
         /\ Open = {}
         /\ link \in Instance \ owed => verdict[link] = "cancelled"]_vars

(* po-approval.rules.ts:33: an order may only be issued once it is approved.  *)
IssuedIsApproved == [][po # "issued" /\ po' = "issued" => po = "approved"]_vars

(* An issued order stays issued: a decision that is repeated is a no-op       *)
(* (decide_approval, line 291).                                               *)
IssuedStays == [][po = "issued" => po' = "issued"]_vars
==============================================================================
