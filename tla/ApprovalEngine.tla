---------------------------- MODULE ApprovalEngine ----------------------------
(* The approval engine of migration 20260725121503: start_approval_instance,  *)
(* decide_approval, cancel_approval_instance, and the rule editor             *)
(* upsertApprovalRule, for one entity governed by one rule.                   *)
(*                                                                            *)
(* Every session runs one database transaction at a time, at the granularity  *)
(* of READ COMMITTED: a transaction is split where it takes a row lock or     *)
(* takes a new snapshot, and its writes become visible at its last step.      *)
(* A call that raises or returns before it writes leaves no trace, so only    *)
(* the calls that get past their guards appear.                               *)
EXTENDS Integers, FiniteSets

CONSTANTS Session,    \* concurrent database sessions
          Editor,     \* sessions that may edit the rule
          User,       \* people who can hold a role
          Role,       \* app_role
          AdminRole,  \* 'company_admin'
          Holders,    \* Holders[r]: the users with role r (user_roles)
          Instance,   \* approval_instances ids, in order of creation
          Order,      \* values of step_order
          Chains,     \* the chains an administrator may submit
          NoRole,     \* no approval_chain_steps row at this step_order
          NoUser      \* the transaction has no approvals row of its own

ASSUME EngineAssumption ==
  /\ Editor \subseteq Session
  /\ Instance \subseteq Nat
  /\ Order \subseteq Nat \ {0}
  /\ NoRole \notin Role
  /\ NoUser \notin User
  /\ AdminRole \in Role
  /\ Holders \in [Role -> SUBSET User]
  /\ Holders[AdminRole] # {}
  /\ Chains \subseteq [Order -> Role \cup {NoRole}]
  /\ \A c \in Chains : \E o \in Order : c[o] # NoRole

VARIABLES status,  \* approval_instances.status; "none" before the insert
          step,    \* approval_instances.current_step; 0 before the insert
          appr,    \* approvals.status by instance, step_order and approver_id
          chain,   \* approval_chain_steps of the rule: the role at each order
          tx       \* the transaction each session is running

vars == <<status, step, appr, chain, tx>>

OpenStatus == {"pending", "in_progress"}
ClosedStatus == {"approved", "rejected", "cancelled"}
Status == {"none"} \cup OpenStatus \cup ClosedStatus
RowStatus == {"none", "pending", "approved", "rejected", "skipped"}

(* goal: the status the transaction means to write; last: its count of the    *)
(* step's other pending approvals was zero.                                   *)
Tx == [pc: {"idle", "starting", "rowHeld", "instHeld", "counted", "editing"},
       goal: {"none"} \cup ClosedStatus,
       inst: Instance \cup {0}, order: Order \cup {0}, user: User \cup {NoUser},
       last: BOOLEAN]

Idle == [pc |-> "idle", goal |-> "none", inst |-> 0, order |-> 0,
         user |-> NoUser, last |-> FALSE]

TypeOK ==
  /\ status \in [Instance -> Status]
  /\ step \in [Instance -> Order \cup {0}]
  /\ appr \in [Instance -> [Order -> [User -> RowStatus]]]
  /\ chain \in [Order -> Role \cup {NoRole}]
  /\ tx \in [Session -> Tx]

------------------------------------------------------------------------------
IsOpen(i) == status[i] \in OpenStatus
IsClosed(i) == status[i] \in ClosedStatus

ChainOrders == {o \in Order : chain[o] # NoRole}

(* "order by step_order asc limit 1" over the orders in S.                    *)
IsFirst(o, S) == o \in S /\ \A p \in S : o <= p

NextOrdersAnyOther(o) == {p \in ChainOrders : p # o}  \* mutant: not only later steps

NextOrders(o) == {p \in ChainOrders : p > o}

(* A step whose role nobody holds goes to the company administrators.         *)
Approvers(o) ==
  IF Holders[chain[o]] # {} THEN Holders[chain[o]] ELSE Holders[AdminRole]

(* Row locks: a decision holds its approvals row from its first statement and *)
(* the instance row from its second one, both until the transaction ends.     *)
HoldsRow(s, i, o, u) ==
  /\ tx[s].pc \in {"rowHeld", "instHeld", "counted"}
  /\ tx[s].inst = i /\ tx[s].order = o /\ tx[s].user = u

HoldsInst(s, i) == tx[s].pc \in {"instHeld", "counted"} /\ tx[s].inst = i

RowFree(s, i, o, u) == \A t \in Session \ {s} : ~HoldsRow(t, i, o, u)
InstFreeUnlocked(s, i) == TRUE  \* mutant: instance read without "for update"
InstFree(s, i) == \A t \in Session \ {s} : ~HoldsInst(t, i)

(* The rows "where instance_id = i and status = 'pending'" can all be locked. *)
PendingFree(s, i) ==
  \A o \in Order, u \in User : appr[i][o][u] = "pending" => RowFree(s, i, o, u)

------------------------------------------------------------------------------
Init ==
  /\ status = [i \in Instance |-> "none"]
  /\ step = [i \in Instance |-> 0]
  /\ appr = [i \in Instance |-> [o \in Order |-> [u \in User |-> "none"]]]
  /\ chain \in Chains
  /\ tx = [s \in Session |-> Idle]

(* The rows a step inserts, one for each approver.                            *)
WithRowsFor(rows, o) ==
  [rows EXCEPT ![o] = [u \in User |-> IF u \in Approvers(o) THEN "pending" ELSE rows[o][u]]]

(* The bound on instances: every start under way still finds an unused id.    *)
RoomToStart ==
  Cardinality({t \in Session : tx[t].pc = "starting"})
    < Cardinality({i \in Instance : status[i] = "none"})

(* start_approval_instance looks for an open instance of the entity ...       *)
StartCheck(s) ==
  /\ RoomToStart
  /\ tx[s] = Idle
  /\ \A i \in Instance : ~IsOpen(i)
  /\ tx' = [tx EXCEPT ![s] = [Idle EXCEPT !.pc = "starting"]]
  /\ UNCHANGED <<status, step, appr, chain>>

(* ... and, having found none, inserts one on the first step of the chain.    *)
StartInsert(s) ==
  /\ tx[s].pc = "starting"
  /\ \E i \in Instance, o \in Order :
       /\ status[i] = "none"
       /\ \A j \in Instance : j < i => status[j] # "none"
       /\ IsFirst(o, ChainOrders)
       /\ status' = [status EXCEPT ![i] = "pending"]
       /\ step' = [step EXCEPT ![i] = o]
       /\ appr' = [appr EXCEPT ![i] = WithRowsFor(appr[i], o)]
  /\ tx' = [tx EXCEPT ![s] = Idle]
  /\ UNCHANGED chain

(* Mutant: an approval that was decided or skipped may be decided again.      *)
DecideLockRowAgain(s, i, o, u, d) ==
  /\ tx[s] = Idle
  /\ appr[i][o][u] \notin {"none", d}
  /\ RowFree(s, i, o, u)
  /\ tx' = [tx EXCEPT ![s] = [pc |-> "rowHeld", goal |-> d, inst |-> i,
                              order |-> o, user |-> u, last |-> FALSE]]
  /\ UNCHANGED <<status, step, appr, chain>>

(* decide_approval locks the caller's approvals row, which must be pending ... *)
DecideLockRow(s, i, o, u, d) ==
  /\ tx[s] = Idle
  /\ appr[i][o][u] = "pending"
  /\ RowFree(s, i, o, u)
  /\ tx' = [tx EXCEPT ![s] = [pc |-> "rowHeld", goal |-> d, inst |-> i,
                              order |-> o, user |-> u, last |-> FALSE]]
  /\ UNCHANGED <<status, step, appr, chain>>

(* ... then the instance, which must still be open once the lock is granted.  *)
DecideLockInst(s) ==
  /\ tx[s].pc = "rowHeld"
  /\ InstFree(s, tx[s].inst)
  /\ IsOpen(tx[s].inst)
  /\ tx' = [tx EXCEPT ![s] = [@ EXCEPT !.pc = "instHeld"]]
  /\ UNCHANGED <<status, step, appr, chain>>

(* An approval counts the other approvals still pending on its step; writes   *)
(* other transactions have not committed are not seen.                        *)
CountPeers(s) ==
  LET t == tx[s] IN
  /\ t.pc = "instHeld" /\ t.goal = "approved"
  /\ tx' = [tx EXCEPT ![s] = [t EXCEPT !.pc = "counted",
                                       !.last = \A u \in User \ {t.user} :
                                         appr[t.inst][t.order][u] # "pending"]]
  /\ UNCHANGED <<status, step, appr, chain>>

(* Peers still pending: the instance is under way.                            *)
ApproveWait(s) ==
  LET t == tx[s] IN
  /\ t.pc = "counted" /\ ~t.last
  /\ appr' = [appr EXCEPT ![t.inst][t.order][t.user] = "approved"]
  /\ status' = [status EXCEPT ![t.inst] = "in_progress"]
  /\ tx' = [tx EXCEPT ![s] = Idle]
  /\ UNCHANGED <<step, chain>>

(* The last approval of a step opens the next step of the chain ...           *)
ApproveAdvance(s) ==
  LET t == tx[s] IN
  /\ t.pc = "counted" /\ t.last
  /\ \E p \in Order :
       /\ IsFirst(p, NextOrders(t.order))
       /\ appr' = [appr EXCEPT ![t.inst] =
                     WithRowsFor([@ EXCEPT ![t.order][t.user] = "approved"], p)]
       /\ step' = [step EXCEPT ![t.inst] = p]
  /\ status' = [status EXCEPT ![t.inst] = "in_progress"]
  /\ tx' = [tx EXCEPT ![s] = Idle]
  /\ UNCHANGED chain

(* ... or approves the instance when the chain has no further step.           *)
ApproveFinal(s) ==
  LET t == tx[s] IN
  /\ t.pc = "counted" /\ t.last
  /\ NextOrders(t.order) = {}
  /\ appr' = [appr EXCEPT ![t.inst][t.order][t.user] = "approved"]
  /\ status' = [status EXCEPT ![t.inst] = "approved"]
  /\ tx' = [tx EXCEPT ![s] = Idle]
  /\ UNCHANGED <<step, chain>>

(* Mutant: any instance may be cancelled.                                     *)
CancelLockAny(s, i) ==
  /\ tx[s] = Idle
  /\ InstFree(s, i)
  /\ status[i] # "none"
  /\ tx' = [tx EXCEPT ![s] = [Idle EXCEPT !.pc = "instHeld", !.goal = "cancelled",
                                          !.inst = i]]
  /\ UNCHANGED <<status, step, appr, chain>>

(* cancel_approval_instance locks the open instance first.                    *)
CancelLock(s, i) ==
  /\ tx[s] = Idle
  /\ InstFree(s, i)
  /\ IsOpen(i)
  /\ tx' = [tx EXCEPT ![s] = [Idle EXCEPT !.pc = "instHeld", !.goal = "cancelled",
                                          !.inst = i]]
  /\ UNCHANGED <<status, step, appr, chain>>

(* Mutants: the peers' rows are left pending; they take the caller's decision. *)
ClosedRowsKeepPeers(t) ==
  [o \in Order |-> [u \in User |->
     IF o = t.order /\ u = t.user THEN t.goal ELSE appr[t.inst][o][u]]]

ClosedRowsAllDecided(t) ==
  [o \in Order |-> [u \in User |->
     IF appr[t.inst][o][u] = "pending" THEN t.goal ELSE appr[t.inst][o][u]]]

(* The rows of instance t.inst when it closes: the caller's row takes the     *)
(* decision, the other pending ones are skipped.                              *)
ClosedRows(t) ==
  [o \in Order |-> [u \in User |->
     IF o = t.order /\ u = t.user THEN t.goal
     ELSE IF appr[t.inst][o][u] = "pending" THEN "skipped"
     ELSE appr[t.inst][o][u]]]

(* A rejection or a cancellation skips what is still pending, for which it    *)
(* needs those rows' locks, and closes the instance.                          *)
Close(s) ==
  LET t == tx[s] IN
  /\ t.pc = "instHeld" /\ t.goal \in {"rejected", "cancelled"}
  /\ PendingFree(s, t.inst)
  /\ appr' = [appr EXCEPT ![t.inst] = ClosedRows(t)]
  /\ status' = [status EXCEPT ![t.inst] = t.goal]
  /\ tx' = [tx EXCEPT ![s] = Idle]
  /\ UNCHANGED <<step, chain>>

(* Mutant: a start that finds no steps waits for them.                        *)
RaiseClosedOnly(s) ==
  /\ tx[s].pc = "rowHeld" /\ InstFree(s, tx[s].inst) /\ ~IsOpen(tx[s].inst)
  /\ tx' = [tx EXCEPT ![s] = Idle]
  /\ UNCHANGED <<status, step, appr, chain>>

(* The exceptions raised after the first statement: the rule lost its steps,  *)
(* or the instance closed while the decision waited for its lock (which no    *)
(* interleaving reaches: closing needs the lock of the decision's own row).   *)
Raise(s) ==
  /\ \/ tx[s].pc = "starting" /\ ChainOrders = {}
     \/ /\ tx[s].pc = "rowHeld"
        /\ InstFree(s, tx[s].inst)
        /\ ~IsOpen(tx[s].inst)
  /\ tx' = [tx EXCEPT ![s] = Idle]
  /\ UNCHANGED <<status, step, appr, chain>>

(* s closes an instance and waits for a row of t, which waits for the         *)
(* instance: decide_approval locks row then instance, the closing statements  *)
(* instance then rows.  The server rolls one of the two back.                 *)
LockCycle(s, t) ==
  /\ tx[s].pc = "instHeld" /\ tx[s].goal \in {"rejected", "cancelled"}
  /\ tx[t].pc = "rowHeld" /\ tx[t].inst = tx[s].inst

DeadlockVictim(s) ==
  /\ \E t \in Session \ {s} : LockCycle(s, t) \/ LockCycle(t, s)
  /\ tx' = [tx EXCEPT ![s] = Idle]
  /\ UNCHANGED <<status, step, appr, chain>>

(* The connection drops, or the server function stops between two statements. *)
Disconnect(s) ==
  /\ tx[s] # Idle
  /\ tx' = [tx EXCEPT ![s] = Idle]
  /\ UNCHANGED <<status, step, appr, chain>>

(* Mutant: the reference from approvals to the deleted step is set to null.   *)
EditDeleteReferenced(s) ==
  /\ tx[s] = Idle
  /\ chain' = [o \in Order |-> NoRole]
  /\ tx' = [tx EXCEPT ![s] = [Idle EXCEPT !.pc = "editing"]]
  /\ UNCHANGED <<status, step, appr>>

(* upsertApprovalRule deletes the steps of the rule.  approvals.step_id       *)
(* references them, so the delete fails once a row of any instance exists.    *)
EditDelete(s) ==
  /\ tx[s] = Idle
  /\ \A i \in Instance, o \in Order, u \in User : appr[i][o][u] = "none"
  /\ chain' = [o \in Order |-> NoRole]
  /\ tx' = [tx EXCEPT ![s] = [Idle EXCEPT !.pc = "editing"]]
  /\ UNCHANGED <<status, step, appr>>

(* A second request inserts the new steps; (rule_id, step_order) is unique.   *)
EditInsert(s, c) ==
  /\ tx[s].pc = "editing"
  /\ \A o \in Order : c[o] # NoRole => chain[o] = NoRole
  /\ chain' = [o \in Order |-> IF c[o] # NoRole THEN c[o] ELSE chain[o]]
  /\ tx' = [tx EXCEPT ![s] = Idle]
  /\ UNCHANGED <<status, step, appr>>

Decide(s) ==
  \/ \E i \in Instance, o \in Order, u \in User, d \in {"approved", "rejected"} :
       DecideLockRow(s, i, o, u, d)
  \/ DecideLockInst(s)
  \/ CountPeers(s)
  \/ ApproveWait(s)
  \/ ApproveAdvance(s)
  \/ ApproveFinal(s)

Edit(s) == EditDelete(s) \/ \E c \in Chains : EditInsert(s, c)

Next ==
  \/ \E s \in Session :
       \/ StartCheck(s) \/ StartInsert(s)
       \/ Decide(s)
       \/ \E i \in Instance : CancelLock(s, i)
       \/ Close(s)
       \/ Raise(s) \/ DeadlockVictim(s) \/ Disconnect(s)
  \/ \E s \in Editor : Edit(s)

Spec == Init /\ [][Next]_vars

(* A transaction that can run does run; the lock queue of a row is served in  *)
(* arrival order, so a waiter is not passed over for ever; and the server     *)
(* breaks every lock cycle.                                                   *)
Progress(s) ==
  \/ StartInsert(s) \/ CountPeers(s) \/ ApproveWait(s) \/ ApproveAdvance(s)
  \/ ApproveFinal(s) \/ Raise(s) \/ DeadlockVictim(s)

Fairness ==
  \A s \in Session : /\ WF_vars(Progress(s))
                     /\ SF_vars(DecideLockInst(s))
                     /\ SF_vars(Close(s))

FairSpec == Spec /\ Fairness

------------------------------------------------------------------------------
(* No instance is decided while an approval is still pending on it, the       *)
(* consistency audit's class C7b: whatever races with the transaction that    *)
(* closes an instance (a peer's decision, an advance that inserts the next    *)
(* step's rows, a cancellation), no live row is left in anybody's inbox.      *)
NoPendingWhenDecided ==
  \A i \in Instance : IsClosed(i) =>
    \A o \in Order, u \in User : appr[i][o][u] # "pending"

(* An open instance can always still be decided: somebody has a pending       *)
(* approval on its current step.  Two peers who approve at the same time must *)
(* not each take the other for still pending and both leave the step behind   *)
(* with nobody to advance it.                                                 *)
OpenHasVoter ==
  \A i \in Instance : IsOpen(i) =>
    /\ step[i] \in Order
    /\ \E u \in User : appr[i][step[i]][u] = "pending"

(* Steps are worked in order: while an instance is open every row off the     *)
(* current step is an approval of an earlier step.                            *)
StepsInOrder ==
  \A i \in Instance : IsOpen(i) =>
    \A o \in Order, u \in User :
      /\ o > step[i] => appr[i][o][u] = "none"
      /\ o < step[i] => appr[i][o][u] \in {"none", "approved"}
      /\ appr[i][o][u] \notin {"rejected", "skipped"}

(* An instance is approved only when every step of the rule's chain, as it    *)
(* stands at that moment, was put to somebody and unanimously approved: no    *)
(* step is skipped by an edit of the rule or by a lost or double advance.     *)
ApprovedByWholeChain ==
  [][\A i \in Instance : status[i] # "approved" /\ status'[i] = "approved" =>
       /\ \A o \in ChainOrders : \E u \in User : appr'[i][o][u] = "approved"
       /\ \A o \in Order, u \in User : appr'[i][o][u] \in {"none", "approved"}]_vars

(* A recorded decision stands: no later transaction overwrites it, the bulk   *)
(* update of a concurrent rejection or cancellation included.                 *)
DecisionsStand ==
  [][\A i \in Instance, o \in Order, u \in User :
       appr[i][o][u] \in {"approved", "rejected", "skipped"} =>
         appr'[i][o][u] = appr[i][o][u]]_vars

(* Every call of the engine ends, though a rejection and a peer's decision    *)
(* can each hold a lock the other one needs.                                  *)
EveryCallEnds ==
  \A s \in Session : tx[s].pc # "editing" /\ tx[s] # Idle ~> tx[s] = Idle

(* What makes those invariants inductive: the discipline of the row locks.  A *)
(* transaction's row stays pending while it holds it, ...                     *)
Locking(s) == tx[s].pc \in {"rowHeld", "instHeld", "counted"}

OwnRowPending(s) ==
  LET t == tx[s] IN
  /\ t.inst \in Instance
  /\ \/ /\ t.goal \in {"approved", "rejected"}
        /\ t.order \in Order /\ t.user \in User
        /\ appr[t.inst][t.order][t.user] = "pending"
     \/ t.pc = "instHeld" /\ t.goal = "cancelled" /\ t.order = 0

(* ... the instance it holds stays open, ...                                  *)
OwnInstanceOpen(s) == tx[s].pc \in {"instHeld", "counted"} => IsOpen(tx[s].inst)

(* ... no two transactions hold the same row, ...                             *)
LocksExclusive(s, t) ==
  /\ \A i \in Instance : ~(HoldsInst(s, i) /\ HoldsInst(t, i))
  /\ \A i \in Instance, o \in Order, u \in User :
       ~(HoldsRow(s, i, o, u) /\ HoldsRow(t, i, o, u))

(* ... and what an approval counted stays true until it commits.              *)
CountStands(s) ==
  LET t == tx[s] IN
  /\ t.goal = "approved"
  /\ t.last <=> \A u \in User \ {t.user} : appr[t.inst][t.order][u] # "pending"

LockDiscipline ==
  /\ \A s \in Session : Locking(s) => OwnRowPending(s)
  /\ \A s \in Session : OwnInstanceOpen(s)
  /\ \A s, t \in Session : s # t => LocksExclusive(s, t)
  /\ \A s \in Session : tx[s].pc = "counted" => CountStands(s)

(* An instance that does not exist yet has no rows.                           *)
NoRowsBeforeStart ==
  \A i \in Instance : status[i] = "none" =>
    \A o \in Order, u \in User : appr[i][o][u] = "none"

EngineInvariant ==
  /\ TypeOK
  /\ LockDiscipline
  /\ NoRowsBeforeStart
  /\ NoPendingWhenDecided
  /\ OpenHasVoter
  /\ StepsInOrder

(* The promise of the engine to its callers.                                  *)
Verdicts == INSTANCE ApprovalVerdict WITH
  verdict <- [i \in Instance |-> IF IsOpen(i) THEN "open" ELSE status[i]]

DecidedOnce == Verdicts!VerdictSpec

(* po-approval.rules.ts:38: an open instance already exists, never open a     *)
(* second one.                                                                *)
OneOpenInstance ==
  \A i, j \in Instance : IsOpen(i) /\ IsOpen(j) => i = j
==============================================================================
