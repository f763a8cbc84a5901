----------------------------- MODULE CostingClose -----------------------------
(* The month-end close of one project: the state of its costing period, the   *)
(* close checklist with its evidence, and the exception register              *)
(* (supabase/migrations/20260807100807, 20260807090058).                      *)
(*                                                                            *)
(* Each request is one transaction at READ COMMITTED: it may lock the row it  *)
(* is about, judges what is committed, lets a trigger look at the period and  *)
(* commits.  A request that is refused changes nothing, and is left out.      *)
EXTENDS Naturals, FiniteSets

CONSTANTS Session,   \* requests that may run at the same time
          User,
          Item,      \* the required items of the checklist template
          Evidenced, \* the items that require evidence
          Exception, \* blocker exceptions, by their fingerprint
          SelfReview, \* costing_settings.allow_self_review
          Nobody, NoItem

ASSUME CloseAssumption ==
  /\ Evidenced \subseteq Item
  /\ SelfReview \in BOOLEAN
  /\ Nobody \notin User /\ NoItem \notin Item /\ Item \cap Exception = {}

VARIABLES period,     \* costing_periods.state, of the project and of its company
          item,       \* costing_checklist_items
          evidence,   \* the items with a row in costing_checklist_evidence
          exception,  \* costing_exceptions.status
          late,       \* history: exceptions first reported after the hard close
          serial,     \* history: no two requests overlapped so far
          call        \* the request each session is running

artefacts == <<item, evidence, exception, late>>
vars == <<period, item, evidence, exception, late, serial, call>>

Level == {"company", "project"}
State == {"open", "soft_locked", "hard_closed"}
(* "pending" and "open" stand for "in_progress" too: what is judged here treats *)
(* the two alike.                                                              *)
ItemStatus == {"pending", "ready_for_review", "completed", "waived"}
ExceptionStatus == {"open", "resolved", "accepted_risk"}

(* ready: whether ready_at is set; by: completed_by; reviewer: reviewed_by.   *)
ItemRow == [status : ItemStatus \cup {"absent"}, ready : BOOLEAN,
            by : User \cup {Nobody}, reviewer : User \cup {Nobody}]

Call == [pc : {"idle", "item", "link", "upsert", "resolve", "transition", "commit"},
         on : Item \cup Exception \cup Level \cup {NoItem}, by : User \cup {Nobody},
         to : ItemStatus \cup ExceptionStatus \cup State \cup {"none", "linked", "unlinked"},
         seen : ExceptionStatus \cup {"absent"}]

Idle == [pc |-> "idle", on |-> NoItem, by |-> Nobody, to |-> "none", seen |-> "absent"]

TypeOK ==
  /\ period \in [Level -> State]
  /\ item \in [Item -> ItemRow]
  /\ evidence \subseteq Item
  /\ exception \in [Exception -> ExceptionStatus \cup {"absent"}]
  /\ late \subseteq Exception
  /\ serial \in BOOLEAN
  /\ call \in [Session -> Call]

------------------------------------------------------------------------------
(* costing_period_state, the stricter of the two, which the triggers read.    *)
HardClosed == \E l \in Level : period[l] = "hard_closed"

(* A transaction that holds the row for update.                               *)
Locked(row) ==
  \E t \in Session :
    /\ call[t].on = row
    /\ \/ call[t].pc \in {"item", "resolve", "transition"}
       \/ call[t].pc = "commit" /\ call[t].to \notin {"linked", "unlinked"}

Begin(s, c) ==
  /\ call[s] = Idle
  /\ call' = [call EXCEPT ![s] = c]
  /\ serial' = (serial /\ \A t \in Session : call[t] = Idle)

Goto(s, pc) ==
  /\ call' = [call EXCEPT ![s].pc = pc]
  /\ UNCHANGED serial

End(s) ==
  /\ call' = [call EXCEPT ![s] = Idle]
  /\ UNCHANGED serial

Init ==
  /\ period = [l \in Level |-> "open"]
  /\ item = [i \in Item |-> [status |-> "absent", ready |-> FALSE, by |-> Nobody, reviewer |-> Nobody]]
  /\ evidence = {} /\ late = {}
  /\ exception = [x \in Exception |-> "absent"]
  /\ serial = TRUE
  /\ call = [s \in Session |-> Idle]

------------------------------------------------------------------------------
(* ensure_costing_checklist: items that exist are left alone.                 *)
Checklist == [i \in Item |-> IF item[i].status = "absent" THEN [item[i] EXCEPT !.status = "pending"]
                             ELSE item[i]]

EnsureChecklist(s) ==
  /\ call[s] = Idle
  /\ item' = Checklist
  /\ UNCHANGED <<period, evidence, exception, late, serial, call>>

(* An item is completed with evidence, by another user than the one who said  *)
(* that it is ready.                                                          *)
MayComplete(u, i) ==
  i \in Evidenced =>
    /\ i \in evidence
    /\ ~SelfReview /\ item[i].ready => u # item[i].by

(* Mutant: the item is read without locking it.                               *)
ItemReadUnlocked(s, u, i, to) ==
  /\ item[i].status # "absent"
  /\ to = "completed" => MayComplete(u, i)
  /\ Begin(s, [Idle EXCEPT !.pc = "item", !.on = i, !.by = u, !.to = to])
  /\ UNCHANGED <<period, artefacts>>

(* update_costing_checklist_item locks the item and judges the change, ...    *)
ItemRead(s, u, i, to) ==
  /\ item[i].status # "absent" /\ ~Locked(i)
  /\ to = "completed" => MayComplete(u, i)
  /\ Begin(s, [Idle EXCEPT !.pc = "item", !.on = i, !.by = u, !.to = to])
  /\ UNCHANGED <<period, artefacts>>

(* ... its trigger finds the period not hard closed, as every change of an    *)
(* artefact but a new exception requires, ...                                 *)
Guarded(s) ==
  /\ call[s].pc \in {"item", "resolve", "link"}
  /\ ~HardClosed
  /\ Goto(s, "commit")
  /\ UNCHANGED <<period, artefacts>>

(* ... and the change is committed.                                           *)
ItemCommit(s) ==
  /\ call[s].pc = "commit" /\ call[s].on \in Item /\ call[s].to \in ItemStatus
  /\ LET to == call[s].to u == call[s].by IN
     item' = [item EXCEPT ![call[s].on] =
       [status |-> to,
        ready |-> @.ready \/ to = "ready_for_review",
        by |-> IF to = "ready_for_review" \/ (to = "completed" /\ @.by = Nobody) THEN u ELSE @.by,
        reviewer |-> IF to = "completed" THEN u ELSE @.reviewer]]
  /\ End(s)
  /\ UNCHANGED <<period, evidence, exception, late>>

------------------------------------------------------------------------------
(* linkEvidence and unlinkEvidence: one row is inserted or deleted, under the *)
(* guard; unlinked stands for an item whose last document is taken away.      *)
EvidenceRead(s, i, to) ==
  /\ item[i].status # "absent"
  /\ Begin(s, [Idle EXCEPT !.pc = "link", !.on = i, !.to = to])
  /\ UNCHANGED <<period, artefacts>>

(* The new row's foreign key waits for a transaction that holds the item.     *)
EvidenceCommit(s) ==
  /\ call[s].pc = "commit" /\ call[s].to \in {"linked", "unlinked"}
  /\ call[s].to = "linked" => ~Locked(call[s].on)
  /\ evidence' = IF call[s].to = "linked" THEN evidence \cup {call[s].on} ELSE evidence \ {call[s].on}
  /\ End(s)
  /\ UNCHANGED <<period, item, exception, late>>

------------------------------------------------------------------------------
(* upsert_costing_exception reads the exception, unlocked; ...                *)
UpsertRead(s, x) ==
  /\ Begin(s, [Idle EXCEPT !.pc = "upsert", !.on = x, !.seen = exception[x]])
  /\ UNCHANGED <<period, artefacts>>

(* ... a new one is inserted, whatever the period's state, unless another     *)
(* request inserted it since, ...                                             *)
UpsertInsert(s) ==
  /\ call[s].pc = "upsert" /\ call[s].seen = "absent"
  /\ LET x == call[s].on new == exception[x] = "absent" IN
     /\ exception' = IF new THEN [exception EXCEPT ![x] = "open"] ELSE exception
     /\ late' = IF new /\ period["project"] = "hard_closed" THEN late \cup {x} ELSE late
  /\ End(s)
  /\ UNCHANGED <<period, item, evidence>>

(* ... and one that was resolved when it was read is opened again.            *)
UpsertUpdate(s) ==
  /\ call[s].pc = "upsert" /\ call[s].seen # "absent"
  /\ ~Locked(call[s].on) /\ ~HardClosed
  /\ exception' = IF call[s].seen = "resolved" THEN [exception EXCEPT ![call[s].on] = "open"]
                  ELSE exception
  /\ End(s)
  /\ UNCHANGED <<period, item, evidence, late>>

(* resolve_costing_exception locks the exception, passes the guard, commits.  *)
ResolveRead(s, x, to) ==
  /\ exception[x] # "absent" /\ ~Locked(x)
  /\ Begin(s, [Idle EXCEPT !.pc = "resolve", !.on = x, !.to = to])
  /\ UNCHANGED <<period, artefacts>>

ResolveCommit(s) ==
  /\ call[s].pc = "commit" /\ call[s].to \in ExceptionStatus
  /\ exception' = [exception EXCEPT ![call[s].on] = call[s].to]
  /\ End(s)
  /\ UNCHANGED <<period, item, evidence, late>>

------------------------------------------------------------------------------
(* Mutant: evidence that was taken away again is not missed.                  *)
BlockedByStatus ==
  \/ \E i \in Item : item[i].status \in {"pending", "ready_for_review"}
  \/ \E x \in Exception : exception[x] = "open"

(* costing_close_blockers.                                                    *)
Blocked ==
  \/ \E i \in Item : item[i].status \in {"pending", "ready_for_review"}
  \/ \E i \in Evidenced : item[i].status = "completed" /\ i \notin evidence
  \/ \E x \in Exception : exception[x] = "open"

(* transition_costing_period locks the period's row and judges the change;    *)
(* the hard close of the project asks for the blockers, once, ...             *)
TransitionRead(s, l, to) ==
  /\ ~Locked(l)
  /\ <<period[l], to>> \in {<<"open", "soft_locked">>, <<"soft_locked", "hard_closed">>,
                            <<"soft_locked", "open">>, <<"hard_closed", "open">>}
  /\ l = "project" /\ to = "hard_closed" => ~Blocked
  /\ Begin(s, [Idle EXCEPT !.pc = "transition", !.on = l, !.to = to])
  /\ UNCHANGED <<period, artefacts>>

(* ... and commits; a soft lock of the project makes its checklist.           *)
TransitionCommit(s) ==
  /\ call[s].pc = "transition"
  /\ period' = [period EXCEPT ![call[s].on] = call[s].to]
  /\ item' = IF call[s].on = "project" /\ call[s].to = "soft_locked" THEN Checklist ELSE item
  /\ late' = IF call[s].on = "project" THEN {} ELSE late
  /\ End(s)
  /\ UNCHANGED <<evidence, exception>>

(* A transaction is refused, or stops, and is rolled back.                    *)
Rollback(s) ==
  /\ call[s] # Idle
  /\ End(s)
  /\ UNCHANGED <<period, artefacts>>

------------------------------------------------------------------------------
Start(s) ==
  \/ \E u \in User, i \in Item, to \in ItemStatus : ItemRead(s, u, i, to)
  \/ \E i \in Item, to \in {"linked", "unlinked"} : EvidenceRead(s, i, to)
  \/ \E x \in Exception : UpsertRead(s, x) \/ \E to \in ExceptionStatus : ResolveRead(s, x, to)
  \/ \E l \in Level, to \in State : TransitionRead(s, l, to)
  \/ EnsureChecklist(s)

Commit(s) ==
  \/ ItemCommit(s) \/ EvidenceCommit(s) \/ UpsertInsert(s) \/ UpsertUpdate(s)
  \/ ResolveCommit(s) \/ TransitionCommit(s)

Next == \E s \in Session : Start(s) \/ Guarded(s) \/ Commit(s) \/ Rollback(s)

Spec == Init /\ [][Next]_vars

------------------------------------------------------------------------------
(* A month that is hard closed is complete: every required item completed or  *)
(* waived, with its evidence, no exception open but those that were found     *)
(* afterwards (20260807100807, line 741: the hard close re-evaluates every    *)
(* close artefact; close artefacts are immutable once the period is closed).  *)
ClosedIsComplete ==
  period["project"] = "hard_closed" =>
    /\ \A i \in Item : item[i].status \in {"completed", "waived"}
    /\ \A i \in Evidenced : item[i].status = "completed" => i \in evidence
    /\ \A x \in Exception : exception[x] = "open" => x \in late

(* The same while no two requests overlapped, through reopenings, evidence    *)
(* taken away, exceptions that come back and closes of the whole company.     *)
ClosedIsCompleteSerially == serial => ClosedIsComplete

(* Segregation of duties (line 503): of a completed item that needs evidence  *)
(* and was once made ready, the reviewer is not the one who prepared it,      *)
(* however requests for the item overlap.                                     *)
ReviewedByAnother ==
  \A i \in Evidenced :
    ~SelfReview /\ item[i].status = "completed" /\ item[i].ready => item[i].reviewer # item[i].by
==============================================================================
