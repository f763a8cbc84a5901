----------------------------- MODULE OfflineSync -----------------------------
(* Work saved in the field without a connection.  The browser keeps a save in *)
(* an IndexedDB queue that every open tab drains (lib/offline); the server    *)
(* function runs under withIdempotency, which keeps one row of the table      *)
(* offline_queue, the mirror, for each idempotency key (offline-mirror.ts).   *)
(*                                                                            *)
(* A key is the save's place in createdAt order.  A request lives on its own: *)
(* it goes on when the tab that sent it has given up or is closed.  Photos    *)
(* are left out: no caller queues any.  Every queued action has a dispatcher. *)
EXTENDS Integers, FiniteSets, FiniteSetsExt

CONSTANTS Key,
          Tab,
          Req,     \* requests that may be under way at once
          Faulty,  \* answers get lost while the request runs, servers die
          NoReq

ASSUME OfflineAssumption ==
  /\ Key \subseteq Nat \ {0} /\ Key # {}
  /\ Faulty \in BOOLEAN
  /\ NoReq \notin Req

VARIABLES local,   \* the queue of the browser: the status of each save
          tab,     \* syncQueue in each tab
          req,     \* the requests at the server
          mirror,  \* the status of the mirror row of each key
          applied, \* how often the save was carried out, counted up to 2
          last,    \* the save carried out last, 0 at first
          doubtful \* history: the saves whose work somebody could not tell
                   \* from the mirror (Lookup, MarkSynced, Die)

offlineVars == <<local, tab, req, mirror, applied, last, doubtful>>

LocalStatus == {"new", "pending", "syncing", "synced", "failed", "discarded"}

IdleTab == [pc |-> "idle", todo |-> {}, cur |-> 0, req |-> NoReq]

Free == [pc |-> "free", key |-> 0, found |-> FALSE]

OfflineTypeOK ==
  /\ local \in [Key -> LocalStatus]
  /\ tab \in [Tab -> [pc: {"idle", "draining", "posting"}, todo: SUBSET Key,
                      cur: Key \cup {0}, req: Req \cup {NoReq}]]
  /\ req \in [Req -> [pc: {"free", "lookup", "mark", "work", "settle", "fail", "done", "error"},
                      key: Key \cup {0}, found: BOOLEAN]]
  /\ mirror \in [Key -> {"none", "pending", "synced", "failed"}]
  /\ applied \in [Key -> 0..2]
  /\ last \in Key \cup {0}
  /\ doubtful \subseteq Key

OfflineInit ==
  /\ local = [k \in Key |-> "new"]
  /\ tab = [t \in Tab |-> IdleTab]
  /\ req = [r \in Req |-> Free]
  /\ mirror = [k \in Key |-> "none"]
  /\ applied = [k \in Key |-> 0]
  /\ last = 0
  /\ doubtful = {}

Arrive(k) == [Free EXCEPT !.pc = "lookup", !.key = k]

(* patchMutation: nothing happens when the save is no longer in the store.    *)
Patch(k, status) ==
  local' = IF local[k] = "discarded" THEN local ELSE [local EXCEPT ![k] = status]

------------------------------------------------------------------------------
(* The browser.                                                               *)

(* A save whose request gets no answer is queued under the key it was sent    *)
(* with; the request may be at the server all the same.                       *)
Enqueue(k) ==
  /\ local[k] = "new" /\ \A j \in Key : j < k => local[j] # "new"
  /\ local' = [local EXCEPT ![k] = "pending"]
  /\ \/ UNCHANGED req
     \/ Faulty /\ \E r \in Req : req[r] = Free /\ req' = [req EXCEPT ![r] = Arrive(k)]
  /\ UNCHANGED <<tab, mirror, applied, last, doubtful>>

(* syncQueue reads the pending saves once; "syncing" is a flag of the tab.    *)
Start(t) ==
  /\ tab[t].pc = "idle"
  /\ \E k \in Key : local[k] = "pending"
  /\ tab' = [tab EXCEPT ![t] = [IdleTab EXCEPT !.pc = "draining",
                                               !.todo = {k \in Key : local[k] = "pending"}]]
  /\ UNCHANGED <<local, req, mirror, applied, last, doubtful>>

(* The oldest save of those the tab has still to send.                        *)
Oldest(S) == Min(S)

(* The save is marked and its request sent.                                   *)
Send(t) ==
  LET k == Oldest(tab[t].todo) IN
  /\ tab[t].pc = "draining" /\ tab[t].todo # {}
  /\ Patch(k, "syncing")
  /\ \E r \in Req :
       /\ req[r] = Free
       /\ req' = [req EXCEPT ![r] = Arrive(k)]
       /\ tab' = [tab EXCEPT ![t] = [pc |-> "posting", todo |-> @.todo \ {k},
                                     cur |-> k, req |-> r]]
  /\ UNCHANGED <<mirror, applied, last, doubtful>>

NextSave(t) == [tab EXCEPT ![t].pc = "draining", ![t].cur = 0, ![t].req = NoReq]

(* Mutant: every answer counts as success.                                    *)
AnswerUnread(t) ==
  LET r == tab[t].req IN
  /\ tab[t].pc = "posting" /\ req[r].pc \in {"done", "error"}
  /\ Patch(tab[t].cur, "synced")
  /\ req' = [req EXCEPT ![r] = Free]
  /\ tab' = NextSave(t)
  /\ UNCHANGED <<mirror, applied, last, doubtful>>

(* classifyError: an error is transient (the save is pending again) or not.   *)
Answer(t) ==
  LET r == tab[t].req IN
  /\ tab[t].pc = "posting"
  /\ \/ req[r].pc = "done" /\ Patch(tab[t].cur, "synced")
     \/ req[r].pc = "error" /\ \E s \in {"pending", "failed"} : Patch(tab[t].cur, s)
  /\ req' = [req EXCEPT ![r] = Free]
  /\ tab' = NextSave(t)
  /\ UNCHANGED <<mirror, applied, last, doubtful>>

(* The tab sees a network error; the request has ended, or goes on.           *)
LoseAnswer(t) ==
  /\ tab[t].pc = "posting"
  /\ Faulty \/ req[tab[t].req].pc \in {"done", "error"}
  /\ Patch(tab[t].cur, "pending")
  /\ tab' = NextSave(t)
  /\ UNCHANGED <<req, mirror, applied, last, doubtful>>

FinishTab(t) ==
  /\ tab[t].pc = "draining" /\ tab[t].todo = {}
  /\ tab' = [tab EXCEPT ![t] = IdleTab]
  /\ UNCHANGED <<local, req, mirror, applied, last, doubtful>>

(* The tab is closed, or reloaded, in the middle of its work.                 *)
Close(t) ==
  /\ Faulty /\ tab[t].pc # "idle"
  /\ tab' = [tab EXCEPT ![t] = IdleTab]
  /\ UNCHANGED <<local, req, mirror, applied, last, doubtful>>

(* The buttons of the sync page; Retry is offered unless the save is synced.  *)
Retry(k) ==
  /\ local[k] \in {"pending", "syncing", "failed"}
  /\ local' = [local EXCEPT ![k] = "pending"]
  /\ UNCHANGED <<tab, req, mirror, applied, last, doubtful>>

Discard(k) ==
  /\ local[k] \notin {"new", "discarded"}
  /\ local' = [local EXCEPT ![k] = "discarded"]
  /\ UNCHANGED <<tab, req, mirror, applied, last, doubtful>>

------------------------------------------------------------------------------
(* The server: withIdempotency.                                               *)

(* A request that has a mirror row and may still carry out save k or write    *)
(* what became of it.                                                         *)
AtWork(r, k) ==
  /\ req[r].key = k
  /\ req[r].pc \in {"work", "settle", "fail"} \/ (req[r].pc = "mark" /\ req[r].found)

(* A synced mirror row answers the call with the result it holds.  A row that *)
(* another request is still at work for looks like one that is to be redone.  *)
Lookup(r) ==
  LET k == req[r].key
      redo == mirror[k] \in {"pending", "failed"} IN
  /\ req[r].pc = "lookup"
  /\ req' = [req EXCEPT ![r].pc = IF mirror[k] = "synced" THEN "done" ELSE "mark",
                        ![r].found = mirror[k] # "none"]
  /\ doubtful' = IF redo /\ \E o \in Req : AtWork(o, k) THEN doubtful \cup {k} ELSE doubtful
  /\ UNCHANGED <<local, tab, mirror, applied, last>>

(* Mutant: nothing stops two rows of one key.                                 *)
MarkPendingTwice(r) ==
  /\ req[r].pc = "mark"
  /\ req' = [req EXCEPT ![r].pc = "work"]
  /\ mirror' = [mirror EXCEPT ![req[r].key] = "pending"]
  /\ UNCHANGED <<local, tab, applied, last, doubtful>>

(* The row is updated if one was found, else inserted: the key is unique.     *)
MarkPending(r) ==
  LET k == req[r].key IN
  /\ req[r].pc = "mark"
  /\ IF ~req[r].found /\ mirror[k] # "none"
     THEN req' = [req EXCEPT ![r].pc = "error"] /\ UNCHANGED mirror
     ELSE req' = [req EXCEPT ![r].pc = "work"] /\ mirror' = [mirror EXCEPT ![k] = "pending"]
  /\ UNCHANGED <<local, tab, applied, last, doubtful>>

DoWork(r) ==
  LET k == req[r].key IN
  /\ req[r].pc = "work"
  /\ req' = [req EXCEPT ![r].pc = "settle"]
  /\ applied' = [applied EXCEPT ![k] = IF @ < 2 THEN @ + 1 ELSE @]
  /\ last' = k
  /\ UNCHANGED <<local, tab, mirror, doubtful>>

RefuseWork(r) ==
  /\ req[r].pc = "work"
  /\ req' = [req EXCEPT ![r].pc = "fail"]
  /\ UNCHANGED <<local, tab, mirror, applied, last, doubtful>>

(* Nobody looks at the error of this update.                                  *)
MarkSynced(r) ==
  /\ req[r].pc = "settle"
  /\ req' = [req EXCEPT ![r].pc = "done"]
  /\ \/ mirror' = [mirror EXCEPT ![req[r].key] = "synced"] /\ UNCHANGED doubtful
     \/ Faulty /\ UNCHANGED mirror /\ doubtful' = doubtful \cup {req[r].key}
  /\ UNCHANGED <<local, tab, applied, last>>

(* Mutant: a refused call is settled like one that succeeded.                 *)
MarkFailedSynced(r) ==
  /\ req[r].pc = "fail"
  /\ req' = [req EXCEPT ![r].pc = "error"]
  /\ mirror' = [mirror EXCEPT ![req[r].key] = "synced"]
  /\ UNCHANGED <<local, tab, applied, last, doubtful>>

MarkFailed(r) ==
  /\ req[r].pc = "fail"
  /\ req' = [req EXCEPT ![r].pc = "error"]
  /\ mirror' = [mirror EXCEPT ![req[r].key] = "failed"]
  /\ UNCHANGED <<local, tab, applied, last, doubtful>>

(* The server process dies; the tab, if it still waits, sees an error.        *)
Die(r) ==
  /\ Faulty /\ req[r].pc \notin {"free", "done", "error"}
  /\ req' = [req EXCEPT ![r].pc = "error"]
  /\ doubtful' = IF req[r].pc = "settle" THEN doubtful \cup {req[r].key} ELSE doubtful
  /\ UNCHANGED <<local, tab, mirror, applied, last>>

(* The answer of a request nobody waits for.                                  *)
Drop(r) ==
  /\ req[r].pc \in {"done", "error"}
  /\ \A t \in Tab : tab[t].req # r
  /\ req' = [req EXCEPT ![r] = Free]
  /\ UNCHANGED <<local, tab, mirror, applied, last, doubtful>>

ServerStep(r) ==
  \/ Lookup(r) \/ MarkPending(r) \/ DoWork(r) \/ RefuseWork(r)
  \/ MarkSynced(r) \/ MarkFailed(r) \/ Drop(r)

OfflineNext ==
  \/ \E k \in Key : Enqueue(k) \/ Retry(k) \/ Discard(k)
  \/ \E t \in Tab : Start(t) \/ Send(t) \/ Answer(t) \/ LoseAnswer(t) \/ FinishTab(t) \/ Close(t)
  \/ \E r \in Req : ServerStep(r) \/ Die(r)

OfflineSpec == OfflineInit /\ [][OfflineNext]_offlineVars

(* The tab drains the queue every minute and on events, a request ends, and   *)
(* neither the network nor the server refuses a save for ever.                *)
OfflineFairness ==
  /\ \A t \in Tab : WF_offlineVars(Start(t)) /\ WF_offlineVars(Send(t)) /\ WF_offlineVars(FinishTab(t))
                    /\ SF_offlineVars(Answer(t))
  /\ \A r \in Req : WF_offlineVars(ServerStep(r))
  /\ \A r \in Req, k \in Key : SF_offlineVars(req[r].key = k /\ DoWork(r))

OfflineFairSpec == OfflineSpec /\ OfflineFairness

------------------------------------------------------------------------------
(* What the field user is told: a save shown as synced was carried out, for   *)
(* all the tabs, lost answers and dead servers in between.                    *)
SyncedWasApplied == \A k \in Key : local[k] = "synced" => applied[k] >= 1

(* The mirror row answers later calls: it may not claim work that was never   *)
(* done.                                                                      *)
MirrorIsTrue == \A k \in Key : mirror[k] = "synced" => applied[k] >= 1

(* "retries from the offline queue produce zero duplicate rows"               *)
(* (offline-mirror.ts:3), as far as the code keeps it: for all the tabs, lost *)
(* answers, late requests and dead servers, a save is carried out again only  *)
(* if a request found its row unsettled while another one was at work for it, *)
(* or the row was not told of work that was done.                             *)
AppliedOnceUnlessInDoubt == \A k \in Key \ doubtful : applied[k] <= 1

(* The same without the reservation.                                          *)
AppliedOnce == \A k \in Key : applied[k] <= 1

(* A save shown as synced is not sent again, as long as one tab drains.       *)
SyncedStays ==
  [][\A k \in Key : local[k] = "synced" => local'[k] \in {"synced", "discarded"}]_offlineVars

(* When all saves of a record are synced the one made last stands.            *)
LatestSaveStands == (\A k \in Key : local[k] = "synced") => last = Max(Key)

(* A queued save is synced, failed or discarded in the end.                   *)
SavesSettled ==
  \A k \in Key : local[k] = "pending" ~> local[k] \in {"synced", "failed", "discarded"}
==============================================================================
