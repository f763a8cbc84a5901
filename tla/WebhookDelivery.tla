--------------------------- MODULE WebhookDelivery ---------------------------
(* Outbound webhooks: emitWebhookEvent queues a row of webhook_deliveries for *)
(* each subscribed endpoint, and the cron route webhook-dispatch posts the    *)
(* queued rows, records the outcome and schedules retries; endpoints are      *)
(* created, paused and deleted by webhooks.functions.ts meanwhile.            *)
(*                                                                            *)
(* A run of the route lasts up to BATCH_SIZE requests of ten seconds and the  *)
(* route starts every five minutes, so runs overlap.  next_retry_at is the    *)
(* place of a row in the queue of due rows; a row put off joins it again when *)
(* its time comes (RetryDue).  Rotating a secret is left out.                 *)
EXTENDS Integers, FiniteSets, SequencesExt

CONSTANTS Dispatch,     \* runs of the route that may overlap
          Stopped,      \* runs that may be stopped by the platform
          Delivery, Endpoint,
          Managed,      \* endpoints an administrator is working on; the others
                        \* were set up before and stay active
          To,           \* To[d]: the endpoint delivery d is for
          BatchSize,    \* BATCH_SIZE
          MaxPosts      \* MAX_ATTEMPTS

ASSUME WebhookAssumption ==
  /\ Stopped \subseteq Dispatch /\ Managed \subseteq Endpoint
  /\ To \in [Delivery -> Endpoint]
  /\ BatchSize \in Nat \ {0} /\ MaxPosts \in Nat \ {0}

VARIABLES row,      \* webhook_deliveries
          queue,    \* the due rows, in the order of next_retry_at
          ep,       \* webhook_endpoints with their secrets
          dispatch, \* the runs of the route
          sent,     \* requests made for a delivery, counted up to MaxPosts + 1
          got       \* the subscriber accepted the delivery

webhookVars == <<row, queue, ep, dispatch, sent, got>>

EpState == {"absent", "unsigned", "active", "paused", "deleted"}

DeliveryRow == [status: {"none", "pending", "success", "failed", "deleted"},
                attempts: 0..MaxPosts, unsigned: BOOLEAN]

NoRow == [status |-> "none", attempts |-> 0, unsigned |-> FALSE]

(* todo: the rows as read that the run has still to work on, the first one    *)
(* being sent; eps: their endpoints as read; ok: how the request went.        *)
Read == [id: Delivery, attempts: 0..MaxPosts - 1]

DispatchState == [pc: {"idle", "claimed", "working", "answered"}, todo: SeqOf(Read, BatchSize),
                  eps: [Endpoint -> EpState], ok: BOOLEAN]

NoEndpoints == [e \in Endpoint |-> "absent"]

NoDispatch == [pc |-> "idle", todo |-> <<>>, eps |-> NoEndpoints, ok |-> FALSE]

WebhookTypeOK ==
  /\ row \in [Delivery -> DeliveryRow]
  /\ queue \in SeqOf({d \in Delivery : row[d].status = "pending"}, Cardinality(Delivery))
  /\ IsInjective(queue)
  /\ ep \in [Endpoint -> EpState]
  /\ dispatch \in [Dispatch -> DispatchState]
  /\ sent \in [Delivery -> 0..MaxPosts + 1]
  /\ got \in [Delivery -> BOOLEAN]

------------------------------------------------------------------------------
(* The sequence s without the members of T.                                   *)
Without(s, T) ==
  LET kept[i \in 0..Len(s)] ==
        IF i = 0 THEN <<>>
        ELSE IF s[i] \in T THEN kept[i - 1] ELSE Append(kept[i - 1], s[i])
  IN  kept[Len(s)]

(* "update ... where id = d", which finds no row once the endpoint is deleted. *)
(* Every update of the route moves or clears next_retry_at.                   *)
Update(d, new) ==
  /\ row' = IF row[d].status = "deleted" THEN row ELSE [row EXCEPT ![d] = new]
  /\ queue' = Without(queue, {d})

WebhookInit ==
  /\ row = [d \in Delivery |-> NoRow]
  /\ queue = <<>>
  /\ ep = [e \in Endpoint |-> IF e \in Managed THEN "absent" ELSE "active"]
  /\ dispatch = [w \in Dispatch |-> NoDispatch]
  /\ sent = [d \in Delivery |-> 0]
  /\ got = [d \in Delivery |-> FALSE]

------------------------------------------------------------------------------
(* createWebhookEndpoint inserts the endpoint, and its secret in a later      *)
(* request; if that fails the endpoint is deleted again.                      *)
CreateEndpoint(e) ==
  /\ ep[e] = "absent"
  /\ ep' = [ep EXCEPT ![e] = "unsigned"]
  /\ UNCHANGED <<row, queue, dispatch, sent, got>>

StoreSecret(e) ==
  /\ ep[e] = "unsigned"
  /\ ep' = [ep EXCEPT ![e] = "active"]
  /\ UNCHANGED <<row, queue, dispatch, sent, got>>

SetActive(e) ==
  /\ ep[e] \in {"active", "paused"}
  /\ ep' = [ep EXCEPT ![e] = IF @ = "active" THEN "paused" ELSE "active"]
  /\ UNCHANGED <<row, queue, dispatch, sent, got>>

(* Deleting an endpoint deletes its secret and its deliveries.                *)
DeleteEndpoint(e) ==
  /\ ep[e] \in {"unsigned", "active", "paused"}
  /\ ep' = [ep EXCEPT ![e] = "deleted"]
  /\ row' = [d \in Delivery |-> IF To[d] = e /\ row[d].status # "none"
                                THEN [NoRow EXCEPT !.status = "deleted"] ELSE row[d]]
  /\ queue' = Without(queue, {d \in Delivery : To[d] = e})
  /\ UNCHANGED <<dispatch, sent, got>>

Emit(d) ==
  /\ row[d].status = "none"
  /\ ep[To[d]] \in {"unsigned", "active"}
  /\ row' = [row EXCEPT ![d].status = "pending"]
  /\ queue' = Append(queue, d)
  /\ UNCHANGED <<ep, dispatch, sent, got>>

(* The retry time of a delivery arrives.                                      *)
RetryDue(d) ==
  /\ row[d].status = "pending" /\ ~Contains(queue, d)
  /\ queue' = Append(queue, d)
  /\ UNCHANGED <<row, ep, dispatch, sent, got>>

------------------------------------------------------------------------------
(* The first n of the due rows s, as the run reads them.                      *)
Batched(s) ==
  [i \in 1..Min({BatchSize, Len(s)}) |-> [id |-> s[i], attempts |-> row[s[i]].attempts]]

(* Mutant: the rows due last are read first.                                  *)
ClaimNewest(w) ==
  /\ dispatch[w].pc = "idle" /\ queue # <<>>
  /\ dispatch' = [dispatch EXCEPT ![w] =
                    [NoDispatch EXCEPT !.pc = "claimed", !.todo = Batched(Reverse(queue))]]
  /\ UNCHANGED <<row, queue, ep, sent, got>>

(* The route reads at most BATCH_SIZE due rows, oldest first; nothing marks   *)
(* them as taken.                                                             *)
ClaimBatch(w) ==
  /\ dispatch[w].pc = "idle" /\ queue # <<>>
  /\ dispatch' = [dispatch EXCEPT ![w] =
                    [NoDispatch EXCEPT !.pc = "claimed", !.todo = Batched(queue)]]
  /\ UNCHANGED <<row, queue, ep, sent, got>>

(* One query each for the endpoints and the secrets of the whole batch.       *)
Load(w) ==
  /\ dispatch[w].pc = "claimed"
  /\ dispatch' = [dispatch EXCEPT ![w].pc = "working",
                    ![w].eps = [e \in Endpoint |-> IF \E i \in DOMAIN dispatch[w].todo :
                                  To[dispatch[w].todo[i].id] = e THEN ep[e] ELSE "absent"]]
  /\ UNCHANGED <<row, queue, ep, sent, got>>

Current(w) == Head(dispatch[w].todo)

(* The run is at a row whose endpoint, as read, is in one of these states.    *)
At(w, states) ==
  /\ dispatch[w].pc = "working" /\ dispatch[w].todo # <<>>
  /\ dispatch[w].eps[To[Current(w).id]] \in states

NextRow(w) ==
  dispatch' = [dispatch EXCEPT ![w].pc = "working", ![w].todo = Tail(@), ![w].ok = FALSE]

(* Without an endpoint or a secret there is nothing to send.                  *)
FailUnsigned(w) ==
  /\ At(w, {"absent", "unsigned", "deleted"})
  /\ Update(Current(w).id, [status |-> "failed", attempts |-> Current(w).attempts + 1,
                            unsigned |-> TRUE])
  /\ NextRow(w)
  /\ UNCHANGED <<ep, sent, got>>

(* Mutant: putting a delivery off counts as an attempt.                       *)
PostponeCounts(w) ==
  LET d == Current(w).id IN
  /\ At(w, {"paused"})
  /\ Update(d, [row[d] EXCEPT !.attempts = IF @ + 1 < MaxPosts THEN @ + 1 ELSE @])
  /\ NextRow(w)
  /\ UNCHANGED <<ep, sent, got>>

(* A paused endpoint's delivery stays as it is and is put off.                *)
Postpone(w) ==
  LET d == Current(w).id IN
  /\ At(w, {"paused"})
  /\ Update(d, row[d])
  /\ NextRow(w)
  /\ UNCHANGED <<ep, sent, got>>

(* The request: the subscriber accepts it or not, and an acceptance may come  *)
(* too late to be seen.                                                       *)
Post(w, accepted, ok) ==
  LET d == Current(w).id IN
  /\ At(w, {"active"})
  /\ ok => accepted
  /\ dispatch' = [dispatch EXCEPT ![w].pc = "answered", ![w].ok = ok]
  /\ sent' = [sent EXCEPT ![d] = IF @ > MaxPosts THEN @ ELSE @ + 1]
  /\ got' = [got EXCEPT ![d] = @ \/ accepted]
  /\ UNCHANGED <<row, queue, ep>>

(* Mutant: one attempt too few.                                               *)
OutcomeEarly(n, ok) ==
  IF ok THEN "success" ELSE IF n >= MaxPosts - 1 THEN "failed" ELSE "pending"

(* The status after attempt n.                                                *)
Outcome(n, ok) ==
  IF ok THEN "success" ELSE IF n >= MaxPosts THEN "failed" ELSE "pending"

(* The outcome is written over whatever the row has become.                   *)
Record(w) ==
  LET n == Current(w).attempts + 1 IN
  /\ dispatch[w].pc = "answered"
  /\ Update(Current(w).id, [status |-> Outcome(n, dispatch[w].ok), attempts |-> n,
                            unsigned |-> FALSE])
  /\ NextRow(w)
  /\ UNCHANGED <<ep, sent, got>>

FinishDispatch(w) ==
  /\ dispatch[w].pc = "working" /\ dispatch[w].todo = <<>>
  /\ dispatch' = [dispatch EXCEPT ![w] = NoDispatch]
  /\ UNCHANGED <<row, queue, ep, sent, got>>

(* The platform stops the run, between a request and its record included.     *)
StopDispatch(w) ==
  /\ dispatch[w].pc # "idle"
  /\ dispatch' = [dispatch EXCEPT ![w] = NoDispatch]
  /\ UNCHANGED <<row, queue, ep, sent, got>>

Work(w) ==
  \/ Load(w) \/ FailUnsigned(w) \/ Postpone(w) \/ Record(w) \/ FinishDispatch(w)
  \/ \E accepted, ok \in BOOLEAN : Post(w, accepted, ok)

WebhookNext ==
  \/ \E e \in Managed : CreateEndpoint(e) \/ StoreSecret(e) \/ SetActive(e) \/ DeleteEndpoint(e)
  \/ \E d \in Delivery : Emit(d) \/ RetryDue(d)
  \/ \E w \in Dispatch : ClaimBatch(w) \/ Work(w)
  \/ \E w \in Stopped : StopDispatch(w)

WebhookSpec == WebhookInit /\ [][WebhookNext]_webhookVars

(* The cron schedule keeps starting the route, a run that is not stopped goes *)
(* on, and retry times arrive.                                                *)
WebhookFairness ==
  /\ \A w \in Dispatch : WF_webhookVars(ClaimBatch(w) \/ Work(w))
  /\ \A d \in Delivery : WF_webhookVars(RetryDue(d))

WebhookFairSpec == WebhookSpec /\ WebhookFairness

------------------------------------------------------------------------------
(* A delivery is never given up before its attempts are used up, and never    *)
(* called a success unless the subscriber accepted it, although overlapping   *)
(* runs overwrite each other's attempts and the claimed rows may be deleted.  *)
GivenUpWasTried ==
  \A d \in Delivery :
    /\ row[d].status = "failed" /\ ~row[d].unsigned => sent[d] >= MaxPosts
    /\ row[d].status = "success" => got[d]

(* The attempts on record were made: a lost update can only forget some.      *)
AttemptsWereMade ==
  \A d \in Delivery : row[d].status \in {"pending", "success"} => row[d].attempts <= sent[d]

(* An event the subscriber is known to have accepted is not sent again, and   *)
(* its delivery stays a success ("Claim pending deliveries whose retry time   *)
(* has arrived", webhook-dispatch.ts:93).                                     *)
DeliveredOnce ==
  [][\A d \in Delivery : row[d].status = "success" =>
       sent'[d] = sent[d] /\ row'[d].status \in {"success", "deleted"}]_webhookVars

(* A delivery to an endpoint that stays active is settled in the end.         *)
DeliveriesSettled ==
  \A d \in Delivery :
    <>[](ep[To[d]] = "active") =>
      (row[d].status = "pending" ~> row[d].status # "pending")

==============================================================================
