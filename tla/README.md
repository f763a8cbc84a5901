# Verification of GridMind EPC

GridMind EPC is a multi-tenant ERP for engineering, procurement and construction
projects: a TanStack Start application whose server functions talk to a Postgres
database (Supabase) under row level security, with SQL functions and triggers for the
operations that must be atomic, cron routes for the work nobody waits for, and an offline
queue in the browser. This directory holds TLA+ models of the parts whose correctness
depends on the order in which concurrent requests, retries and crashes meet, the TLC runs
that check them on small instances, and TLAPS proofs about them for instances of every size.

Contents: [inventory](#inventory), [how the code is modelled](#how-the-code-is-modelled),
[modules](#modules), [runs](#runs), [what the runs refute](#what-the-runs-refute),
[further configurations](#further-configurations), [fairness](#fairness),
[proofs](#proofs), [not modelled](#not-modelled), [plan](#plan).

## Inventory

Three kinds of code act on the shared tables:

* **server functions** (`src/lib/*.functions.ts`): one HTTP call, a sequence of separate
  database requests. Other calls run between any two of them, and a call that stops
  half-way leaves what it has written;
* **SQL functions and triggers** (`supabase/migrations`): one transaction under READ
  COMMITTED, each statement of which sees what is committed when it starts, with row locks;
* **cron routes and hooks** (`src/routes/api/public`): server functions started by a
  schedule, whose runs may overlap and may be stopped by the platform.

| Part | State it keeps | Operations | What is hard | What makes it correct |
|---|---|---|---|---|
| Approval engine (migration 20260725121503, `approvals.functions.ts`) | `approval_instances`, `approvals`, `approval_rules`, `approval_chain_steps` | start, decide, cancel, escalate, edit a rule | row locks taken in different orders, two last approvers of a step, edits of the chain under open instances | decided once; never stuck; never approved past a step; no pending rows left behind |
| Purchase orders (`po.functions.ts`, `po-approval.server.ts`) | `purchase_orders.status`, `approval_instance_id` | submit, approve, reject, issue, settle | check-then-write requests; settlement in a second request whose errors are swallowed | the order mirrors its instance; only approved orders are issued |
| Goods receipts (`grn.functions.ts`) | `goods_receipts`, the order's status | create, save, confirm | quantities, numbers and status computed from earlier reads | a confirmed receipt stands; received means received; numbers are unique |
| Invoices and payments (`payments.functions.ts`, `invoices.functions.ts`, triggers) | `invoices`, `payments`, `payment_counters` | record, void, settle, approve, send | concurrent payments, lock upgrades, rollbacks after a number was drawn | the invoice agrees with its ledger and is never overpaid |
| Outbound webhooks (`emit.server.ts`, cron `webhook-dispatch`) | `webhook_deliveries`, `webhook_endpoints`, their secrets | emit, dispatch, create, pause, delete an endpoint | overlapping runs without a claim, stale attempts, stops between a request and its record | given up only after its attempts; settled in the end |
| SCADA ingestion retry (hook `scada-telemetry`, cron `ingestion-retry`) | `ingestion_retry_queue`, `ingestion_dead_letter` | park, claim, replay, requeue, dead-letter, operator replay | overlapping runs, lost answers, errors nobody reads | one replayer at a time; given up only after its attempts |
| Offline sync (`lib/offline`, `offline-mirror.ts`) | IndexedDB queue, table `offline_queue` (the mirror) | enqueue, drain, retry, discard; `withIdempotency` | tabs, lost answers, late requests, dead servers | what is shown as synced was done |
| Proposals (`proposal.functions.ts`, `esign.ts`, migration 20260728154943) | `proposals`: status, pricing lock, envelope and its history | save, submit, decide (through the engine or directly), send, void, apply an event, version | writes by id after an earlier read; events repeated, delayed, out of order; two ways to decide | the customer signs the approved price; accepted means signed |
| SCADA event actions (`scada-actions.server.ts`) | `event_action_rules`, `event_action_log` | evaluate, ask for approval, decide, settle, execute, edit a rule | execution after an approval in later requests, replays, rules edited in between, stops, stock taken before an order that fails | nothing contractual without an approval; performed once, or the repetition accounted for; the log is true; a decision is carried out |
| Sourcing (`rfq.functions.ts`, `po.functions.ts`, migration 20260728151544) | `rfq_bids`, `rfq_line_awards`, orders | submit a bid, award, unaward, generate orders | triggers that count rows other transactions are changing; generations that stop half-way | a bid's status says what its awards say; an awarded price stands; one order per vendor |
| Costing close (migrations 20260807100807, 20260807090058) | `costing_periods`, checklist items and evidence, exceptions | update an item, link evidence, report and resolve an exception, lock, close, reopen | a close judged by rows it does not lock | preparer and reviewer differ; a closed month is complete |
| Settlement of estimates, ESG reports, pay applications (migration 20260728154943) | their status | settle, decide directly | the same as for proposals | records mirror their instance |
| Escalations, alerts, scheduled reports (cron routes) | flags on instances, notifications | sweep | overlapping sweeps | once per case |
| Match, budgets, periods, general ledger, billing | their tables | check, close, derive | checks made before writes | closed periods stay as they are |
| Engineering, quality, field, planning, portfolio, CRM, portals, API keys, roles | their tables | single-record edits, reports, calculations | mostly sequential | see `components` in `PROJECT.json` |

How they meet: the server functions of every record type call the engine through
`start_approval_instance` and `decide_approval`, and mirror its outcome onto their record in
a later request: PoApproval, EventActions and Proposal are written over ApprovalVerdict, the
engine's abstraction. One `decideApproval` settles an event action, then an order, then any
other entity of the instance. The generation of orders from awards (RfqAwards) creates the
orders whose approval PoApproval models. Receipts and the approval of an order
write the same `purchase_orders.status`. The match and the period close gate payments. Many
server functions emit webhooks. The offline queue wraps the field server functions.

## How the code is modelled

A server function is one action per database request, with its place in the function
(`pc`) and what it has read in a variable (`call`, `run`, `dispatch`, `tx`). An SQL function
is split where it takes a row lock or takes a new snapshot; its writes appear at its last
step. A request that is refused and leaves no trace is a guard, not an action, unless the
call goes on after it. `Stop`, `Crash`, `StopDispatch`, `Disconnect`, `Close` and `Die` end
a call at any point.

Much of this code is written for calls that do not overlap, and some of what it promises
holds only then. Such a promise is stated conditionally, with a history variable. `serial`
turns false for good when two calls overlap, `alone` (EventActions) also when one stops or
loses a write. Others are more particular, and say what exactly happened that the code does
not cope with:

| Variable | Module | What it records | Property |
|---|---|---|---|
| `owed` | PoApproval | instances decided, none of whose settlements has gone through yet: the call stopped, or its user may not update orders | `MirrorsInstance`, `NoManualBypass` |
| `rewritten` | GoodsReceipt | receipts whose lines a save wrote after they were confirmed | `ReceivedIsBacked` |
| `doubtful` | OfflineSync | saves whose mirror row was found unsettled while another request was at work, or was not told of work done | `AppliedOnceUnlessInDoubt` |
| `done`, `taken`, `slips` | EventActions | executions, withdrawals of stock, and executions that had an effect and then did not leave the row as executed | `RepeatedOnlyAfterSlips` |

No history variable restricts which steps a model takes. The configurations that drop the
condition are listed below, with what the code then loses.

Names, payloads, money and time are abstracted to what the properties tell apart: payment
amounts are small whole numbers, a retry time is a place in a queue or a flag that a
clock action (`Tick`, `RetryDue`) sets.

`CHECK_DEADLOCK FALSE` stands in every configuration: instances, batches, saves and
attempts are finite, and when all are worked off the modelled system has nothing to do.

## Modules

**ApprovalEngine** - one entity governed by one rule. State: the chain of the rule, the
status and current step of each instance, the approvals rows, and one transaction per
session. `StartCheck`/`StartInsert` are the two statements of `start_approval_instance`;
`DecideLockRow`, `DecideLockInst`, `CountPeers` and the three outcomes are
`decide_approval`; `CancelLock`/`Close` cancel or reject; `EditDelete`/`EditInsert` are the
two requests of `upsertApprovalRule`; `Raise`, `DeadlockVictim` and `Disconnect` undo a
transaction. Row locks follow from how far a transaction is, so there is no lock variable
to get wrong. The second disjunct of `Raise` (an instance closed under a waiting decision)
is in the code and cannot be reached: closing needs the lock of the decision's own row.

**ApprovalVerdict** - what the engine promises to its callers: an instance is opened once,
decided at most once, and a decision is never revised. ApprovalEngine implements it
(`DecidedOnce`); PoApproval is written against it.

**PoApproval** - one order, the instances opened for it and the calls on it, request by
request. Routes are the ways a submission may go: below the threshold ("auto"), with no
rule ("unruled"), or through the engine. `SubmitReuse` binds an instance another call has
opened; where several are open the code takes the newest, the model any of them. That any
member may call `startApproval` for any entity directly is left out.

The history variable `via` says how the order came to its status; `serial` and `owed` as above.

**GoodsReceipt** - receipts against one issued order. `Read`, `Check`, `PickNumber`,
`Confirm` and `WritePo` are the requests of `confirmGrn`, `Save` the write of
`saveGrnDraft`, by id alone: nothing keeps a draft from being saved while it is confirmed,
here or in the code. `PoWriter` are the users who may update orders: an update by another user
touches no row and is no error.

**InvoicePayments** - the ledger of one invoice. A call's reads are requests of their own;
its transaction is split at the counter's row (`Insert`), the payment's row (`Void`), the
invoice's row (`Lock`), the sum (`SumUp`) and the end (`Commit`, `Overpaid`). `WaitsFor` is
who waits for whose lock, and the guards of the steps are `Free`.

**WebhookDelivery** - queue rows in the order of `next_retry_at`, endpoints, and runs of
the dispatch route, which reads a batch, then its endpoints, then works the batch off one
request at a time and records each outcome from the attempts it read.

**IngestionRetry** - parked batches, the runs of the retry route with their claims, dead
letters and the operator's replay. Only telemetry is parked; no caller enqueues events.
The status "succeeded" that the route writes is not in the column's enum, so the write is
an error that nobody looks at (`RecordSuccess`).

**OfflineSync** - saves in the browser, tabs draining them, requests on their way or at
work in the server, and the mirror. With `Faulty` the network loses answers, tabs are
closed and servers die. `AtWork` is a request that has a mirror row and may still do the
work or write what became of it. A save's own work is one step: what it leaves behind if it
dies in the middle is not modelled.

**EventActions** - one rule, one SCADA event and the log row of the two, over
ApprovalVerdict. `Evaluate...` are the requests of `evaluateEventActions`, `Start...` those
of `startApprovalFor`, `Decide`/`Settle` those of `decideApproval`, `Execute`/`Floor`/
`Perform`/`Record` those of `executeEventAction`. A type in `Stocked` (spare_parts_request)
takes stock first (`TakeStock`) and then inserts its work order (`Order`), which may fail
and leave the stock taken (`OrderFails`); what any other action inserts is one step.
`SaveRule` edits the rule at any time. A call in `Failing` may stop, or go on after an
update of the row that failed, as no caller looks at its error (`WriteLost`).

**Proposal** - one version of a proposal over ApprovalVerdict. `WritePrice` is an update of
the financial columns under the two triggers that judge it. The pricing is decided by the
engine and settled (`Decide`, `Settle`), or directly (`PricingDecide...`), with or without
an instance. `Sign` is the provider and the signer; an event stays in `owed` until a
delivery of it is answered, and an answer may get lost. A repeated event may be dropped or
applied again (`ApplyRead`): the code knows it by the provider's id, which is optional and
absent in a void, or within five seconds. Deliveries are those the provider signed, as under
the default of `PUBLIC_HOOK_ENFORCE`, "block"; with "warn" an unsigned event is applied too,
and `AcceptedWasSigned` would rest on nothing.

**RfqAwards** - the lines, bids and awards of one issued RFQ and the orders generated from
it. A statement of an award transaction that reads, waits or writes is a step; what it
writes shows at its commit. `Locked` and `Held` say which rows are held from how far the
transactions are.

**CostingClose** - the close of one project's month. Each request is one transaction: it
reads (and may lock its row), the trigger looks at the period (`Guarded`), it commits. The
hard close reads the blockers once and commits later. Item status "pending" and exception
status "open" stand for "in_progress" too, which the code treats alike here.

**MC...** modules give the constants their values where a .cfg cannot; PoApproval,
IngestionRetry, EventActions and Proposal are run directly. The modules **...Proofs** hold
the theorems of the module they are named for; ReceiptsAndPaymentsProofs those of
InvoicePayments and GoodsReceipt, QueueProofs those of IngestionRetry, WebhookDelivery and
OfflineSync. So that one module can extend several of these, the common names carry a prefix
in GoodsReceipt, WebhookDelivery and OfflineSync (`GrnSpec`, `WebhookInit`, `OfflineNext`).

## Runs

| Run | Instance | Shows |
|---|---|---|
| `approval_engine` | 3 sessions, 2 instances, chains of 1-2 steps, a step two people hold, a step nobody holds (so it falls to the administrator); one session edits the rule | types, `NoPendingWhenDecided`, `OpenHasVoter`, `StepsInOrder`, `ApprovedByWholeChain`, `DecisionsStand`, refinement of ApprovalVerdict (`DecidedOnce`), and `EveryCallEnds` under fairness |
| `po_approval` | 3 sessions, one of which may stop and one of which may not update orders, 2 instances, all routes | `SettledByItsVerdict` whatever overlaps; `MirrorsInstance`, `NoManualBypass` for calls that do not overlap and may stop anywhere |
| `goods_receipt` | 2 sessions, one of which may stop, every overlap of saves and confirmations, 2 receipts, 2 lines of one unit, five payloads (all, one line, the other, nothing, a line named twice) | `ReceivedIsBacked`, `DistinctNumbers`, `ReceiptStands` |
| `invoice_payments` | 3 sessions, 3 payments of 1 or 2 against a total of 2, an invoice that starts as a draft or submitted | `LedgerInStep`, `NeverOverpaid`, `PaidIsBacked`, `NumbersConsecutive`, `NoLockCycle`, `PaidUntilVoided` |
| `webhook_overlapping` | 2 overlapping runs (one may be stopped), 2 deliveries, 2 endpoints (one being set up, paused, deleted), batches of 1, 2 attempts | `GivenUpWasTried`, `AttemptsWereMade`, `DeliveriesSettled` |
| `retry_overlapping` | 2 overlapping runs (one may be stopped), 2 batches, reads of 1 row, 2 attempts, dead letters that may fail | `OneReplayer`, `DeadWasTried`, `SettledInTheEnd` |
| `offline_faulty` | 2 tabs, 3 requests at once, 1 save, all faults | `SyncedWasApplied`, `MirrorIsTrue`, `AppliedOnceUnlessInDoubt` |
| `event_actions` | a user's call and one of the ingestion, which may stop or lose a write; an operational type that takes stock and a contractual one; 2 instances; 2 executions | `ContractualWasApproved` and `DecidedIsCarriedOut` whatever overlaps and stops, the latter under fairness; `RepeatedOnlyAfterSlips` for calls that do not overlap, whatever stops, fails or is lost; `RowIsTrueAlone` for calls of which none stops or loses a write either |
| `proposal` | a sales call, a finance call and a delivery at once, the price as created and another, 2 envelopes, 1 instance | `SentPriceIsApproved`, `AcceptedWasSigned` |
| `rfq_awards` | 2 sessions, 2 lines, 2 bids, 2 prices, 3 orders | `AwardedBidIsFrozen` whatever overlaps; `BidMirrorsAwardsSerially`, `OrdersAreAwardedSerially` for calls that do not overlap and may stop anywhere |
| `costing_close` | 2 sessions, 2 users, 1 item that requires evidence, 1 exception, no self review | `ReviewedByAnother` whatever overlaps, `ClosedIsCompleteSerially` |
| `bid_orphan` | as `rfq_awards`, 2 orders | violates `BidMirrorsAwards`, see below |

Why the bounds are enough. Three sessions are the fewest that give two peers of a step and
somebody who rejects, and two payments racing a void. Two instances let one be opened
after or beside another; the third session of `po_approval` is a decision or a repeated
settlement beside a submission and a manual call, the third request of `offline_faulty` a retry
beside a late request and the one after it. Two runs are the fewest that overlap. A batch or read of one with
two rows makes the limit bind. Two attempts make one failure that is retried and one that
is not. Amounts 1 and 2 against 2 give a part payment, a full payment and an overpayment.
Payload "a line named twice" is there because the code checks each entered line alone.
Two lines, bids and prices give a bid two awards, a rival and a revision; three orders give
a number that collides with an order another generation made. Two envelopes give a proposal
that is sent again. One item with evidence and one exception give every blocker of a close;
items do not interact. Two calls are enough for the overlaps of EventActions, Proposal,
RfqAwards and CostingClose, where nobody waits for a third; what is proved of them holds
for any number.

What is assumed away in a passing run, and why:

* `ReceiptStands` lets a save that found a draft rewrite the lines of the receipt confirmed
  since (`Saving`), for the code does (`MCGoodsReceiptEdit.cfg`); status and number stand
  even then. `ReceivedIsBacked` speaks of orders none of whose receipts was so rewritten.
* `approval_engine` has one editor. Two editors can interleave their deletes and inserts
  and leave the chain of neither, which `ApprovedByWholeChain` does not survive. It also
  assumes that somebody is a company administrator (`Holders[AdminRole] # {}`): a step whose
  role nobody holds falls to them, and without one it would wait for nobody.
* `RepeatedOnlyAfterSlips` allows one repetition for every execution that had an effect and
  ended half-way. That is the rule of the code, not an idle exception: a decision that is
  repeated after a failed work order takes the stock again, in calls that neither overlap nor
  stop. `StockTakenOnce` says it does not, and fails for one session, one instance and
  `Stocked = {spare_parts_request}` (take `MCEventActionsReplay.cfg` with these values and
  `INVARIANT StockTakenOnce`).
* `AppliedOnceUnlessInDoubt` excepts the saves in `doubtful`. Each of the three ways into that
  set is needed: without any one of them `offline_faulty` finds a save carried out twice. What
  is left says that the unique key and the synced row do their work under every other fault.
* `MirrorsInstance` excepts an order that was rejected by its instance and then approved
  below a raised threshold (`via = "auto"`), while it still points at that instance, and an
  outcome that is still owed (`owed`); the code makes up for the latter only when somebody
  repeats the decision. That an order is issued only out of approved (`IssuedIsApproved`) is
  not claimed: it holds of calls that take turns by the guard of `issuePo`, and not of others.
* `proposal` has one sales call and one finance call at a time; two of each do not fit the
  time of a run. The two invariants are proved for any number.
* `retry_overlapping` excepts batches left behind in "processing" from `SettledInTheEnd`: a
  stopped run, or the enum's missing status, leaves them there for good.
* `webhook_overlapping` promises settlement only to endpoints that stay active.

## What the runs refute

One run checks a sentence of the repository against the code and finds a counterexample:

* `bid_orphan` - `rfq-award.invariants.ts:6` says of a bid's status and its awards that they
  must never drift apart, and line 10 that the database enforces it transactionally. The
  trigger counts the awards a bid has left without locking the bid, and leaves a bid alone
  that it sees awarded. An award of one line and an unaward of the bid's other line in
  concurrent transactions do not see each other: the first keeps the status, the second
  reverts it, and the bid is "submitted" with an award. The run checks class C1 of
  `status-consistency.test.ts`, the query that finds such bids after the fact.

Further disagreements between what the repository says and what the code does are kept as
configurations below, with the line they are about.

## Further configurations

These are kept for readers who want to see a behaviour for themselves
(`tlc -config <cfg> <module>`); they are not part of the regular runs.

| Configuration | Module | Result |
|---|---|---|
| `MCApprovalEngineTwoOpen.cfg` | MCApprovalEngine | violates `OneOpenInstance`: `po-approval.rules.ts:38` says a second open instance is never opened; `start_approval_instance` looks and inserts in two statements without a lock or a unique index |
| `MCPoApprovalIssue.cfg` | PoApproval | violates `IssuedIsApproved`: `po-approval.rules.ts:33` says an order is only issued once approved; `issuePo` writes by id what it judged by an earlier read |
| `MCPoApprovalRepeat.cfg` | PoApproval | violates `IssuedStays`: a repeated decision settles again and takes an issued order back |
| `MCGoodsReceiptOver.cfg` | MCGoodsReceipt | violates `NoOverReceipt`: `grn-rules.ts:140` says no line receives more than what is due; two confirmations hold their lines against the same remaining quantity |
| `MCGoodsReceiptEdit.cfg` | MCGoodsReceipt | violates `OnlyDraftsEdited`: `grn.functions.ts:341` says only drafts can be edited; a save overlapping a confirmation rewrites the confirmed lines |
| `MCGoodsReceiptStale.cfg` | MCGoodsReceipt | violates `FullyReceivedIsReceived`: two confirmations, neither of which reads the other's receipt |
| `MCInvoicePaymentsDraft.cfg` | MCInvoicePayments | violates `StatusFollowsLedger` (class C6 of `status-consistency.test.ts`): a draft settled by `markInvoicePaid`, then approved |
| `MCWebhookDeliveryOverlap.cfg` | MCWebhookDelivery | violates `DeliveredOnce`: overlapping runs send an accepted delivery again |
| `MCIngestionRetryOverlap.cfg` | IngestionRetry | violates `BackoffRespected`: an older read claims a row just put back |
| `MCIngestionRetryDlq.cfg` | IngestionRetry | violates `NothingLost`: the dead letter's insert fails and the row is closed |
| `MCIngestionRetryEnum.cfg` | IngestionRetry | violates `ProcessingHasARun`: a replayed row stays in processing |
| `MCOfflineSyncSingle.cfg` | MCOfflineSync | passes: `AppliedOnce`, `SyncedStays`, `SavesSettled` for one tab without faults |
| `MCOfflineSyncLate.cfg` | MCOfflineSync | violates `AppliedOnce`: `offline-mirror.ts:3` says retries leave no duplicate rows; a request whose answer was lost is still at work when the retry finds the mirror row not yet synced |
| `MCOfflineSyncOrder.cfg` | MCOfflineSync | violates `LatestSaveStands`: a transient error lets a later save overtake an earlier one |
| `MCEventActionsReplay.cfg` | EventActions | violates `PerformedOnce`: `scada-actions.server.ts:95` says a replay never duplicates work; two overlapping evaluations both find the row fresh |
| `MCProposalDelivery.cfg` | Proposal | passes: `SignatureArrives`, under `FairSpec` |
| `MCProposalResent.cfg` | Proposal | violates `AcceptedNamesEnvelope`: two overlapping sends, one envelope replaces the one just signed |
| `MCProposalRevised.cfg` | Proposal | violates `AcceptedStays`: `createProposalVersion` supersedes by id a proposal accepted since it was read |
| `MCCostingCloseSkew.cfg` | MCCostingClose | violates `ClosedIsComplete`: a change of an item, its evidence or an exception that passed the guard before the hard close commits beside it |

## Fairness

Liveness is checked under weak or strong fairness of named steps only:

* ApprovalEngine: a transaction that can run does run; the lock queue of a row is served in
  arrival order, so a waiter is not passed over for ever (strong fairness of the steps that
  wait); and Postgres' deadlock detector breaks every cycle (`DeadlockVictim`). No fairness
  of starting calls, of `Disconnect` or of edits.
* WebhookDelivery: the schedule starts the route again and again, a run that is not stopped
  goes on, and retry times arrive. Whether a subscriber accepts is never assumed.
* IngestionRetry: the same, and the database does not refuse the claim of a row for ever.
* EventActions: a call that does not stop makes its next request (`Continue`). No fairness
  of starting calls, of the ingestion's calls, which may stop, or of edits.
* Proposal (further configuration): the provider delivers a signature again until it is
  answered (`HookLookup`, strong, because a user's call may be in the way), and a delivery
  under way makes its next request.
* OfflineSync (further configuration): tabs drain every minute, requests end, and neither
  network nor server refuses a save for ever.

## Proofs

`ApprovalEngineProofs` proves for any number of sessions, instances, steps and users:
`TypeCorrect`, `NothingPendingWhenDecided`, `OpenInstanceHasVoter`, `StepsWorkedInOrder`,
`DecisionsAreFinal` and `EngineImplementsVerdict`. None of the table invariants is
inductive: that the last approver may close a step rests on the count it took still being
true, which rests on who holds which row. `EngineInvariant` therefore adds
`LockDiscipline` (a transaction's row stays pending while it holds it, the instance it
holds stays open, no two hold the same row, and what it counted stands until it commits)
and `NoRowsBeforeStart`; `EngineInvariantHolds` shows every step keeps the conjunction. Even
`TypeOK` needs it: a transaction's goal is a legal status only because its row is pending.
The action property and the refinement are then proved step by step from the invariant.
`ApprovalIsByTheWholeChain` adds to it that a chain is edited only by its one editor, while no
row refers to it (`EditsAlone`), and that every earlier step of the chain of an open instance
was put to somebody who approved (`EarlierApproved`). It assumes `OneEditor`, as the run does.

`PoApprovalProofs` proves `SettlementMirrorsVerdict`: the invariant `SettledByItsVerdict`,
strengthened by what a settlement under way knows of its instance, for any number of
sessions and instances. It uses ApprovalVerdict's promise that a decision is never revised.
`MirrorsInTurn` is class C4 of the consistency audit, for calls that take turns and may stop
anywhere. It rests on `TurnInvariant`: at most one call is under way and at most one instance
open, none when one is about to be inserted or was just looked for in vain; and on
`MirrorInvariant`: the order lags behind its instance only while the instance's outcome is
`owed`, it is about to be bound to an undecided or cancelled instance at most, and a manual
call still has the pending order it read. `NoBypassInTurn` follows from the two. Neither asks
that whoever decides may update orders: the write of a user whom the `pos_write` policy leaves
out settles nothing and is no error, so the outcome stays owed.

`ReceiptsAndPaymentsProofs` proves, for any number of sessions and payments and any amounts,
all that is claimed of InvoicePayments; first `LedgerStaysInStep` and `InvoiceNeverLocksUp`. The first rests on two facts about a transaction:
at most one holds the invoice for update (`OneHolder`), and what it has summed up is what
it will leave behind (`SumHolds`). The second orders transactions by how far they are with
their locks (`Rank`) and shows that a waiter always ranks below whoever it waits for, which
needs that at most one payment has drawn its number (`OneInsert`).
`LedgerNeverOverpaid`, `LedgerBacksPaid`, `LedgerNumbersConsecutive` and `LedgerPaidUntilVoided`
come from `BookInv` on top of these: the ledger stays within the total, the status is what the
ledger makes it, the numbers drawn are the first ones, and what each call has read of the
invoice and of its payment still says enough of both (`Knows`). The ledger is a fold over a set
of payments; its value is reached without an induction theorem, by the least counterexample
(`SmallestSet`, `FoldExists`, `FoldAddsUp`, `SumsCompare`), and from there on only what one
payment adds or a void takes away is used.

The same module is about GoodsReceipt too, whose receipts add up the same way.
`ReceiptNumbersDistinct` holds of whatever overlaps: a confirmation's write asks for a draft and for a number nobody has.
`ReceivedOrdersCovered` says that what a call has counted, with its own receipt once that is
confirmed, the confirmed receipts still bring (`Backed`), until a save rewrites one of them:
receipts are otherwise only added, so that a count read early is too low, never too high.
`ConfirmedReceiptsStand` says of every overlap what a confirmed receipt keeps.

`EventActionsProofs` proves `HardFloor` from `EventInvariant`: a call that is about to perform
a contractual action has seen an approval (`PerformsApproved`), which nothing revokes, and a
row that is not there has no instance and no executor (`AbsentIsUntouched`); overlaps, stops,
lost writes and edits of the rule are all allowed. `EffectsAccountedFor` needs that calls do
not overlap and nothing else: every effect but one is made up for by an execution that ended
half-way, and that one by a row that says executed or a call still on its way to say so
(`Accounted`), while nobody is about to execute or reject an executed row (`ExecutedIsLeft`).
`RowTellsTheTruth` adds what the one call under way knows of the row, namely how often the
action was done (`DoneOnce`), who has taken stock (`StockTold`), that the row has one instance
at most, bound or about to be (`OneInstance`), and that the row is where its verdict takes it
or on the way there (`RowFollows`). With calls that overlap neither of the two is true.

`ProposalProofs` proves `CustomerSignsApprovedPrice` and `AcceptanceIsSigned` from
`ProposalInvariant`: from the moment a price is approved it stays the approved one, also in
what a send under way has read (`PriceFrozen`), because both triggers judge the row at the
write; and nobody hears of a signature that the provider did not see (`SignatureIsTrue`),
however often it is delivered and whatever overtakes it.

`RfqAwardsProofs` proves `StatusFollowsAwards` and `AwardedPriceStands` from `AwardInvariant`.
`StatusFollowsAwards` needs what each call knows of its line and its bid while it runs alone (`Knows`:
an awarding call that its line is free, an unawarding one that the awards its trigger counted
are the ones there are); `AwardedPriceStands` only that a write of a bid is judged by its row,
not by the earlier read. `OrdersFollowAwards` adds `OrderInvariant`: a call that runs
alone has read the awards as they are, has only vendors without an order on its list, and takes
back an award only while nothing is ordered, so that a generation that stopped between an order
and its lines leaves nothing the next one contradicts.

`CostingCloseProofs` proves `DutiesSegregated` and `ClosedMonthsAreComplete`. The first rests on
the lock of the item (`OneHolder`): a judgement made under it still stands at the commit
(`JudgementStands`). The second, for requests that take turns, adds that a change about to
commit has found the period not hard closed and a close about to commit has found nothing in
its way (`ClosesComplete`), and that a month that left "open" has its checklist
(`ChecklistMade`).

`QueueProofs` is about the three queues. Of IngestionRetry it proves
`ClaimIsExclusive` and `GivenUpAfterItsAttempts` from
`RetryInvariant`, for any number of overlapping runs, of which any may be stopped: a run is at
a row exactly while the row is claimed (`ClaimHolds`), and no count, on record or in a stale
read, exceeds the replays that did fail (`CountIsTrue`, `FailureKnown`), so that a row given up
had them all although each run counts from the attempts it read.

Of WebhookDelivery, `DeliveriesTriedOut` and `RecordedAttemptsMade` rest on `HookInv`.
There is no claim here, so the argument is another one: every count, on record or in the batch
of a run, is at most the number of requests made (`RowsCount`, `BatchesCount`), which only
grows; a success in a run's hands was an answer (`AnswersTrue`). A row that is due is a row that
waits (`DueRowsWait`); for this the filter that takes a row out of the queue is shown to take
nothing else (`WithoutIn`).

Of OfflineSync, `SyncedSavesApplied` and `MirrorRowsTrue` hold under every fault.
`OfflineInv` follows a success back from the browser to the work: a tab that waits has its own
request under way for the save it sent (`Waiting`); a request that has passed the work, a
mirror row that says synced and a local row that does are each about a save that was carried
out (`SuccessIsTrue`). `SavesAppliedOnce` holds under every fault as well: of a save that is
not in doubt, one request at most is at work, and either that request or the mirror can tell
whether the save was carried out (`Told`).

The assumptions on constants (`EngineAssumption`, `LedgerAssumption` and the like) say that
ids are numbers, that named subsets are subsets, that no null value is a member, and, where a
sum is taken over them, that payments and receipts are finitely many; TLC
evaluates them in every run.

With these, every invariant and every action property of the passing runs is also a theorem.
Only model-checked: the liveness properties, `EveryCallEnds` of ApprovalEngine,
`DeliveriesSettled` of WebhookDelivery, `SettledInTheEnd` of IngestionRetry and `DecidedIsCarriedOut` of
EventActions, which need ENABLED; and the passing further configuration of Proposal
(`SignatureArrives`), which is liveness too.

## Not modelled

See `components` in `PROJECT.json` for every part with its reason. The larger part of the
repository's lines has no interleaving to check: generated types and routes, screens,
exports and translations, reports and calculations without shared state (design, earned
value, cash flow, recognition, ledger derivation), and records edited one request at a time
by one user, where a model would restate the guard of its only write. The models cover the
code that coordinates concurrent work.

Within modelled parts left out: row level security other than where it changes an outcome
silently, audit rows, notifications, the change-control freeze on `issuePo`, PDF and share
links, periods, matches and currency of payments, the rotation of webhook secrets, photos in
the offline queue (no caller queues any), roles and version numbers of the costing close
(each request may send none).

Known and not modelled, in code that is otherwise simple: `billMilestone`
(`invoices.functions.ts:379`) checks for an invoice and inserts one in two requests; the
stock decrement of an event action (`scada-actions.server.ts:473`) writes the quantity it
read; the direct decision of a pay application (migration 20260728154943, line 231) decides
an instance without the engine's locks, as that of a proposal does; payments check the period
and the match in requests of their own (`payments.functions.ts:73`); the reopening of a
costing exception goes by the status read before (migration 20260807100807, line 574), which
CostingClose has as a step but no property judges.

## Plan

The modules above were written in the order of the parts' weight: ApprovalVerdict and
ApprovalEngine, PoApproval, GoodsReceipt, InvoicePayments, WebhookDelivery, IngestionRetry,
OfflineSync, and then EventActions, Proposal, RfqAwards and CostingClose, with the proofs.
What would add most next:

1. PoApproval and GoodsReceipt composed over the one status column both write, with an
   abstract life cycle both should refine.
2. EscalationSweep over ApprovalEngine's instances (flagged once).
3. Finance periods over InvoicePayments: a close against a payment in flight; then the match.
4. An abstract at-least-once queue that WebhookDelivery and IngestionRetry both refine.
5. Milestone billing, timesheets, MOC.

Theorems still worth proving: that the order's life cycle of 1 is refined by both modules, that
the two queues refine the one of 4, and that `SettledByItsVerdict` survives the composition with receipts.
