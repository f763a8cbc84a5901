---------------------------- MODULE IngestionRetry ----------------------------
(* The retry queue of SCADA ingestion.  A chunk of telemetry the historian    *)
(* refused is parked in ingestion_retry_queue; the cron route                 *)
(* ingestion-retry claims the due rows, replays them, requeues them with a    *)
(* backoff or moves them to ingestion_dead_letter, from where an operator may *)
(* replay them.                                                               *)
(*                                                                            *)
(* A batch is the chunk one queue row holds.  The only caller that may insert *)
(* a row is the telemetry hook (service role), and it parks telemetry, so a   *)
(* replay is an upsert that ignores rows already there.  The backoff is a     *)
(* flag: a row is due, or will be (Tick).  The upsert may commit although its *)
(* answer is an error.                                                        *)
EXTENDS Integers, FiniteSets

CONSTANTS Batch,
          Run,          \* runs of the route that may overlap
          Failing,      \* runs that may be stopped by the platform
          DlqDown,      \* inserting a dead letter may fail
          MaxAttempts,  \* MAX_RETRY_ATTEMPTS
          Limit,        \* RETRY_BATCH_SIZE
          NoBatch

ASSUME RetryAssumption ==
  /\ Failing \subseteq Run
  /\ DlqDown \in BOOLEAN
  /\ MaxAttempts \in Nat \ {0} /\ Limit \in Nat \ {0}
  /\ NoBatch \notin Batch

VARIABLES q,       \* ingestion_retry_queue: the row of each batch
          dlq,     \* the batches in ingestion_dead_letter
          stored,  \* the batches in scada_telemetry
          run,     \* the runs of the route
          fails,   \* replays that failed, counted up to MaxAttempts + 1
          refused  \* dead letters whose replay was refused to an operator

vars == <<q, dlq, stored, run, fails, refused>>

(* The values of the enum of the status column.                               *)
QueueStatus == {"pending", "processing", "retried", "dead"}

Row == [status: QueueStatus \cup {"none"}, attempts: 0..MaxAttempts, due: BOOLEAN]

(* todo: rows read and not yet worked on; seen: their attempts as read; cur,  *)
(* ok: the row being replayed and how it went.                                *)
RunState == [pc: {"idle", "working", "replaying", "replayed", "buried"},
             todo: SUBSET Batch, seen: [Batch -> 0..MaxAttempts],
             cur: Batch \cup {NoBatch}, ok: BOOLEAN]

Idle == [pc |-> "idle", todo |-> {}, seen |-> [b \in Batch |-> 0],
         cur |-> NoBatch, ok |-> FALSE]

TypeOK ==
  /\ q \in [Batch -> Row]
  /\ dlq \in SUBSET Batch /\ stored \in SUBSET Batch /\ refused \in SUBSET dlq
  /\ run \in [Run -> RunState]
  /\ fails \in [Batch -> 0..MaxAttempts + 1]

(* Mutant: the read passes over rows that were tried before.                  *)
DueFirstTry == {b \in Batch : q[b].status = "pending" /\ q[b].attempts = 0}

Due == {b \in Batch : q[b].status = "pending" /\ q[b].due}

Init ==
  /\ q = [b \in Batch |-> [status |-> "none", attempts |-> 0, due |-> FALSE]]
  /\ dlq = {} /\ stored = {} /\ refused = {}
  /\ run = [w \in Run |-> Idle]
  /\ fails = [b \in Batch |-> 0]

------------------------------------------------------------------------------
(* The hook's upsert failed and the chunk is parked.  If parking fails too    *)
(* nothing is kept: the gateway is told and the batch is as if never sent.    *)
Park(b) ==
  /\ q[b].status = "none"
  /\ q' = [q EXCEPT ![b] = [status |-> "pending", attempts |-> 0, due |-> TRUE]]
  /\ stored' \in {stored, stored \cup {b}}
  /\ UNCHANGED <<dlq, run, fails, refused>>

(* The retry time of a row arrives.                                           *)
Tick(b) ==
  /\ q[b].status = "pending" /\ ~q[b].due
  /\ q' = [q EXCEPT ![b].due = TRUE]
  /\ UNCHANGED <<dlq, stored, run, fails, refused>>

(* The run reads at most Limit due rows.                                      *)
Select(w) ==
  /\ run[w].pc = "idle"
  /\ \E S \in SUBSET Due :
       /\ S # {} /\ Cardinality(S) <= Limit
       /\ S # Due => Cardinality(S) = Limit
       /\ run' = [run EXCEPT ![w] = [Idle EXCEPT !.pc = "working", !.todo = S,
                    !.seen = [b \in Batch |-> IF b \in S THEN q[b].attempts ELSE 0]]]
  /\ UNCHANGED <<q, dlq, stored, fails, refused>>

(* Mutant: the claim does not look at the status.                             *)
ClaimUnguarded(w, b) ==
  /\ run[w].pc = "working" /\ b \in run[w].todo
  /\ q' = [q EXCEPT ![b].status = "processing"]
  /\ run' = [run EXCEPT ![w].pc = "replaying", ![w].cur = b, ![w].todo = @ \ {b}]
  /\ UNCHANGED <<dlq, stored, fails, refused>>

(* update ... set status = 'processing' where id and status = 'pending'.      *)
Claim(w, b) ==
  /\ run[w].pc = "working" /\ b \in run[w].todo
  /\ q[b].status = "pending"
  /\ q' = [q EXCEPT ![b].status = "processing"]
  /\ run' = [run EXCEPT ![w].pc = "replaying", ![w].cur = b, ![w].todo = @ \ {b}]
  /\ UNCHANGED <<dlq, stored, fails, refused>>

(* The claim matched no row, or was an error: the run goes on to the next.    *)
Skip(w, b) ==
  /\ run[w].pc = "working" /\ b \in run[w].todo
  /\ run' = [run EXCEPT ![w].todo = @ \ {b}]
  /\ UNCHANGED <<q, dlq, stored, fails, refused>>

(* replayRows: the upsert succeeds, fails, or commits and loses its answer.   *)
ReplayRows(w) ==
  LET b == run[w].cur IN
  /\ run[w].pc = "replaying"
  /\ \E ok \in BOOLEAN :
       /\ run' = [run EXCEPT ![w].pc = "replayed", ![w].ok = ok]
       /\ stored' \in (IF ok THEN {} ELSE {stored}) \cup {stored \cup {b}}
       /\ fails' = [fails EXCEPT ![b] = IF ok \/ @ > MaxAttempts THEN @ ELSE @ + 1]
  /\ UNCHANGED <<q, dlq, refused>>

GoOn(w) == [run EXCEPT ![w].pc = "working", ![w].cur = NoBatch, ![w].ok = FALSE]

(* Success is written as the status "succeeded", which the enum does not      *)
(* have: the update is an error, which nobody looks at.                       *)
RecordSuccess(w) ==
  /\ run[w].pc = "replayed" /\ run[w].ok
  /\ q' = IF "succeeded" \in QueueStatus
          THEN [q EXCEPT ![run[w].cur].status = "succeeded"] ELSE q
  /\ run' = GoOn(w)
  /\ UNCHANGED <<dlq, stored, fails, refused>>

------------------------------------------------------------------------------
(* Mutant: dead one attempt early.                                            *)
DeadEarly(n) == n + 2 >= MaxAttempts

(* shouldDeadLetter, of the attempts after this failure.                      *)
ShouldDeadLetter(n) == n + 1 >= MaxAttempts

(* The attempts written back are those read at the start of the run, plus 1.  *)
Requeue(w) ==
  LET b == run[w].cur IN
  /\ run[w].pc = "replayed" /\ ~run[w].ok /\ ~ShouldDeadLetter(run[w].seen[b])
  /\ q' = [q EXCEPT ![b] = [status |-> "pending", attempts |-> run[w].seen[b] + 1,
                            due |-> FALSE]]
  /\ run' = GoOn(w)
  /\ UNCHANGED <<dlq, stored, fails, refused>>

(* The dead letter is inserted first, and its error is not looked at.         *)
DeadLetter(w) ==
  LET b == run[w].cur IN
  /\ run[w].pc = "replayed" /\ ~run[w].ok /\ ShouldDeadLetter(run[w].seen[b])
  /\ \/ dlq' = dlq \cup {b}
     \/ DlqDown /\ dlq' = dlq
  /\ run' = [run EXCEPT ![w].pc = "buried"]
  /\ UNCHANGED <<q, stored, fails, refused>>

MarkDead(w) ==
  LET b == run[w].cur IN
  /\ run[w].pc = "buried"
  /\ q' = [q EXCEPT ![b].status = "dead", ![b].attempts = run[w].seen[b] + 1]
  /\ run' = GoOn(w)
  /\ UNCHANGED <<dlq, stored, fails, refused>>

Finish(w) ==
  /\ run[w].pc = "working" /\ run[w].todo = {}
  /\ run' = [run EXCEPT ![w] = Idle]
  /\ UNCHANGED <<q, dlq, stored, fails, refused>>

(* The platform stops a run; no other run takes over what it had claimed.     *)
Crash(w) ==
  /\ w \in Failing /\ run[w].pc # "idle"
  /\ run' = [run EXCEPT ![w] = Idle]
  /\ UNCHANGED <<q, dlq, stored, fails, refused>>

(* replayDeadLetters reads the letters and inserts queue rows as the caller;  *)
(* the table has no insert policy for callers, so the insert is an error and  *)
(* the letters are not marked as replayed.                                    *)
ReplayDeadLetters(b) ==
  /\ b \in dlq \ refused
  /\ refused' = refused \cup {b}
  /\ UNCHANGED <<q, dlq, stored, run, fails>>

RunStep(w) ==
  \/ Select(w) \/ ReplayRows(w) \/ RecordSuccess(w) \/ Requeue(w)
  \/ DeadLetter(w) \/ MarkDead(w) \/ Finish(w)
  \/ \E b \in Batch : Claim(w, b)

Next ==
  \/ \E b \in Batch : Park(b) \/ Tick(b) \/ ReplayDeadLetters(b)
  \/ \E w \in Run : RunStep(w) \/ Crash(w) \/ \E b \in Batch : Skip(w, b)

Spec == Init /\ [][Next]_vars

(* The schedule starts the route again and again and a run goes on until it   *)
(* ends; the database does not refuse the claim of a row for ever; a clock    *)
(* reaches every retry time.                                                  *)
Fairness ==
  /\ \A w \in Run : WF_vars(RunStep(w))
  /\ \A w \in Run, b \in Batch : SF_vars(Claim(w, b))
  /\ \A b \in Batch : WF_vars(Tick(b))

FairSpec == Spec /\ Fairness

------------------------------------------------------------------------------
(* A claimed row is replayed by one run at a time, whatever runs overlap.     *)
OneReplayer ==
  \A v, w \in Run : run[v].cur = run[w].cur /\ run[v].cur # NoBatch => v = w

(* A row is given up only after the failed replays it was granted, although   *)
(* two runs may count the same failure once.                                  *)
DeadWasTried ==
  \A b \in Batch : b \in dlq \/ q[b].status = "dead" => fails[b] >= MaxAttempts

(* A parked batch is in the historian, in the hands of the queue or among the *)
(* dead letters.                                                              *)
NothingLost ==
  \A b \in Batch :
    q[b].status # "none" => b \in stored \cup dlq \/ q[b].status \in {"pending", "processing"}

(* The claim keeps a run from working on a row another run has just put back: *)
(* a row is replayed only when its retry time has come.                       *)
BackoffRespected ==
  [][\A w \in Run, b \in Batch : run'[w].cur = b /\ run[w].cur = NoBatch => q[b].due]_vars

(* A row marked as processing is being processed.                             *)
ProcessingHasARun ==
  \A b \in Batch : q[b].status = "processing" => \E w \in Run : run[w].cur = b

(* A run was stopped while it had the row, or could not record its success.   *)
LeftBehind(b) == q[b].status = "processing" /\ \A w \in Run : run[w].cur # b

(* A parked batch reaches the historian or is given up in the end, unless it  *)
(* is left behind.                                                            *)
SettledInTheEnd ==
  \A b \in Batch :
    q[b].status = "pending" ~> b \in stored \/ q[b].status = "dead" \/ LeftBehind(b)
==============================================================================
