------------------------------ MODULE QueueProofs ------------------------------
(* Proofs about the three queues of the system that are drained by workers    *)
(* that may overlap and stop: the SCADA retry queue (IngestionRetry), for any *)
(* number of batches and runs; the saves made in the field (OfflineSync), for *)
(* any number of saves, tabs and requests; and the outbound webhooks          *)
(* (WebhookDelivery), for any number of deliveries, endpoints and runs.       *)
EXTENDS IngestionRetry, OfflineSync, WebhookDelivery, WellFoundedInduction, TLAPS

(* A set of numbers that is not empty has a least one.                        *)
LEMMA LeastNumber ==
  ASSUME NEW T, T \subseteq Nat, T # {}
  PROVE  \E n \in T : \A m \in T : n <= m
<1>1. \E n \in T : \A m \in T : <<m, n>> \notin OpToRel(<, Nat)
  BY NatLessThanWellFounded, WFMin
<1>2. PICK n \in T : \A m \in T : <<m, n>> \notin OpToRel(<, Nat)
  BY <1>1
<1>3. \A m \in T : n <= m
  <2> SUFFICES ASSUME NEW m \in T PROVE n <= m
    OBVIOUS
  <2>1. m \in Nat /\ n \in Nat
    OBVIOUS
  <2>2. ~(m < n)
    BY <1>2, <2>1 DEF OpToRel
  <2> QED
    BY <2>1, <2>2
<1> QED
  BY <1>2, <1>3, Zenon

------------------------------------------------------------------------------
(* The retry queue: a row is replayed by one run at a time, and none is given *)
(* up before the failed replays it was granted.                               *)

(* A run is at a row exactly when it says so, and then the row is claimed.    *)
ClaimHolds ==
  \A w \in Run :
    /\ run[w].cur # NoBatch <=> run[w].pc \in {"replaying", "replayed", "buried"}
    /\ run[w].cur # NoBatch => q[run[w].cur].status = "processing"

(* What is counted, on record or in the hands of a run, has failed.           *)
CountIsTrue ==
  /\ \A b \in Batch : q[b].attempts <= fails[b]
  /\ \A w \in Run, b \in Batch : run[w].seen[b] <= fails[b]

(* A waiting row, and one a run has read, still has an attempt left.          *)
AttemptLeft ==
  /\ \A b \in Batch : q[b].status \in {"none", "pending"} => q[b].attempts < MaxAttempts
  /\ \A w \in Run, b \in Batch : run[w].seen[b] < MaxAttempts

(* The failure a run is about to count has been made.                         *)
FailureKnown ==
  \A w \in Run :
    /\ run[w].pc = "replayed" /\ ~run[w].ok => run[w].seen[run[w].cur] + 1 <= fails[run[w].cur]
    /\ run[w].pc = "buried" => /\ ShouldDeadLetter(run[w].seen[run[w].cur])
                               /\ run[w].seen[run[w].cur] + 1 <= fails[run[w].cur]

RetryInvariant ==
  /\ TypeOK
  /\ ClaimHolds
  /\ OneReplayer
  /\ CountIsTrue
  /\ AttemptLeft
  /\ FailureKnown
  /\ DeadWasTried

(* The limit is spelled out wherever it is met.                               *)
USE DEF ShouldDeadLetter

LEMMA RetryInit == Init => RetryInvariant
  BY RetryAssumption
     DEF Init, RetryInvariant, TypeOK, Row, RunState, QueueStatus, Idle, ClaimHolds, OneReplayer,
         CountIsTrue, AttemptLeft, FailureKnown, DeadWasTried

LEMMA ParkStep ==
  ASSUME RetryInvariant, NEW b \in Batch, Park(b) \/ Tick(b) \/ ReplayDeadLetters(b)
  PROVE  RetryInvariant'
  <1> USE RetryAssumption DEF RetryInvariant, TypeOK, Row, QueueStatus
  <1>1. CASE Park(b)
    BY <1>1 DEF Park, ClaimHolds, OneReplayer, CountIsTrue, AttemptLeft, FailureKnown,
                DeadWasTried
  <1>2. CASE Tick(b)
    <2>1. q' \in [Batch -> Row]
      BY <1>2 DEF Tick
    <2>2. \A c \in Batch : q'[c].status = q[c].status /\ q'[c].attempts = q[c].attempts
      BY <1>2 DEF Tick
    <2>3. UNCHANGED <<dlq, stored, run, fails, refused>>
      BY <1>2 DEF Tick
    <2>4. TypeOK'
      BY <2>1, <2>3
    <2>5. ClaimHolds' /\ OneReplayer' /\ CountIsTrue' /\ AttemptLeft'
      <3>1. \A v \in Run : run[v].cur # NoBatch => run[v].cur \in Batch
        BY DEF RunState
      <3> QED
        BY <2>2, <2>3, <3>1 DEF ClaimHolds, OneReplayer, CountIsTrue, AttemptLeft
    <2>6. FailureKnown' /\ DeadWasTried'
      BY <2>2, <2>3 DEF FailureKnown, DeadWasTried
    <2> QED
      BY <2>4, <2>5, <2>6
  <1>3. CASE ReplayDeadLetters(b)
    BY <1>3 DEF ReplayDeadLetters, ClaimHolds, OneReplayer, CountIsTrue, AttemptLeft,
                FailureKnown, DeadWasTried
  <1> QED
    BY <1>1, <1>2, <1>3

(* A run that changes its own place only, and is at no row it was not at.     *)
LEMMA RunMoves ==
  ASSUME RetryInvariant, NEW w \in Run, NEW r \in RunState,
         run' = [run EXCEPT ![w] = r], UNCHANGED <<q, dlq, stored, fails, refused>>,
         r.pc \in {"idle", "working"}, r.cur = NoBatch,
         \A b \in Batch : r.seen[b] \in {0, run[w].seen[b], q[b].attempts},
         \A b \in Batch : r.seen[b] < MaxAttempts
  PROVE  RetryInvariant'
  <1> USE RetryAssumption
  <1>1. /\ run' \in [Run -> RunState] /\ run'[w] = r
        /\ \A v \in Run : v # w => run'[v] = run[v]
    BY DEF RetryInvariant, TypeOK
  <1>2. TypeOK'
    BY <1>1 DEF RetryInvariant, TypeOK
  <1>3. ClaimHolds' /\ OneReplayer' /\ FailureKnown' /\ DeadWasTried'
    BY <1>1 DEF RetryInvariant, ClaimHolds, OneReplayer, FailureKnown, DeadWasTried
  <1>4. CountIsTrue'
    <2>1. \A b \in Batch : r.seen[b] <= fails[b]
      BY DEF RetryInvariant, CountIsTrue, TypeOK, Row
    <2> QED
      BY <1>1, <2>1 DEF RetryInvariant, CountIsTrue
  <1>5. AttemptLeft'
    BY <1>1 DEF RetryInvariant, AttemptLeft
  <1> QED
    BY <1>2, <1>3, <1>4, <1>5 DEF RetryInvariant

(* A run reads rows, passes over one, ends or is stopped.                     *)
LEMMA ReadStep ==
  ASSUME RetryInvariant, NEW w \in Run,
         Select(w) \/ Finish(w) \/ Crash(w) \/ \E b \in Batch : Skip(w, b)
  PROVE  RetryInvariant'
  <1> USE RetryAssumption
  <1>1. Idle \in RunState /\ run[w] \in RunState /\ q \in [Batch -> Row]
    BY DEF Idle, RunState, RetryInvariant, TypeOK
  <1>2. CASE Select(w)
    <2>1. PICK S \in SUBSET Batch :
            /\ \A b \in S : q[b].status = "pending"
            /\ run' = [run EXCEPT ![w] = [Idle EXCEPT !.pc = "working", !.todo = S,
                          !.seen = [b \in Batch |-> IF b \in S THEN q[b].attempts ELSE 0]]]
            /\ UNCHANGED <<q, dlq, stored, fails, refused>>
      BY <1>2 DEF Select, Due
    <2>2. PICK r : r = [Idle EXCEPT !.pc = "working", !.todo = S,
                          !.seen = [b \in Batch |-> IF b \in S THEN q[b].attempts ELSE 0]]
      OBVIOUS
    <2>3. r \in RunState /\ r.pc = "working" /\ r.cur = NoBatch
      BY <1>1, <2>2 DEF Idle, RunState, Row
    <2>4. \A b \in Batch : /\ r.seen[b] \in {0, run[w].seen[b], q[b].attempts}
                          /\ r.seen[b] < MaxAttempts
      BY <2>1, <2>2 DEF Idle, RetryInvariant, AttemptLeft
    <2> QED
      BY <2>1, <2>2, <2>3, <2>4, RunMoves
  <1>3. CASE Finish(w) \/ Crash(w)
    <2>1. run' = [run EXCEPT ![w] = Idle] /\ UNCHANGED <<q, dlq, stored, fails, refused>>
      BY <1>3 DEF Finish, Crash
    <2>2. /\ Idle.pc = "idle" /\ Idle.cur = NoBatch
          /\ \A b \in Batch : /\ Idle.seen[b] \in {0, run[w].seen[b], q[b].attempts}
                             /\ Idle.seen[b] < MaxAttempts
      BY DEF Idle
    <2> QED
      BY <1>1, <2>1, <2>2, RunMoves
  <1>4. ASSUME NEW b \in Batch, Skip(w, b) PROVE RetryInvariant'
    <2>1. PICK r : r = [run[w] EXCEPT !.todo = run[w].todo \ {b}]
      OBVIOUS
    <2>2. run' = [run EXCEPT ![w] = r] /\ UNCHANGED <<q, dlq, stored, fails, refused>>
      BY <1>4, <2>1 DEF Skip
    <2>3. r \in RunState /\ r.pc = "working" /\ r.cur = NoBatch /\ r.seen = run[w].seen
      BY <1>1, <1>4, <2>1 DEF Skip, RunState, RetryInvariant, ClaimHolds
    <2>4. \A c \in Batch : r.seen[c] \in {0, run[w].seen[c], q[c].attempts}
      BY <2>3
    <2>5. \A c \in Batch : r.seen[c] < MaxAttempts
      BY <2>3 DEF RetryInvariant, AttemptLeft
    <2> QED
      BY <2>2, <2>3, <2>4, <2>5, RunMoves
  <1> QED
    BY <1>2, <1>3, <1>4

(* A claim finds the row waiting, so no other run is at it.                   *)
LEMMA ClaimStep ==
  ASSUME RetryInvariant, NEW w \in Run, NEW b \in Batch, Claim(w, b) PROVE RetryInvariant'
  <1> USE RetryAssumption
  <1>1. run[w] \in RunState /\ q[b] \in Row /\ q[b].status = "pending" /\ b # NoBatch
    BY DEF Claim, RetryInvariant, TypeOK
  <1>2. /\ q' = [q EXCEPT ![b].status = "processing"]
        /\ run' = [run EXCEPT ![w] = [run[w] EXCEPT !.pc = "replaying", !.cur = b,
                                                  !.todo = run[w].todo \ {b}]]
        /\ UNCHANGED <<dlq, stored, fails, refused>>
    BY DEF Claim
  <1>3. /\ q' \in [Batch -> Row] /\ run' \in [Run -> RunState]
        /\ q'[b].status = "processing" /\ q'[b].attempts = q[b].attempts
        /\ \A c \in Batch : c # b => q'[c] = q[c]
        /\ run'[w].pc = "replaying" /\ run'[w].cur = b /\ run'[w].seen = run[w].seen
        /\ \A v \in Run : v # w => run'[v] = run[v]
    BY <1>1, <1>2 DEF RetryInvariant, TypeOK, Row, RunState, QueueStatus
  <1>4. \A v \in Run : run[v].cur # b
    BY <1>1 DEF RetryInvariant, ClaimHolds
  <1>5. TypeOK'
    BY <1>2, <1>3 DEF RetryInvariant, TypeOK
  <1>6. ClaimHolds'
    <2> SUFFICES ASSUME NEW v \in Run
                 PROVE  /\ run'[v].cur # NoBatch <=> run'[v].pc \in {"replaying", "replayed", "buried"}
                        /\ run'[v].cur # NoBatch => q'[run'[v].cur].status = "processing"
      BY DEF ClaimHolds
    <2>1. CASE v = w
      BY <1>1, <1>3, <2>1
    <2>2. CASE v # w
      <3>1. run[v].cur \in Batch \cup {NoBatch}
        BY DEF RetryInvariant, TypeOK, RunState
      <3> QED
        BY <1>3, <1>4, <2>2, <3>1 DEF RetryInvariant, ClaimHolds
    <2> QED
      BY <2>1, <2>2
  <1>7. OneReplayer'
    BY <1>3, <1>4 DEF RetryInvariant, OneReplayer
  <1>8. CountIsTrue' /\ AttemptLeft'
    BY <1>2, <1>3 DEF RetryInvariant, CountIsTrue, AttemptLeft
  <1>9. FailureKnown'
    BY <1>2, <1>3 DEF RetryInvariant, FailureKnown
  <1>10. DeadWasTried'
    BY <1>2, <1>3 DEF RetryInvariant, DeadWasTried
  <1> QED
    BY <1>5, <1>6, <1>7, <1>8, <1>9, <1>10 DEF RetryInvariant

(* The replay of a claimed row ends, and a failure is one more than those the *)
(* run had read; so is one that no longer fits the count of fails.            *)
LEMMA ReplayStep ==
  ASSUME RetryInvariant, NEW w \in Run, ReplayRows(w) PROVE RetryInvariant'
  <1> USE RetryAssumption
  <1>1. PICK b \in Batch : b = run[w].cur
    BY DEF ReplayRows, RetryInvariant, ClaimHolds, TypeOK, RunState
  <1>2. PICK ok \in BOOLEAN :
          /\ run' = [run EXCEPT ![w].pc = "replayed", ![w].ok = ok]
          /\ stored' \in (IF ok THEN {} ELSE {stored}) \cup {stored \cup {b}}
          /\ fails' = [fails EXCEPT ![b] = IF ok \/ @ > MaxAttempts THEN @ ELSE @ + 1]
          /\ UNCHANGED <<q, dlq, refused>>
    BY <1>1 DEF ReplayRows
  <1>3. run[w] \in RunState /\ run[w].pc = "replaying" /\ fails \in [Batch -> 0..MaxAttempts + 1]
    BY DEF ReplayRows, RetryInvariant, TypeOK
  <1>4. /\ run' \in [Run -> RunState]
        /\ run'[w].pc = "replayed" /\ run'[w].ok = ok
        /\ run'[w].cur = b /\ run'[w].seen = run[w].seen
        /\ \A v \in Run : v # w => run'[v] = run[v]
    BY <1>1, <1>2, <1>3 DEF RetryInvariant, TypeOK, RunState
  <1>5. /\ fails' \in [Batch -> 0..MaxAttempts + 1]
        /\ \A c \in Batch : fails[c] <= fails'[c]
        /\ ~ok => fails'[b] = fails[b] + 1 \/ fails'[b] = MaxAttempts + 1
    BY <1>2, <1>3
  <1>6. TypeOK'
    BY <1>2, <1>4, <1>5 DEF RetryInvariant, TypeOK
  <1>7. ClaimHolds' /\ OneReplayer'
    BY <1>1, <1>2, <1>3, <1>4 DEF RetryInvariant, ClaimHolds, OneReplayer
  <1>8. CountIsTrue'
    <2>1. \A c \in Batch : q[c].attempts \in Int /\ fails[c] \in Int /\ fails'[c] \in Int
      BY <1>3, <1>5 DEF RetryInvariant, TypeOK, Row
    <2>2. \A v \in Run, c \in Batch : run[v].seen[c] \in Int
      BY DEF RetryInvariant, TypeOK, RunState
    <2>3. \A v \in Run : run'[v].seen = run[v].seen
      BY <1>4
    <2>4. ASSUME NEW c \in Batch PROVE q'[c].attempts <= fails'[c]
      BY <1>2, <1>5, <2>1 DEF RetryInvariant, CountIsTrue
    <2>5. ASSUME NEW v \in Run, NEW c \in Batch PROVE run'[v].seen[c] <= fails'[c]
      <3>1. run[v].seen[c] <= fails[c]
        BY DEF RetryInvariant, CountIsTrue
      <3> QED
        BY <1>5, <2>1, <2>2, <2>3, <3>1
    <2> QED
      BY <2>4, <2>5 DEF CountIsTrue
  <1>9. AttemptLeft'
    BY <1>2, <1>4 DEF RetryInvariant, AttemptLeft
  <1>10. FailureKnown'
    <2> SUFFICES ASSUME NEW v \in Run
                 PROVE  /\ run'[v].pc = "replayed" /\ ~run'[v].ok =>
                             run'[v].seen[run'[v].cur] + 1 <= fails'[run'[v].cur]
                        /\ run'[v].pc = "buried" =>
                             /\ ShouldDeadLetter(run'[v].seen[run'[v].cur])
                             /\ run'[v].seen[run'[v].cur] + 1 <= fails'[run'[v].cur]
      BY DEF FailureKnown
    <2>1. CASE v = w
      <3>1. run[w].seen[b] <= fails[b] /\ run[w].seen[b] \in 0..MaxAttempts
        BY <1>3 DEF RetryInvariant, CountIsTrue, RunState
      <3>2. ~ok => run[w].seen[b] + 1 <= fails'[b]
        BY <1>3, <1>5, <3>1
      <3> QED
        BY <1>4, <2>1, <3>2
    <2>2. CASE v # w
      <3>1. run'[v] = run[v]
        BY <1>4, <2>2
      <3>2. run[v].cur # NoBatch => run[v].cur \in Batch /\ run[v].seen[run[v].cur] \in Int
        BY DEF RetryInvariant, TypeOK, RunState
      <3>3. \A c \in Batch : fails[c] \in Int /\ fails'[c] \in Int /\ fails[c] <= fails'[c]
        BY <1>3, <1>5
      <3> QED
        BY <3>1, <3>2, <3>3 DEF RetryInvariant, FailureKnown, ClaimHolds
    <2> QED
      BY <2>1, <2>2
  <1>11. DeadWasTried'
    BY <1>2, <1>3, <1>5 DEF RetryInvariant, DeadWasTried
  <1> QED
    BY <1>6, <1>7, <1>8, <1>9, <1>10, <1>11 DEF RetryInvariant

(* A run writes the row it has claimed, to which no other run is, and goes on. *)
LEMMA RunWrites ==
  ASSUME RetryInvariant, NEW w \in Run, NEW b \in Batch, b = run[w].cur,
         run' = GoOn(w), NEW put \in Row, q' = [q EXCEPT ![b] = put],
         UNCHANGED <<dlq, stored, fails, refused>>,
         put.attempts <= fails[b],
         put.status \in {"none", "pending"} => put.attempts < MaxAttempts,
         put.status = "dead" => fails[b] >= MaxAttempts
  PROVE  RetryInvariant'
  <1> USE RetryAssumption
  <1>1. /\ run' \in [Run -> RunState]
        /\ run'[w].pc = "working" /\ run'[w].cur = NoBatch /\ run'[w].seen = run[w].seen
        /\ \A v \in Run : v # w => run'[v] = run[v]
    BY DEF GoOn, RetryInvariant, TypeOK, RunState
  <1>2. q' \in [Batch -> Row] /\ q'[b] = put /\ \A c \in Batch : c # b => q'[c] = q[c]
    BY DEF RetryInvariant, TypeOK
  <1>3. b # NoBatch /\ \A v \in Run : v # w => run[v].cur # b
    BY DEF RetryInvariant, OneReplayer
  <1>4. TypeOK'
    BY <1>1, <1>2 DEF RetryInvariant, TypeOK
  <1>5. ClaimHolds'
    <2> SUFFICES ASSUME NEW v \in Run
                 PROVE  /\ run'[v].cur # NoBatch <=> run'[v].pc \in {"replaying", "replayed", "buried"}
                        /\ run'[v].cur # NoBatch => q'[run'[v].cur].status = "processing"
      BY DEF ClaimHolds
    <2>1. CASE v = w
      BY <1>1, <2>1
    <2>2. CASE v # w
      <3>1. run[v].cur \in Batch \cup {NoBatch}
        BY DEF RetryInvariant, TypeOK, RunState
      <3> QED
        BY <1>1, <1>2, <1>3, <2>2, <3>1 DEF RetryInvariant, ClaimHolds
    <2> QED
      BY <2>1, <2>2
  <1>6. OneReplayer'
    BY <1>1 DEF RetryInvariant, OneReplayer
  <1>7. CountIsTrue' /\ AttemptLeft'
    BY <1>1, <1>2 DEF RetryInvariant, CountIsTrue, AttemptLeft
  <1>8. FailureKnown'
    BY <1>1 DEF RetryInvariant, FailureKnown
  <1>9. DeadWasTried'
    BY <1>2 DEF RetryInvariant, DeadWasTried
  <1> QED
    BY <1>4, <1>5, <1>6, <1>7, <1>8, <1>9 DEF RetryInvariant

(* The row a run is at, and what the run has read of it.                      *)
LEMMA AtRow ==
  ASSUME RetryInvariant, NEW w \in Run, run[w].pc \in {"replaying", "replayed", "buried"}
  PROVE  /\ run[w].cur \in Batch /\ q[run[w].cur] \in Row
         /\ q[run[w].cur].status = "processing"
         /\ q[run[w].cur].attempts <= fails[run[w].cur]
         /\ run[w].seen[run[w].cur] \in Nat /\ run[w].seen[run[w].cur] < MaxAttempts
         /\ fails[run[w].cur] \in Nat
  BY RetryAssumption
     DEF RetryInvariant, TypeOK, ClaimHolds, CountIsTrue, AttemptLeft, RunState

LEMMA RecordStep ==
  ASSUME RetryInvariant, NEW w \in Run, RecordSuccess(w) \/ Requeue(w) \/ MarkDead(w)
  PROVE  RetryInvariant'
  <1> USE RetryAssumption
  <1>1. run[w].pc \in {"replaying", "replayed", "buried"}
    BY DEF RecordSuccess, Requeue, MarkDead
  <1>2. PICK b \in Batch : b = run[w].cur
    BY <1>1, AtRow
  <1>3. /\ q[b] \in Row /\ q[b].status = "processing" /\ q[b].attempts <= fails[b]
        /\ run[w].seen[b] \in Nat /\ run[w].seen[b] < MaxAttempts /\ fails[b] \in Nat
    BY <1>1, <1>2, AtRow
  <1>4. CASE RecordSuccess(w)
    <2>1. q' = [q EXCEPT ![b] = q[b]] /\ run' = GoOn(w) /\ UNCHANGED <<dlq, stored, fails, refused>>
      BY <1>4 DEF RecordSuccess, QueueStatus, RetryInvariant, TypeOK
    <2> QED
      BY <1>2, <1>3, <2>1, RunWrites
  <1>5. CASE Requeue(w)
    <2>1. PICK put : put = [status |-> "pending", attempts |-> run[w].seen[b] + 1, due |-> FALSE]
      OBVIOUS
    <2>2. /\ q' = [q EXCEPT ![b] = put] /\ run' = GoOn(w)
          /\ UNCHANGED <<dlq, stored, fails, refused>>
      BY <1>2, <1>5, <2>1 DEF Requeue
    <2>3. run[w].seen[b] + 1 <= fails[b] /\ run[w].seen[b] + 1 < MaxAttempts
      BY <1>2, <1>3, <1>5 DEF Requeue, RetryInvariant, FailureKnown
    <2>4. put \in Row /\ put.attempts <= fails[b] /\ put.attempts < MaxAttempts
          /\ put.status # "dead"
      BY <1>3, <2>1, <2>3 DEF Row, QueueStatus
    <2> QED
      BY <1>2, <2>2, <2>4, RunWrites
  <1>6. CASE MarkDead(w)
    <2>1. PICK put : put = [q[b] EXCEPT !.status = "dead", !.attempts = run[w].seen[b] + 1]
      OBVIOUS
    <2>2. /\ q' = [q EXCEPT ![b] = put] /\ run' = GoOn(w)
          /\ UNCHANGED <<dlq, stored, fails, refused>>
      BY <1>2, <1>6, <2>1 DEF MarkDead, RetryInvariant, TypeOK
    <2>3. run[w].seen[b] + 1 <= fails[b] /\ run[w].seen[b] + 1 >= MaxAttempts
      BY <1>2, <1>6 DEF MarkDead, RetryInvariant, FailureKnown
    <2>4. put.status = "dead" /\ put.attempts = run[w].seen[b] + 1 /\ put \in Row
      <3>1. run[w].seen[b] + 1 \in 0..MaxAttempts
        BY <1>3
      <3>2. put = [status |-> "dead", attempts |-> run[w].seen[b] + 1, due |-> q[b].due]
        BY <1>3, <2>1 DEF Row
      <3>3. q[b].due \in BOOLEAN
        BY <1>3 DEF Row
      <3> QED
        BY <3>1, <3>2, <3>3 DEF Row, QueueStatus
    <2>5. put.attempts <= fails[b] /\ fails[b] >= MaxAttempts
      <3>1. run[w].seen[b] \in Nat /\ fails[b] \in Nat
        BY <1>3
      <3> QED
        BY <2>3, <2>4, <3>1
    <2> QED
      <3>1. put.status \in {"none", "pending"} => put.attempts < MaxAttempts
        BY <2>4
      <3>2. put.status = "dead" => fails[b] >= MaxAttempts
        BY <2>5
      <3>3. put \in Row /\ put.attempts <= fails[b]
        BY <2>4, <2>5
      <3> QED
        BY <1>2, <2>2, <3>1, <3>2, <3>3, RunWrites
  <1> QED
    BY <1>4, <1>5, <1>6

(* The dead letter is inserted for a row whose last failure is known.         *)
LEMMA DeadLetterStep ==
  ASSUME RetryInvariant, NEW w \in Run, DeadLetter(w) PROVE RetryInvariant'
  <1> USE RetryAssumption
  <1>1. PICK b \in Batch : b = run[w].cur
    BY AtRow DEF DeadLetter
  <1>2. /\ run[w].pc = "replayed" /\ ~run[w].ok /\ ShouldDeadLetter(run[w].seen[b])
        /\ dlq' \in {dlq, dlq \cup {b}}
        /\ run' = [run EXCEPT ![w].pc = "buried"] /\ UNCHANGED <<q, stored, fails, refused>>
    BY <1>1 DEF DeadLetter
  <1>3. /\ run' \in [Run -> RunState]
        /\ run'[w].pc = "buried" /\ run'[w].cur = b /\ run'[w].seen = run[w].seen
        /\ \A v \in Run : v # w => run'[v] = run[v]
    <2> DEFINE next == [run[w] EXCEPT !.pc = "buried"]
    <2>1. run \in [Run -> RunState] /\ run' = [run EXCEPT ![w] = next]
      BY <1>2 DEF RetryInvariant, TypeOK
    <2>2. /\ next \in RunState /\ next.pc = "buried" /\ next.cur = run[w].cur
          /\ next.seen = run[w].seen
      BY <2>1 DEF RunState
    <2> HIDE DEF next
    <2> QED
      BY <1>1, <2>1, <2>2
  <1>4. run[w].seen[b] + 1 <= fails[b]
    BY <1>1, <1>2 DEF RetryInvariant, FailureKnown
  <1>5. fails[b] >= MaxAttempts
    BY <1>1, <1>2, <1>4, AtRow
  <1>6. TypeOK'
    BY <1>2, <1>3 DEF RetryInvariant, TypeOK
  <1>7. ClaimHolds' /\ OneReplayer'
    BY <1>1, <1>2, <1>3 DEF RetryInvariant, ClaimHolds, OneReplayer
  <1>8. CountIsTrue' /\ AttemptLeft'
    BY <1>2, <1>3 DEF RetryInvariant, CountIsTrue, AttemptLeft
  <1>9. FailureKnown'
    BY <1>2, <1>3, <1>4 DEF RetryInvariant, FailureKnown
  <1>10. DeadWasTried'
    BY <1>2, <1>5 DEF RetryInvariant, DeadWasTried
  <1> QED
    BY <1>6, <1>7, <1>8, <1>9, <1>10 DEF RetryInvariant

LEMMA RetryNext ==
  ASSUME RetryInvariant, [Next]_vars PROVE RetryInvariant'
  <1>1. ASSUME NEW b \in Batch, Park(b) \/ Tick(b) \/ ReplayDeadLetters(b) PROVE RetryInvariant'
    BY <1>1, ParkStep
  <1>2. ASSUME NEW w \in Run, RunStep(w) PROVE RetryInvariant'
    BY <1>2, ReadStep, ClaimStep, ReplayStep, RecordStep, DeadLetterStep DEF RunStep
  <1>3. ASSUME NEW w \in Run, Crash(w) \/ \E b \in Batch : Skip(w, b) PROVE RetryInvariant'
    BY <1>3, ReadStep
  <1>4. CASE UNCHANGED vars
    BY <1>4 DEF vars, RetryInvariant, TypeOK, ClaimHolds, OneReplayer, CountIsTrue, AttemptLeft,
                FailureKnown, DeadWasTried
  <1> QED
    BY <1>1, <1>2, <1>3, <1>4 DEF Next

LEMMA RetryInductive == Spec => []RetryInvariant
  BY RetryInit, RetryNext, PTL DEF Spec

(* OneReplayer, for any number of batches and overlapping runs: the           *)
(* compare-and-set of the claim is enough, whatever the runs have read.       *)
THEOREM ClaimIsExclusive == Spec => []OneReplayer
  <1>1. RetryInvariant => OneReplayer
    BY DEF RetryInvariant
  <1> QED
    BY <1>1, RetryInductive, PTL

(* DeadWasTried, for any number of batches, runs and attempts: the count      *)
(* written back from an old read can forget a failure but never invent one.   *)
THEOREM GivenUpAfterItsAttempts == Spec => []DeadWasTried
  <1>1. RetryInvariant => DeadWasTried
    BY DEF RetryInvariant
  <1> QED
    BY <1>1, RetryInductive, PTL

------------------------------------------------------------------------------
(* Work saved in the field.                                                   *)
TabRow == [pc : {"idle", "draining", "posting"}, todo : SUBSET Key, cur : Key \cup {0},
           req : Req \cup {NoReq}]

ReqRow == [pc : {"free", "lookup", "mark", "work", "settle", "fail", "done", "error"},
           key : Key \cup {0}, found : BOOLEAN]

MirrorStatus == {"none", "pending", "synced", "failed"}

OfflineType ==
  /\ local \in [Key -> LocalStatus]
  /\ tab \in [Tab -> TabRow]
  /\ req \in [Req -> ReqRow]
  /\ mirror \in [Key -> MirrorStatus]
  /\ applied \in [Key -> 0..2]

(* A tab that waits for an answer has a request under way for the save it     *)
(* sent, and no other tab waits for the same one.                             *)
Waiting ==
  /\ \A r \in Req : req[r].pc # "free" => req[r].key \in Key
  /\ \A t \in Tab : tab[t].pc = "posting" =>
       /\ tab[t].cur \in Key /\ tab[t].req \in Req
       /\ req[tab[t].req].pc # "free" /\ req[tab[t].req].key = tab[t].cur
  /\ \A t, u \in Tab :
       tab[t].pc = "posting" /\ tab[u].pc = "posting" /\ tab[t].req = tab[u].req => t = u

(* Whatever speaks of success speaks of a save that was carried out.          *)
SuccessIsTrue ==
  /\ \A r \in Req : req[r].pc \in {"settle", "done"} => applied[req[r].key] >= 1
  /\ SyncedWasApplied
  /\ MirrorIsTrue

OfflineInv == OfflineType /\ Waiting /\ SuccessIsTrue

(* The oldest save is one of those to be sent.                               *)
LEMMA OldestIsOne ==
  ASSUME NEW S \in SUBSET Key, S # {}
  PROVE  Oldest(S) \in S
<1>1. S \subseteq Nat
  BY OfflineAssumption
<1>2. \E n \in S : \A m \in S : n <= m
  BY <1>1, LeastNumber
<1> QED
  BY <1>2 DEF Oldest, Min

LEMMA OfflineInvInit ==
  ASSUME OfflineInit
  PROVE  OfflineInv
BY OfflineAssumption DEF OfflineInit, OfflineInv, OfflineType, Waiting, SuccessIsTrue,
   SyncedWasApplied, MirrorIsTrue, LocalStatus, IdleTab, Free, TabRow, ReqRow, MirrorStatus

(* A save patched in the queue.                                               *)
LEMMA PatchStep ==
  ASSUME OfflineInv, NEW k \in Key, NEW s \in LocalStatus, Patch(k, s),
         s = "synced" => applied[k] >= 1, UNCHANGED applied
  PROVE  local' \in [Key -> LocalStatus] /\ SyncedWasApplied'
BY DEF OfflineInv, OfflineType, SuccessIsTrue, Patch, SyncedWasApplied

(* A request that arrives takes a free place.                                 *)
LEMMA ArriveStep ==
  ASSUME OfflineInv, NEW k \in Key, NEW r \in Req, req[r] = Free,
         req' = [req EXCEPT ![r] = Arrive(k)]
  PROVE  /\ req' \in [Req -> ReqRow]
         /\ req'[r].pc = "lookup" /\ req'[r].key = k
         /\ \A o \in Req \ {r} : req'[o] = req[o]
         /\ \A t \in Tab : tab[t].pc = "posting" => tab[t].req # r
<1>0. Free \in ReqRow /\ Free.pc = "free"
  BY DEF Free, ReqRow
<1>1. LET a == Arrive(k) IN a \in ReqRow /\ a.pc = "lookup" /\ a.key = k
  BY <1>0 DEF Arrive, ReqRow
<1>2. req[r].pc = "free"
  BY <1>0
<1> QED
  BY <1>1, <1>2 DEF OfflineInv, OfflineType, Waiting, ReqRow

LEMMA EnqueueStep ==
  ASSUME OfflineInv, NEW k \in Key, Enqueue(k)
  PROVE  OfflineInv'
<1>1. local' \in [Key -> LocalStatus] /\ SyncedWasApplied'
  BY DEF OfflineInv, OfflineType, SuccessIsTrue, Enqueue, SyncedWasApplied,
         LocalStatus
<1>2. UNCHANGED <<tab, mirror, applied>>
  BY DEF Enqueue
<1>3. CASE UNCHANGED req
  BY <1>1, <1>2, <1>3 DEF OfflineInv, OfflineType, SuccessIsTrue, Waiting, MirrorIsTrue
<1>4. CASE \E r \in Req : req[r] = Free /\ req' = [req EXCEPT ![r] = Arrive(k)]
  <2>1. PICK r \in Req : req[r] = Free /\ req' = [req EXCEPT ![r] = Arrive(k)]
    BY <1>4
  <2>2. /\ req' \in [Req -> ReqRow]
        /\ req'[r].pc = "lookup" /\ req'[r].key = k
        /\ \A o \in Req \ {r} : req'[o] = req[o]
        /\ \A t \in Tab : tab[t].pc = "posting" => tab[t].req # r
    BY <2>1, ArriveStep
  <2> QED
    BY <1>1, <1>2, <2>2 DEF OfflineInv, OfflineType, SuccessIsTrue, Waiting, MirrorIsTrue
<1> QED
  BY <1>3, <1>4 DEF Enqueue

LEMMA ButtonStep ==
  ASSUME OfflineInv, NEW k \in Key, Retry(k) \/ Discard(k)
  PROVE  OfflineInv'
BY DEF Retry, Discard, OfflineInv, OfflineType, SuccessIsTrue, Waiting,
       MirrorIsTrue, SyncedWasApplied,
       LocalStatus

(* A tab that does not wait for an answer.                                    *)
LEMMA IdleTabStep ==
  ASSUME OfflineInv, NEW t \in Tab,
         Start(t) \/ FinishTab(t) \/ Close(t)
  PROVE  OfflineInv'
<1>1. PICK x \in TabRow : x.pc # "posting" /\ tab' = [tab EXCEPT ![t] = x]
  BY DEF Start, FinishTab, Close, TabRow, IdleTab
<1>2. UNCHANGED <<local, req, mirror, applied>>
  BY DEF Start, FinishTab, Close
<1> QED
  BY <1>1, <1>2 DEF OfflineInv, OfflineType, SuccessIsTrue, Waiting, MirrorIsTrue,
                    SyncedWasApplied

LEMMA SendStep ==
  ASSUME OfflineInv, NEW t \in Tab, Send(t)
  PROVE  OfflineInv'
<1> DEFINE k == Oldest(tab[t].todo)
<1>1. tab[t].todo \in SUBSET Key /\ tab[t].todo # {} /\ tab[t] \in TabRow
  BY DEF Send, OfflineInv, OfflineType, TabRow
<1>2. k \in Key
  BY <1>1, OldestIsOne
<1>3. PICK r \in Req : /\ req[r] = Free /\ req' = [req EXCEPT ![r] = Arrive(k)]
                       /\ tab' = [tab EXCEPT ![t] = [pc |-> "posting", todo |-> @.todo \ {k},
                                                     cur |-> k, req |-> r]]
  BY DEF Send
<1>4. Patch(k, "syncing") /\ UNCHANGED <<mirror, applied>>
  BY DEF Send
<1> HIDE DEF k
<1>5. local' \in [Key -> LocalStatus] /\ SyncedWasApplied'
  BY <1>2, <1>4, PatchStep DEF LocalStatus
<1>6. /\ req' \in [Req -> ReqRow]
      /\ req'[r].pc = "lookup" /\ req'[r].key = k
      /\ \A o \in Req \ {r} : req'[o] = req[o]
      /\ \A u \in Tab : tab[u].pc = "posting" => tab[u].req # r
  BY <1>2, <1>3, ArriveStep
<1>7. /\ tab' \in [Tab -> TabRow]
      /\ tab'[t].pc = "posting" /\ tab'[t].cur = k /\ tab'[t].req = r
      /\ \A u \in Tab \ {t} : tab'[u] = tab[u]
  BY <1>1, <1>2, <1>3 DEF OfflineInv, OfflineType, TabRow
<1>8. Waiting'
  BY <1>2, <1>6, <1>7 DEF OfflineInv, Waiting
<1>9. SuccessIsTrue'
  BY <1>4, <1>5, <1>6 DEF OfflineInv, SuccessIsTrue, MirrorIsTrue
<1> QED
  BY <1>4, <1>5, <1>6, <1>7, <1>8, <1>9 DEF OfflineInv, OfflineType

(* A tab that goes on after its answer, or without one.                       *)
LEMMA GoOnStep ==
  ASSUME OfflineInv, NEW t \in Tab, tab' = NextSave(t)
  PROVE  /\ tab' \in [Tab -> TabRow] /\ tab'[t].pc = "draining"
         /\ \A u \in Tab \ {t} : tab'[u] = tab[u]
<1> DEFINE went == [tab[t] EXCEPT !.pc = "draining", !.cur = 0, !.req = NoReq]
<1>1. tab \in [Tab -> TabRow] /\ tab' = [tab EXCEPT ![t] = went]
  BY DEF OfflineInv, OfflineType, NextSave
<1>2. went \in TabRow /\ went.pc = "draining"
  BY <1>1 DEF TabRow
<1> HIDE DEF went
<1> QED
  BY <1>1, <1>2

LEMMA AnswerStep ==
  ASSUME OfflineInv, NEW t \in Tab, Answer(t)
  PROVE  OfflineInv'
<1> DEFINE r == tab[t].req
<1> DEFINE k == tab[t].cur
<1>1. /\ k \in Key /\ r \in Req /\ req[r].key = k
      /\ \A u \in Tab \ {t} : tab[u].pc = "posting" => tab[u].req # r
  BY DEF OfflineInv, Waiting, Answer
<1>2. PICK s \in LocalStatus :
        Patch(k, s) /\ (s = "synced" => req[r].pc = "done")
  BY DEF Answer, LocalStatus
<1>3. /\ req' = [req EXCEPT ![r] = Free] /\ tab' = NextSave(t)
      /\ UNCHANGED <<mirror, applied>>
  BY DEF Answer
<1> HIDE DEF r, k
<1>4. s = "synced" => applied[k] >= 1
  BY <1>1, <1>2 DEF OfflineInv, SuccessIsTrue
<1>5. local' \in [Key -> LocalStatus] /\ SyncedWasApplied'
  BY <1>1, <1>2, <1>3, <1>4, PatchStep
<1>6. /\ req' \in [Req -> ReqRow] /\ req'[r].pc = "free"
      /\ \A o \in Req \ {r} : req'[o] = req[o]
  BY <1>1, <1>3 DEF OfflineInv, OfflineType, Free, ReqRow
<1>7. /\ tab' \in [Tab -> TabRow] /\ tab'[t].pc = "draining"
      /\ \A u \in Tab \ {t} : tab'[u] = tab[u]
  BY <1>3, GoOnStep
<1>8. Waiting'
  BY <1>1, <1>6, <1>7 DEF OfflineInv, Waiting
<1>9. SuccessIsTrue'
  BY <1>1, <1>3, <1>5, <1>6 DEF OfflineInv, SuccessIsTrue, MirrorIsTrue
<1> QED
  BY <1>3, <1>5, <1>6, <1>7, <1>8, <1>9 DEF OfflineInv, OfflineType

LEMMA LoseAnswerStep ==
  ASSUME OfflineInv, NEW t \in Tab, LoseAnswer(t)
  PROVE  OfflineInv'
<1>1. tab[t].cur \in Key
  BY DEF OfflineInv, Waiting, LoseAnswer
<1>2. /\ Patch(tab[t].cur, "pending") /\ tab' = NextSave(t)
      /\ UNCHANGED <<req, mirror, applied>>
  BY DEF LoseAnswer
<1>3. local' \in [Key -> LocalStatus] /\ SyncedWasApplied'
  BY <1>1, <1>2, PatchStep DEF LocalStatus
<1>4. /\ tab' \in [Tab -> TabRow] /\ tab'[t].pc = "draining"
      /\ \A u \in Tab \ {t} : tab'[u] = tab[u]
  BY <1>2, GoOnStep
<1> QED
  BY <1>2, <1>3, <1>4 DEF OfflineInv, OfflineType, Waiting, SuccessIsTrue, MirrorIsTrue

(* A step of the server that leaves the mirror alone or clears a row of it.   *)
LEMMA ServerMoves ==
  ASSUME OfflineInv, NEW r \in Req, NEW x \in ReqRow, req' = [req EXCEPT ![r] = x],
         req[r].pc # "free", x.pc # "free", x.key = req[r].key,
         mirror' \in [Key -> MirrorStatus],
         \A k \in Key : mirror'[k] = "synced" => mirror[k] = "synced" \/ applied[k] >= 1,
         x.pc \in {"settle", "done"} => applied'[req[r].key] >= 1,
         applied' \in [Key -> 0..2], \A k \in Key : applied'[k] >= applied[k],
         UNCHANGED <<local, tab>>
  PROVE  OfflineInv'
<1>1. /\ req' \in [Req -> ReqRow] /\ req'[r] = x
      /\ \A o \in Req \ {r} : req'[o] = req[o]
  BY DEF OfflineInv, OfflineType
<1>2. Waiting'
  BY <1>1 DEF OfflineInv, Waiting
<1>3. \A k \in Key : applied[k] >= 1 => applied'[k] >= 1
  BY DEF OfflineInv, OfflineType
<1>4. SuccessIsTrue'
  BY <1>1, <1>3 DEF OfflineInv, Waiting, SuccessIsTrue, SyncedWasApplied,
                    MirrorIsTrue
<1> QED
  BY <1>1, <1>2, <1>4 DEF OfflineInv, OfflineType

LEMMA LookupStep ==
  ASSUME OfflineInv, NEW r \in Req, Lookup(r)
  PROVE  OfflineInv'
<1>1. /\ req[r].pc = "lookup" /\ req[r] \in ReqRow /\ req[r].key \in Key
      /\ UNCHANGED <<local, tab, mirror, applied>>
  BY DEF Lookup, OfflineInv, OfflineType, Waiting
<1> DEFINE x == [req[r] EXCEPT !.pc = IF mirror[req[r].key] = "synced" THEN "done" ELSE "mark",
                               !.found = mirror[req[r].key] # "none"]
<1>2. /\ x \in ReqRow /\ x.key = req[r].key /\ x.pc \in {"done", "mark"}
      /\ x.pc = "done" => mirror[req[r].key] = "synced"
  BY <1>1 DEF ReqRow
<1>5. req' = [req EXCEPT ![r] = x]
  BY DEF Lookup
<1> HIDE DEF x
<1>3. x.pc \in {"settle", "done"} => applied'[req[r].key] >= 1
  BY <1>1, <1>2 DEF OfflineInv, SuccessIsTrue, MirrorIsTrue
<1>4. mirror' \in [Key -> MirrorStatus] /\ applied' \in [Key -> 0..2]
      /\ \A k \in Key : applied'[k] >= applied[k]
  BY <1>1 DEF OfflineInv, OfflineType
<1> QED
  BY <1>1, <1>2, <1>3, <1>4, <1>5, ServerMoves

(* The other steps move the request on with its key.                          *)
LEMMA Moved ==
  ASSUME OfflineInv, NEW r \in Req, NEW p \in {"mark", "work", "settle", "fail", "done", "error"},
         req' = [req EXCEPT ![r].pc = p], req[r].pc # "free"
  PROVE  \E x \in ReqRow : req' = [req EXCEPT ![r] = x] /\ x.key = req[r].key /\ x.pc = p
<1> DEFINE x == [req[r] EXCEPT !.pc = p]
<1>1. x \in ReqRow /\ x.key = req[r].key /\ x.pc = p
  BY DEF OfflineInv, OfflineType, ReqRow
<1>2. req' = [req EXCEPT ![r] = x]
  OBVIOUS
<1> QED
  BY <1>1, <1>2

LEMMA MarkPendingStep ==
  ASSUME OfflineInv, NEW r \in Req, MarkPending(r)
  PROVE  OfflineInv'
<1>1. /\ req[r].pc = "mark" /\ req[r].key \in Key /\ UNCHANGED <<local, tab, applied>>
  BY DEF MarkPending, OfflineInv, Waiting
<1>2. PICK p : p \in {"error", "work"} /\ req' = [req EXCEPT ![r].pc = p]
  BY DEF MarkPending
<1>3. PICK x \in ReqRow : req' = [req EXCEPT ![r] = x] /\ x.key = req[r].key /\ x.pc = p
  <2>1. p \in {"mark", "work", "settle", "fail", "done", "error"}
    BY <1>2
  <2> QED
    BY <1>1, <1>2, <2>1, Moved
<1>4. mirror' = mirror \/ mirror' = [mirror EXCEPT ![req[r].key] = "pending"]
  BY DEF MarkPending
<1>5. /\ mirror' \in [Key -> MirrorStatus]
      /\ \A k \in Key : mirror'[k] = "synced" => mirror[k] = "synced"
  BY <1>1, <1>4 DEF OfflineInv, OfflineType, MirrorStatus
<1>6. applied' \in [Key -> 0..2] /\ \A k \in Key : applied'[k] >= applied[k]
  BY <1>1 DEF OfflineInv, OfflineType
<1>7. x.pc \notin {"free", "settle", "done"}
  BY <1>2, <1>3
<1> QED
  BY <1>1, <1>3, <1>5, <1>6, <1>7, ServerMoves

LEMMA DoWorkStep ==
  ASSUME OfflineInv, NEW r \in Req, DoWork(r)
  PROVE  OfflineInv'
<1>1. /\ req[r].pc = "work" /\ req[r].key \in Key /\ UNCHANGED <<local, tab, mirror>>
  BY DEF DoWork, OfflineInv, Waiting
<1>2. PICK x \in ReqRow : req' = [req EXCEPT ![r] = x] /\ x.key = req[r].key /\ x.pc = "settle"
  BY <1>1, Moved DEF DoWork
<1>3. /\ applied' \in [Key -> 0..2] /\ \A k \in Key : applied'[k] >= applied[k]
      /\ applied'[req[r].key] >= 1
  BY <1>1 DEF DoWork, OfflineInv, OfflineType
<1>4. mirror' \in [Key -> MirrorStatus]
  BY <1>1 DEF OfflineInv, OfflineType
<1> QED
  BY <1>1, <1>2, <1>3, <1>4, ServerMoves

LEMMA MarkSyncedStep ==
  ASSUME OfflineInv, NEW r \in Req, MarkSynced(r)
  PROVE  OfflineInv'
<1>1. /\ req[r].pc = "settle" /\ req[r].key \in Key /\ UNCHANGED <<local, tab, applied>>
  BY DEF MarkSynced, OfflineInv, Waiting
<1>2. PICK x \in ReqRow : req' = [req EXCEPT ![r] = x] /\ x.key = req[r].key /\ x.pc = "done"
  BY <1>1, Moved DEF MarkSynced
<1>3. applied[req[r].key] >= 1
  BY <1>1 DEF OfflineInv, SuccessIsTrue
<1>4. mirror' = mirror \/ mirror' = [mirror EXCEPT ![req[r].key] = "synced"]
  BY DEF MarkSynced
<1>5. /\ mirror' \in [Key -> MirrorStatus]
      /\ \A k \in Key : mirror'[k] = "synced" => mirror[k] = "synced" \/ applied[k] >= 1
  BY <1>1, <1>3, <1>4 DEF OfflineInv, OfflineType, MirrorStatus
<1>6. applied' \in [Key -> 0..2] /\ \A k \in Key : applied'[k] >= applied[k]
  BY <1>1 DEF OfflineInv, OfflineType
<1> QED
  BY <1>1, <1>2, <1>3, <1>5, <1>6, ServerMoves

(* A call that is refused, or whose server dies, claims nothing.              *)
LEMMA FailStep ==
  ASSUME OfflineInv, NEW r \in Req,
         RefuseWork(r) \/ MarkFailed(r) \/ Die(r)
  PROVE  OfflineInv'
<1>1. /\ req[r].pc # "free" /\ req[r].key \in Key /\ UNCHANGED <<local, tab, applied>>
  BY DEF RefuseWork, MarkFailed, Die, OfflineInv, Waiting
<1>2. PICK p : p \in {"fail", "error"} /\ req' = [req EXCEPT ![r].pc = p]
  BY DEF RefuseWork, MarkFailed, Die
<1>3. PICK x \in ReqRow : req' = [req EXCEPT ![r] = x] /\ x.key = req[r].key /\ x.pc = p
  <2>1. p \in {"mark", "work", "settle", "fail", "done", "error"}
    BY <1>2
  <2> QED
    BY <1>1, <1>2, <2>1, Moved
<1>4. mirror' = mirror \/ mirror' = [mirror EXCEPT ![req[r].key] = "failed"]
  BY DEF RefuseWork, MarkFailed, Die
<1>5. /\ mirror' \in [Key -> MirrorStatus]
      /\ \A k \in Key : mirror'[k] = "synced" => mirror[k] = "synced"
  BY <1>1, <1>4 DEF OfflineInv, OfflineType, MirrorStatus
<1>6. applied' \in [Key -> 0..2] /\ \A k \in Key : applied'[k] >= applied[k]
  BY <1>1 DEF OfflineInv, OfflineType
<1> QED
  BY <1>1, <1>2, <1>3, <1>5, <1>6, ServerMoves

LEMMA DropStep ==
  ASSUME OfflineInv, NEW r \in Req, Drop(r)
  PROVE  OfflineInv'
<1>1. /\ req' \in [Req -> ReqRow] /\ req'[r].pc = "free"
      /\ \A o \in Req \ {r} : req'[o] = req[o]
  BY DEF OfflineInv, OfflineType, Drop, Free, ReqRow
<1>2. UNCHANGED <<local, tab, mirror, applied>> /\ \A t \in Tab : tab[t].req # r
  BY DEF Drop
<1> QED
  BY <1>1, <1>2 DEF OfflineInv, OfflineType, Waiting, SuccessIsTrue, SyncedWasApplied,
                    MirrorIsTrue

LEMMA OfflineInvNext ==
  ASSUME OfflineInv, [OfflineNext]_offlineVars
  PROVE  OfflineInv'
<1>1. CASE \E k \in Key : Enqueue(k) \/ Retry(k) \/ Discard(k)
  BY <1>1, EnqueueStep, ButtonStep
<1>2. CASE \E t \in Tab : \/ Start(t) \/ Send(t) \/ Answer(t)
                         \/ LoseAnswer(t) \/ FinishTab(t) \/ Close(t)
  BY <1>2, IdleTabStep, SendStep, AnswerStep, LoseAnswerStep
<1>3. CASE \E r \in Req : ServerStep(r) \/ Die(r)
  BY <1>3, LookupStep, MarkPendingStep, DoWorkStep, MarkSyncedStep, FailStep, DropStep
     DEF ServerStep
<1>4. CASE UNCHANGED offlineVars
  BY <1>4 DEF offlineVars, OfflineInv, OfflineType, Waiting, SuccessIsTrue,
              SyncedWasApplied, MirrorIsTrue
<1> QED
  BY <1>1, <1>2, <1>3, <1>4 DEF OfflineNext

LEMMA OfflineAlways == OfflineSpec => []OfflineInv
<1>1. OfflineInit => OfflineInv
  BY OfflineInvInit
<1>2. OfflineInv /\ [OfflineNext]_offlineVars => OfflineInv'
  BY OfflineInvNext
<1> QED
  BY <1>1, <1>2, PTL DEF OfflineSpec

(* A save the field user sees as synced was carried out, whatever the number  *)
(* of saves, tabs and requests under way, with answers lost, tabs closed and  *)
(* servers dying between any two steps (syncQueue and withIdempotency).       *)
THEOREM SyncedSavesApplied == OfflineSpec => []SyncedWasApplied
<1>1. OfflineInv => SyncedWasApplied
  BY DEF OfflineInv, SuccessIsTrue
<1> QED
  BY <1>1, OfflineAlways, PTL

(* The mirror row answers a call from its record only for work that was done  *)
(* (withIdempotency), likewise.                                               *)
THEOREM MirrorRowsTrue == OfflineSpec => []MirrorIsTrue
<1>1. OfflineInv => MirrorIsTrue
  BY DEF OfflineInv, SuccessIsTrue
<1> QED
  BY <1>1, OfflineAlways, PTL

(* What is known of save k: a request at work for it has a mirror row; and    *)
(* unless the save is in doubt, only one request is, and that request, or the *)
(* mirror, can tell whether the save was carried out.                         *)
Told(k) ==
  /\ \A r \in Req : AtWork(r, k) => mirror[k] # "none"
  /\ k \notin doubtful =>
       /\ \A r, o \in Req : AtWork(r, k) /\ AtWork(o, k) => r = o
       /\ \A r \in Req : AtWork(r, k) /\ req[r].pc # "settle" => applied[k] = 0
       /\ applied[k] <= 1
       /\ applied[k] = 1 =>
            mirror[k] = "synced" \/ \E r \in Req : AtWork(r, k) /\ req[r].pc = "settle"

DoubtInv == OfflineInv /\ \A k \in Key : Told(k)

(* A step that changes nothing of what the server knows of a save.            *)
LEMMA ToldStands ==
  ASSUME NEW k \in Key, Told(k), mirror'[k] = mirror[k], applied'[k] = applied[k],
         k \in doubtful => k \in doubtful',
         \A r \in Req : /\ AtWork(r, k)' <=> AtWork(r, k)
                        /\ AtWork(r, k) => req'[r].pc = req[r].pc
  PROVE  Told(k)'
BY DEF Told

(* The browser starts requests and reads their answers.                       *)
LEMMA ToldBrowser ==
  ASSUME DoubtInv, UNCHANGED <<mirror, applied, doubtful>>,
         \A r \in Req : \/ req'[r] = req[r]
                        \/ /\ req[r].pc \in {"free", "lookup", "done", "error"}
                           /\ req'[r].pc \in {"free", "lookup"}
  PROVE  \A k \in Key : Told(k)'
<1> TAKE k \in Key
<1>1. \A r \in Req : /\ AtWork(r, k)' <=> AtWork(r, k)
                     /\ AtWork(r, k) => req'[r].pc = req[r].pc
  BY DEF AtWork
<1> QED
  BY <1>1, ToldStands DEF DoubtInv

LEMMA ToldSaves ==
  ASSUME DoubtInv,
         \/ \E k \in Key : Enqueue(k) \/ Retry(k) \/ Discard(k)
         \/ \E t \in Tab : \/ Start(t) \/ Send(t) \/ Answer(t)
                           \/ LoseAnswer(t) \/ FinishTab(t) \/ Close(t)
  PROVE  \A k \in Key : Told(k)'
<1>1. /\ req \in [Req -> ReqRow] /\ Free.pc = "free"
      /\ \A k \in Key : Arrive(k).pc = "lookup"
  BY DEF DoubtInv, OfflineInv, OfflineType, Free, Arrive
<1>2. CASE \E k \in Key : Enqueue(k) \/ Retry(k) \/ Discard(k)
  <2>1. /\ UNCHANGED <<mirror, applied, doubtful>>
        /\ \/ req' = req
           \/ \E r \in Req, k \in Key : req[r] = Free /\ req' = [req EXCEPT ![r] = Arrive(k)]
    BY <1>2 DEF Enqueue, Retry, Discard
  <2>2. CASE req' = req
    BY <2>1, <2>2, ToldBrowser
  <2>3. ASSUME NEW r \in Req, NEW k \in Key, req[r] = Free, req' = [req EXCEPT ![r] = Arrive(k)]
        PROVE  \A j \in Key : Told(j)'
    BY <1>1, <2>1, <2>3, ToldBrowser
  <2> QED
    BY <2>1, <2>2, <2>3
<1>3. ASSUME NEW t \in Tab, Start(t) \/ FinishTab(t) \/ Close(t) \/ LoseAnswer(t)
      PROVE  \A k \in Key : Told(k)'
  <2>1. UNCHANGED <<req, mirror, applied, doubtful>>
    BY <1>3 DEF Start, FinishTab, Close, LoseAnswer
  <2> QED
    BY <2>1, ToldBrowser
<1>4. ASSUME NEW t \in Tab, Send(t)
      PROVE  \A k \in Key : Told(k)'
  <2>1. PICK r \in Req, k \in Key :
          /\ req[r] = Free /\ req' = [req EXCEPT ![r] = Arrive(k)]
          /\ UNCHANGED <<mirror, applied, doubtful>>
    <3>1. tab[t].todo \in SUBSET Key /\ tab[t].todo # {}
      BY <1>4 DEF Send, DoubtInv, OfflineInv, OfflineType, TabRow
    <3>2. Oldest(tab[t].todo) \in Key
      BY <3>1, OldestIsOne
    <3> QED
      BY <1>4, <3>2 DEF Send
  <2> QED
    BY <1>1, <2>1, ToldBrowser
<1>5. ASSUME NEW t \in Tab, Answer(t)
      PROVE  \A k \in Key : Told(k)'
  <2> DEFINE r == tab[t].req
  <2>1. /\ req[r].pc \in {"done", "error"} /\ req' = [req EXCEPT ![r] = Free]
        /\ UNCHANGED <<mirror, applied, doubtful>>
    BY <1>5 DEF Answer
  <2> HIDE DEF r
  <2>2. \A o \in Req : \/ req'[o] = req[o]
                       \/ req[o].pc \in {"done", "error"} /\ req'[o].pc = "free"
    BY <1>1, <2>1
  <2> QED
    BY <2>1, <2>2, ToldBrowser
<1> QED
  BY <1>2, <1>3, <1>4, <1>5

(* A step of request r moves the save of its key only.                        *)
LEMMA ToldOthers ==
  ASSUME DoubtInv, NEW r \in Req, NEW j \in Key, j # req[r].key,
         \A o \in Req \ {r} : req'[o] = req[o], req'[r].key = req[r].key,
         mirror'[j] = mirror[j], applied'[j] = applied[j], j \in doubtful => j \in doubtful'
  PROVE  Told(j)'
<1>1. \A o \in Req : /\ AtWork(o, j)' <=> AtWork(o, j)
                     /\ AtWork(o, j) => req'[o].pc = req[o].pc
  BY DEF AtWork
<1> QED
  BY <1>1, ToldStands DEF DoubtInv

LEMMA ToldServer ==
  ASSUME DoubtInv, NEW r \in Req, ServerStep(r) \/ Die(r)
  PROVE  \A k \in Key : Told(k)'
<1>1. CASE Drop(r)
  <2>1. /\ UNCHANGED <<mirror, applied, doubtful>> /\ req[r].pc \in {"done", "error"}
        /\ \A o \in Req : req'[o] = req[o] \/ (o = r /\ req'[o].pc = "free")
    BY <1>1 DEF Drop, Free, DoubtInv, OfflineInv, OfflineType
  <2> QED
    BY <2>1, ToldBrowser
<1>2. ASSUME ~Drop(r)
      PROVE  \A k \in Key : Told(k)'
  <2>1. /\ req \in [Req -> ReqRow] /\ mirror \in [Key -> MirrorStatus] /\ applied \in [Key -> 0..2]
    BY DEF DoubtInv, OfflineInv, OfflineType
  <2>2. /\ req[r].pc \in {"lookup", "mark", "work", "settle", "fail"}
        /\ \A o \in Req \ {r} : req'[o] = req[o]
        /\ req'[r].key = req[r].key
    BY <1>2, <2>1
       DEF ServerStep, Lookup, MarkPending, DoWork, RefuseWork, MarkSynced, MarkFailed, Die, ReqRow
  <2>0. PICK k \in Key : k = req[r].key
    BY <2>2 DEF DoubtInv, OfflineInv, Waiting
  <2>3. Told(k) /\ (req[r].pc = "settle" => applied[k] >= 1)
    BY <2>0 DEF DoubtInv, OfflineInv, SuccessIsTrue
  <2>4. \A j \in Key \ {k} : /\ mirror'[j] = mirror[j] /\ applied'[j] = applied[j]
                             /\ j \in doubtful => j \in doubtful'
    BY <1>2, <2>0, <2>1
       DEF ServerStep, Lookup, MarkPending, DoWork, RefuseWork, MarkSynced, MarkFailed, Die
  <2>5. \A j \in Key \ {k} : Told(j)'
    BY <2>0, <2>2, <2>4, ToldOthers
  <2>6. Told(k)'
    <3>1. CASE Lookup(r)
      <4>1. /\ req'[r].found = (mirror[k] # "none") /\ UNCHANGED <<mirror, applied>>
            /\ req'[r].pc = IF mirror[k] = "synced" THEN "done" ELSE "mark"
            /\ doubtful' = IF /\ mirror[k] \in {"pending", "failed"}
                              /\ \E o \in Req : AtWork(o, k)
                           THEN doubtful \cup {k} ELSE doubtful
            /\ req[r].pc = "lookup"
        BY <2>1, <2>0, <3>1 DEF Lookup, ReqRow
      <4>2. mirror[k] \in {"none", "pending", "synced", "failed"}
        BY <2>1, <2>3 DEF MirrorStatus
      <4>3. ~AtWork(r, k) /\ \A o \in Req \ {r} : AtWork(o, k)' <=> AtWork(o, k)
        BY <2>2, <4>1 DEF AtWork
      <4>4. CASE mirror[k] \in {"none", "synced"}
        <5>1. \A o \in Req : /\ AtWork(o, k)' <=> AtWork(o, k)
                             /\ AtWork(o, k) => req'[o].pc = req[o].pc
          BY <2>2, <4>1, <4>3, <4>4 DEF AtWork
        <5> QED
          BY <2>3, <4>1, <5>1, ToldStands
      <4>5. CASE mirror[k] \in {"pending", "failed"} /\ \E o \in Req : AtWork(o, k)
        BY <4>1, <4>5 DEF Told
      <4>6. CASE mirror[k] \in {"pending", "failed"} /\ \A o \in Req : ~AtWork(o, k)
        <5>1. \A o \in Req : AtWork(o, k)' => o = r /\ req'[r].pc = "mark"
          BY <4>1, <4>3, <4>6
        <5> QED
          BY <2>1, <2>3, <4>1, <4>6, <5>1 DEF Told
      <4> QED
        BY <4>2, <4>4, <4>5, <4>6
    <3>2. CASE MarkPending(r)
      <4>1. UNCHANGED <<applied, doubtful>> /\ req[r].pc = "mark" /\ req'[r].found = req[r].found
        BY <2>1, <3>2 DEF MarkPending, ReqRow
      <4>2. CASE ~req[r].found /\ mirror[k] # "none"
        <5>1. mirror' = mirror /\ req'[r].pc = "error"
          BY <2>1, <2>0, <3>2, <4>2 DEF MarkPending, ReqRow
        <5>2. \A o \in Req : /\ AtWork(o, k)' <=> AtWork(o, k)
                             /\ AtWork(o, k) => req'[o].pc = req[o].pc
          BY <2>2, <4>1, <4>2, <5>1 DEF AtWork
        <5> QED
          BY <2>3, <4>1, <5>1, <5>2, ToldStands
      <4>3. CASE req[r].found \/ mirror[k] = "none"
        <5>1. mirror'[k] = "pending" /\ req'[r].pc = "work"
          BY <2>1, <2>3, <2>0, <3>2, <4>3 DEF MarkPending, ReqRow
        <5>2. AtWork(r, k) \/ (mirror[k] = "none" /\ \A o \in Req : ~AtWork(o, k))
          BY <2>3, <2>0, <4>1, <4>3 DEF AtWork, Told
        <5>3. k \notin doubtful => /\ \A o \in Req \ {r} : ~AtWork(o, k)
                                   /\ applied[k] = 0
          BY <2>1, <2>3, <4>1, <4>3, <5>2 DEF Told
        <5>4. \A o \in Req \ {r} : AtWork(o, k)' <=> AtWork(o, k)
          BY <2>2 DEF AtWork
        <5> QED
          BY <4>1, <5>1, <5>3, <5>4 DEF Told
      <4> QED
        BY <4>2, <4>3
    <3>3. CASE DoWork(r)
      <4>1. /\ UNCHANGED <<mirror, doubtful>> /\ req[r].pc = "work" /\ req'[r].pc = "settle"
            /\ applied'[k] = IF applied[k] < 2 THEN applied[k] + 1 ELSE applied[k]
        BY <2>1, <2>3, <2>0, <3>3 DEF DoWork, ReqRow
      <4>2. AtWork(r, k) /\ AtWork(r, k)' /\ \A o \in Req \ {r} : AtWork(o, k)' <=> AtWork(o, k)
        BY <2>2, <2>0, <4>1 DEF AtWork
      <4>3. k \notin doubtful => applied[k] = 0 /\ \A o \in Req \ {r} : ~AtWork(o, k)
        BY <2>3, <4>1, <4>2 DEF Told
      <4> QED
        BY <2>3, <4>1, <4>2, <4>3 DEF Told
    <3>4. CASE RefuseWork(r)
      <4>1. /\ UNCHANGED <<mirror, applied, doubtful>> /\ req[r].pc = "work" /\ req'[r].pc = "fail"
        BY <2>1, <3>4 DEF RefuseWork, ReqRow
      <4>2. AtWork(r, k) /\ AtWork(r, k)' /\ \A o \in Req \ {r} : AtWork(o, k)' <=> AtWork(o, k)
        BY <2>2, <2>0, <4>1 DEF AtWork
      <4>3. k \notin doubtful => applied[k] = 0 /\ \A o \in Req \ {r} : ~AtWork(o, k)
        BY <2>3, <4>1, <4>2 DEF Told
      <4> QED
        BY <2>3, <4>1, <4>2, <4>3 DEF Told
    <3>5. CASE MarkSynced(r) \/ MarkFailed(r) \/ Die(r)
      <4>1. req'[r].pc \in {"done", "error"} /\ UNCHANGED applied
        BY <2>1, <3>5 DEF MarkSynced, MarkFailed, Die, ReqRow
      <4>2. \A o \in Req : AtWork(o, k)' => AtWork(o, k) /\ o # r /\ req'[o].pc = req[o].pc
        BY <2>2, <4>1 DEF AtWork
      <4>3. /\ mirror[k] # "none" => mirror'[k] # "none"
            /\ k \in doubtful => k \in doubtful'
        BY <2>1, <2>3, <2>0, <3>5 DEF MarkSynced, MarkFailed, Die
      <4>4. req[r].pc = "settle" => mirror'[k] = "synced" \/ k \in doubtful'
        BY <2>1, <2>3, <2>0, <3>5 DEF MarkSynced, MarkFailed, Die
      <4>5. \/ mirror'[k] = mirror[k]
            \/ req[r].pc = "settle" /\ mirror'[k] = "synced"
            \/ req[r].pc = "fail"
        BY <2>1, <2>3, <2>0, <3>5 DEF MarkSynced, MarkFailed, Die
      <4>6. req[r].pc = "fail" => AtWork(r, k)
        BY <2>0 DEF AtWork
      <4>7. k \notin doubtful' /\ applied[k] = 1 =>
              mirror'[k] = "synced" \/ \E o \in Req : AtWork(o, k)' /\ req'[o].pc = "settle"
        <5>1. \A o \in Req \ {r} : AtWork(o, k) => AtWork(o, k)' /\ req'[o].pc = req[o].pc
          BY <2>2 DEF AtWork
        <5> QED
          BY <2>3, <4>3, <4>4, <4>5, <4>6, <5>1 DEF Told
      <4> QED
        BY <2>3, <4>1, <4>2, <4>3, <4>7 DEF Told
    <3> QED
      BY <1>2, <3>1, <3>2, <3>3, <3>4, <3>5 DEF ServerStep
  <2> QED
    BY <2>5, <2>6
<1> QED
  BY <1>1, <1>2

(* However many tabs, requests and saves there are, and whatever answers,     *)
(* tabs and servers are lost, a save that is not in doubt is carried out at   *)
(* most once (withIdempotency, syncQueue).                                    *)
THEOREM SavesAppliedOnce == OfflineSpec => []AppliedOnceUnlessInDoubt
<1>1. OfflineInit => DoubtInv
  BY OfflineInvInit DEF OfflineInit, Free, AtWork, DoubtInv, Told
<1>2. DoubtInv /\ [OfflineNext]_offlineVars => DoubtInv'
  <2> SUFFICES ASSUME DoubtInv, [OfflineNext]_offlineVars
               PROVE  \A k \in Key : Told(k)'
    BY OfflineInvNext DEF DoubtInv
  <2>1. CASE UNCHANGED offlineVars
    BY <2>1, ToldBrowser DEF offlineVars
  <2>2. CASE OfflineNext
    BY <2>2, ToldSaves, ToldServer DEF OfflineNext
  <2> QED
    BY <2>1, <2>2
<1>3. DoubtInv => AppliedOnceUnlessInDoubt
  BY DEF DoubtInv, Told, AppliedOnceUnlessInDoubt
<1> QED
  BY <1>1, <1>2, <1>3, PTL DEF OfflineSpec

------------------------------------------------------------------------------
(* Outbound webhooks.                                                         *)
(* The sequence a filter builds from the first i elements of s, from what it  *)
(* has built of those before.                                                 *)
Filtered(f, s, T, i) ==
  IF i = 0 THEN <<>> ELSE IF s[i] \in T THEN f[i - 1] ELSE Append(f[i - 1], s[i])

IsFilter(f, s, T) == f = [i \in 0..Len(s) |-> Filtered(f, s, T, i)]

LEMMA FilteredIn ==
  ASSUME NEW S, NEW s \in Seq(S), NEW T, NEW f, NEW i \in 0..Len(s),
         i # 0 => f[i - 1] \in Seq(S \ T)
  PROVE  Filtered(f, s, T, i) \in Seq(S \ T)
<1>1. CASE i = 0
  BY <1>1 DEF Filtered
<1>2. CASE i # 0 /\ s[i] \in T
  BY <1>2 DEF Filtered
<1>3. CASE i # 0 /\ s[i] \notin T
  <2>1. s[i] \in S \ T
    BY <1>3
  <2>2. Append(f[i - 1], s[i]) \in Seq(S \ T)
    BY <1>3, <2>1
  <2> QED
    BY <1>3, <2>2 DEF Filtered
<1> QED
  BY <1>1, <1>2, <1>3

(* The function exists: one that is right up to an index exists for each.     *)
LEMMA FilterExists ==
  ASSUME NEW S, NEW s \in Seq(S), NEW T
  PROVE  \E f : IsFilter(f, s, T)
<1> DEFINE N == 0..Len(s)
           Upto(f, n) == \A i \in N : i <= n => f[i] = Filtered(f, s, T, i)
           Fails == {n \in N : \A f \in [N -> Seq(S \ T)] : ~Upto(f, n)}
<1>a. Len(s) \in Nat /\ N \subseteq Nat
  OBVIOUS
<1>1. Fails = {}
  <2> SUFFICES ASSUME Fails # {} PROVE FALSE
    OBVIOUS
  <2>1. PICK n \in Fails : \A m \in Fails : n <= m
    <3>1. Fails \subseteq Nat
      BY <1>a
    <3> HIDE DEF Fails
    <3> QED
      BY <3>1, LeastNumber
  <2>2. n \in N
    OBVIOUS
  <2>3. CASE n = 0
    <3> DEFINE f == [i \in N |-> <<>>]
    <3>1. f \in [N -> Seq(S \ T)]
      OBVIOUS
    <3>2. Upto(f, 0)
      BY <1>a DEF Filtered
    <3> QED
      BY <2>1, <2>3, <3>1, <3>2
  <2>4. CASE n # 0
    <3>1. n - 1 \in N /\ ~(n <= n - 1)
      BY <1>a, <2>2, <2>4
    <3>2. n - 1 \notin Fails
      BY <2>1, <3>1, Zenon
    <3>3. PICK f \in [N -> Seq(S \ T)] : Upto(f, n - 1)
      BY <3>1, <3>2
    <3> DEFINE h == [i \in N |-> IF i <= n - 1 THEN f[i] ELSE Filtered(f, s, T, n)]
    <3>4. Filtered(f, s, T, n) \in Seq(S \ T)
      BY <2>2, <3>1, <3>3, FilteredIn
    <3>5. h \in [N -> Seq(S \ T)]
      BY <3>4
    <3>6. ASSUME NEW i \in N, i <= n PROVE h[i] = Filtered(h, s, T, i)
      <4>1. Filtered(h, s, T, i) = Filtered(f, s, T, i)
        <5>1. i # 0 => i - 1 \in N /\ i - 1 <= n - 1
          BY <1>a, <2>2, <3>6
        <5>2. i # 0 => h[i - 1] = f[i - 1]
          BY <5>1
        <5> HIDE DEF h
        <5> QED
          BY <5>2 DEF Filtered
      <4>2. CASE i <= n - 1
        BY <3>3, <4>1, <4>2
      <4>3. CASE ~(i <= n - 1)
        <5>1. i = n
          BY <1>a, <2>2, <3>6, <4>3
        <5>2. h[n] = Filtered(f, s, T, n)
          BY <2>2, <3>1
        <5> HIDE DEF h
        <5> QED
          BY <4>1, <5>1, <5>2
      <4> HIDE DEF h
      <4> QED
        BY <4>2, <4>3
    <3> HIDE DEF h
    <3>7. Upto(h, n)
      BY <3>6
    <3> QED
      BY <2>1, <3>5, <3>7
  <2> QED
    BY <2>3, <2>4
<1>2. PICK f \in [N -> Seq(S \ T)] : Upto(f, Len(s))
  <2>1. Len(s) \in N
    BY <1>a
  <2> QED
    BY <1>1, <2>1
<1>3. \A i \in N : f[i] = Filtered(f, s, T, i)
  BY <1>2, <1>a
<1>4. f = [i \in N |-> Filtered(f, s, T, i)]
  <2>1. f = [i \in N |-> f[i]]
    OBVIOUS
  <2> QED
    BY <1>3, <2>1, Zenon
<1> QED
  BY <1>4 DEF IsFilter

(* What is left of a sequence has none of the members taken out: take the     *)
(* shortest prefix for which it has.                                          *)
LEMMA WithoutIn ==
  ASSUME NEW S, NEW s \in Seq(S), NEW T
  PROVE  Without(s, T) \in Seq(S \ T)
<1> DEFINE N == 0..Len(s)
           Body(f, i) == IF i = 0 THEN <<>>
                         ELSE IF s[i] \in T THEN f[i - 1] ELSE Append(f[i - 1], s[i])
           kept == CHOOSE f : f = [i \in N |-> Body(f, i)]
<1>a. Len(s) \in Nat /\ N \subseteq Nat
  OBVIOUS
<1>1. Without(s, T) = kept[Len(s)]
  BY DEF Without
<1>2. kept = [i \in N |-> Body(kept, i)]
  <2>0. PICK f : IsFilter(f, s, T)
    BY FilterExists
  <2>1. f = [i \in N |-> Filtered(f, s, T, i)]
    BY <2>0 DEF IsFilter
  <2>2. \A i \in N : Filtered(f, s, T, i) = Body(f, i)
    BY DEF Filtered
  <2> HIDE DEF Body
  <2>3. f = [i \in N |-> Body(f, i)]
    BY <2>1, <2>2
  <2> QED
    BY <2>3
<1> HIDE DEF kept
<1>3. \A i \in N : kept[i] = Filtered(kept, s, T, i)
  <2>1. \A i \in N : Filtered(kept, s, T, i) = Body(kept, i)
    BY DEF Filtered
  <2> HIDE DEF Body
  <2> QED
    BY <1>2, <2>1
<1> DEFINE Bad == {i \in N : kept[i] \notin Seq(S \ T)}
<1>4. Bad = {}
  <2> SUFFICES ASSUME Bad # {} PROVE FALSE
    OBVIOUS
  <2>1. PICK n \in Bad : \A m \in Bad : n <= m
    <3>1. Bad \subseteq Nat
      BY <1>a
    <3> HIDE DEF Bad
    <3> QED
      BY <3>1, LeastNumber
  <2>2. n # 0 => n - 1 \in N /\ ~(n <= n - 1)
    BY <1>a
  <2>3. n # 0 => kept[n - 1] \in Seq(S \ T)
    BY <2>1, <2>2
  <2>4. Filtered(kept, s, T, n) \in Seq(S \ T)
    BY <2>3, FilteredIn
  <2> QED
    BY <1>3, <2>4
<1>5. Len(s) \in N
  BY <1>a
<1> QED
  BY <1>1, <1>4, <1>5

------------------------------------------------------------------------------
DispatchRow == [pc : {"idle", "claimed", "working", "answered"}, todo : Seq(Read),
                eps : [Endpoint -> EpState], ok : BOOLEAN]

HookType ==
  /\ row \in [Delivery -> DeliveryRow]
  /\ ep \in [Endpoint -> EpState]
  /\ dispatch \in [Dispatch -> DispatchRow]
  /\ sent \in [Delivery -> 0..MaxPosts + 1]
  /\ got \in [Delivery -> BOOLEAN]

(* The due rows all wait.                                                     *)
Waits(x) == {d \in Delivery : x[d].status = "pending"}

DueRowsWait == queue \in Seq(Waits(row))

(* A row that was not given up has an attempt left, unless it is a success,   *)
(* and those it counts were made.                                             *)
Countable(r, n) ==
  /\ r.status \in {"none", "pending"} => r.attempts < MaxPosts
  /\ r.status \in {"none", "pending", "success"} => r.attempts <= n

RowsCount == \A d \in Delivery : Countable(row[d], sent[d])

(* So were those of the rows as a run has read them.                          *)
Made(todo, n) == \A i \in 1..Len(todo) : todo[i].attempts <= n[todo[i].id]

BatchesCount == \A w \in Dispatch : Made(dispatch[w].todo, sent)

(* The attempt a run is about to record was made, and accepted if it says so. *)
AnswerTrue(c) ==
  c.pc = "answered" =>
    /\ c.todo # <<>>
    /\ Head(c.todo).attempts + 1 <= sent[Head(c.todo).id]
    /\ c.ok => got[Head(c.todo).id]

AnswersTrue == \A w \in Dispatch : AnswerTrue(dispatch[w])

(* A row that was given up, or is a success.                                  *)
Ended(r, n, g) ==
  /\ r.status = "failed" /\ ~r.unsigned => n >= MaxPosts
  /\ r.status = "success" => g

RowsEnded == \A d \in Delivery : Ended(row[d], sent[d], got[d])

HookInv == HookType /\ DueRowsWait /\ RowsCount /\ BatchesCount /\ AnswersTrue /\ RowsEnded

LEMMA HookIdle ==
  /\ NoDispatch.pc = "idle" /\ NoDispatch.todo = <<>>
  /\ NoDispatch \in DispatchRow
<1>1. NoEndpoints \in [Endpoint -> EpState]
  BY DEF NoEndpoints, EpState
<1>2. <<>> \in Seq(Read)
  OBVIOUS
<1> QED
  BY <1>1, <1>2 DEF NoDispatch, DispatchRow

LEMMA HookInit ==
  ASSUME WebhookInit
  PROVE  HookInv
<1>1. MaxPosts \in Nat \ {0}
  BY WebhookAssumption
<1>2. /\ \A d \in Delivery : row[d] = NoRow /\ sent[d] = 0
      /\ \A w \in Dispatch : dispatch[w] = NoDispatch
  BY DEF WebhookInit
<1>3. NoRow \in DeliveryRow
  BY <1>1 DEF NoRow, DeliveryRow
<1>4. row \in [Delivery -> DeliveryRow]
  BY <1>3 DEF WebhookInit
<1>5. dispatch \in [Dispatch -> DispatchRow]
  BY HookIdle DEF WebhookInit
<1>6. /\ ep \in [Endpoint -> EpState]
      /\ sent \in [Delivery -> 0..MaxPosts + 1] /\ got \in [Delivery -> BOOLEAN]
  BY <1>1 DEF WebhookInit, EpState
<1>7. DueRowsWait
  BY DEF WebhookInit, DueRowsWait
<1>8. RowsCount /\ RowsEnded
  BY <1>1, <1>2 DEF RowsCount, Countable, RowsEnded, Ended, NoRow
<1>9. BatchesCount /\ AnswersTrue
  BY <1>2, HookIdle DEF BatchesCount, Made, AnswersTrue, AnswerTrue
<1> QED
  BY <1>4, <1>5, <1>6, <1>7, <1>8, <1>9 DEF HookInv, HookType

(* The rows after a step: each keeps what it counts.                          *)
RowsTrue == RowsCount /\ RowsEnded

RunsTrue == dispatch \in [Dispatch -> DispatchRow] /\ BatchesCount /\ AnswersTrue

(* A step of the administrator.                                               *)
LEMMA HookEndpointStep ==
  ASSUME HookInv, NEW e \in Endpoint,
         CreateEndpoint(e) \/ StoreSecret(e) \/ SetActive(e)
  PROVE  HookInv'
<1>1. UNCHANGED <<row, queue, dispatch, sent, got>>
  BY DEF CreateEndpoint, StoreSecret, SetActive
<1>2. ep' \in [Endpoint -> EpState]
  BY DEF CreateEndpoint, StoreSecret, SetActive, HookInv, HookType, EpState
<1> QED
  BY <1>1, <1>2 DEF HookInv, HookType, DueRowsWait, RowsCount, BatchesCount, AnswersTrue,
                    AnswerTrue,
                    RowsEnded

(* Sequences over a set are sequences over a larger one.                      *)
LEMMA SeqWithin ==
  ASSUME NEW S, NEW T, S \subseteq T, NEW s \in Seq(S)
  PROVE  s \in Seq(T)
<1>1. Len(s) \in Nat /\ s \in [1..Len(s) -> T]
  OBVIOUS
<1> QED
  BY <1>1

LEMMA HookDeleteStep ==
  ASSUME HookInv, NEW e \in Endpoint, DeleteEndpoint(e)
  PROVE  HookInv'
<1>1. UNCHANGED <<dispatch, sent, got>>
  BY DEF DeleteEndpoint
<1>2. ep' \in [Endpoint -> EpState]
  BY DEF DeleteEndpoint, HookInv, HookType, EpState
<1> DEFINE gone == [NoRow EXCEPT !.status = "deleted"]
           Of == {d \in Delivery : To[d] = e}
<1>3. gone \in DeliveryRow /\ gone.status = "deleted"
  <2>1. NoRow \in DeliveryRow
    BY WebhookAssumption DEF NoRow, DeliveryRow
  <2> QED
    BY <2>1 DEF DeliveryRow
<1>4. row' = [d \in Delivery |-> IF To[d] = e /\ row[d].status # "none" THEN gone ELSE row[d]]
  BY DEF DeleteEndpoint
<1> HIDE DEF gone
<1>5. row' \in [Delivery -> DeliveryRow]
  BY <1>3, <1>4 DEF HookInv, HookType
<1>6. RowsTrue'
  BY <1>1, <1>3, <1>4 DEF RowsTrue, HookInv, RowsCount, Countable, RowsEnded, Ended
<1>7. DueRowsWait'
  <2>1. queue' = Without(queue, Of)
    BY DEF DeleteEndpoint
  <2> HIDE DEF Of
  <2>2. queue' \in Seq(Waits(row) \ Of)
    BY <2>1, WithoutIn DEF HookInv, DueRowsWait
  <2>3. Waits(row) \ Of \subseteq Waits(row')
    BY <1>4 DEF Waits, Of
  <2>4. queue' \in Seq(Waits(row'))
    BY <2>2, <2>3, SeqWithin
  <2> QED
    BY <2>4 DEF DueRowsWait
<1>8. BatchesCount' /\ AnswersTrue'
  BY <1>1 DEF HookInv, BatchesCount, AnswersTrue, AnswerTrue
<1> QED
  BY <1>1, <1>2, <1>5, <1>6, <1>7, <1>8 DEF HookInv, HookType, RowsTrue

LEMMA HookEmitStep ==
  ASSUME HookInv, NEW d \in Delivery, Emit(d) \/ RetryDue(d)
  PROVE  HookInv'
<1>1. UNCHANGED <<ep, dispatch, sent, got>> /\ queue' = Append(queue, d)
  BY DEF Emit, RetryDue
<1>2. row \in [Delivery -> DeliveryRow] /\ DueRowsWait /\ RowsCount
  BY DEF HookInv, HookType
<1>3. \/ row' = row /\ row[d].status = "pending"
      \/ row' = [row EXCEPT ![d].status = "pending"] /\ row[d].status = "none"
  BY DEF Emit, RetryDue
<1>4. /\ row' \in [Delivery -> DeliveryRow]
      /\ row'[d].status = "pending" /\ row'[d].attempts = row[d].attempts
      /\ \A c \in Delivery \ {d} : row'[c] = row[c]
  BY <1>2, <1>3 DEF DeliveryRow
<1>5. RowsTrue'
  BY <1>1, <1>3, <1>4 DEF RowsTrue, HookInv, RowsCount, Countable, RowsEnded, Ended
<1>6. DueRowsWait'
  <2>1. Waits(row) \subseteq Waits(row') /\ d \in Waits(row')
    BY <1>3, <1>4 DEF Waits
  <2>2. queue \in Seq(Waits(row'))
    BY <1>2, <2>1, SeqWithin DEF DueRowsWait
  <2>3. Append(queue, d) \in Seq(Waits(row'))
    BY <2>1, <2>2
  <2> QED
    BY <1>1, <2>3 DEF DueRowsWait
<1>7. BatchesCount' /\ AnswersTrue'
  BY <1>1 DEF HookInv, BatchesCount, AnswersTrue, AnswerTrue
<1> QED
  BY <1>1, <1>4, <1>5, <1>6, <1>7 DEF HookInv, HookType, RowsTrue

(* A step of one run that leaves the rows and the requests alone.             *)
LEMMA HookRunMoves ==
  ASSUME HookInv, NEW w \in Dispatch, NEW c \in DispatchRow, dispatch' = [dispatch EXCEPT ![w] = c],
         Made(c.todo, sent), AnswerTrue(c), UNCHANGED <<row, queue, ep, sent, got>>
  PROVE  HookInv'
<1>1. /\ dispatch' \in [Dispatch -> DispatchRow] /\ dispatch'[w] = c
      /\ \A v \in Dispatch \ {w} : dispatch'[v] = dispatch[v]
  BY DEF HookInv, HookType
<1>2. BatchesCount'
  BY <1>1 DEF HookInv, BatchesCount
<1>3. AnswersTrue'
  BY <1>1 DEF HookInv, AnswersTrue, AnswerTrue
<1> QED
  BY <1>1, <1>2, <1>3 DEF HookInv, HookType, DueRowsWait, RowsCount, RowsEnded

(* The rows a run reads wait, so that they count what was made.               *)
LEMMA BatchedIn ==
  ASSUME HookInv
  PROVE  Batched(queue) \in Seq(Read) /\ Made(Batched(queue), sent)
<1> DEFINE n == Min({BatchSize, Len(queue)})
           b == [i \in 1..n |-> [id |-> queue[i], attempts |-> row[queue[i]].attempts]]
<1>1. queue \in Seq(Waits(row)) /\ Len(queue) \in Nat /\ BatchSize \in Nat
  BY WebhookAssumption DEF HookInv, DueRowsWait
<1>2. n \in Nat /\ n <= Len(queue)
  <2>1. PICK m \in {BatchSize, Len(queue)} : \A k \in {BatchSize, Len(queue)} : m <= k
    BY <1>1
  <2>2. n \in {BatchSize, Len(queue)} /\ \A k \in {BatchSize, Len(queue)} : n <= k
    BY <2>1 DEF Min
  <2> QED
    BY <1>1, <2>2
<1>3. Batched(queue) = b
  BY DEF Batched
<1> HIDE DEF n
<1>4. ASSUME NEW i \in 1..n
      PROVE  b[i] \in Read /\ b[i].attempts <= sent[b[i].id]
  <2>1. i \in 1..Len(queue)
    BY <1>1, <1>2
  <2>2. queue[i] \in Waits(row)
    BY <1>1, <2>1
  <2>3. queue[i] \in Delivery /\ row[queue[i]].status = "pending" /\ row[queue[i]] \in DeliveryRow
    BY <2>2 DEF Waits, HookInv, HookType
  <2>4. row[queue[i]].attempts < MaxPosts /\ row[queue[i]].attempts <= sent[queue[i]]
    BY <2>3 DEF HookInv, RowsCount, Countable
  <2>5. row[queue[i]].attempts \in 0..MaxPosts - 1
    BY <2>3, <2>4, WebhookAssumption DEF DeliveryRow
  <2> QED
    BY <2>3, <2>4, <2>5 DEF Read
<1>5. b \in [1..n -> Read]
  BY <1>4
<1> HIDE DEF b
<1>6. b \in Seq(Read) /\ Len(b) = n
  BY <1>2, <1>5
<1> QED
  BY <1>3, <1>4, <1>6 DEF Made

LEMMA HookClaimStep ==
  ASSUME HookInv, NEW w \in Dispatch, ClaimBatch(w)
  PROVE  HookInv'
<1> DEFINE c == [NoDispatch EXCEPT !.pc = "claimed", !.todo = Batched(queue)]
<1>1. c \in DispatchRow /\ c.pc = "claimed" /\ c.todo = Batched(queue)
  BY HookIdle, BatchedIn DEF DispatchRow
<1>2. dispatch' = [dispatch EXCEPT ![w] = c] /\ UNCHANGED <<row, queue, ep, sent, got>>
  BY DEF ClaimBatch
<1> HIDE DEF c
<1>3. Made(c.todo, sent) /\ AnswerTrue(c)
  BY <1>1, BatchedIn DEF AnswerTrue
<1> QED
  BY <1>1, <1>2, <1>3, HookRunMoves

LEMMA HookLoadStep ==
  ASSUME HookInv, NEW w \in Dispatch, Load(w)
  PROVE  HookInv'
<1> DEFINE eps == [e \in Endpoint |-> IF \E i \in DOMAIN dispatch[w].todo :
                                           To[dispatch[w].todo[i].id] = e THEN ep[e] ELSE "absent"]
           c == [dispatch[w] EXCEPT !.pc = "working", !.eps = eps]
<1>1. eps \in [Endpoint -> EpState]
  BY DEF HookInv, HookType, EpState
<1>2. dispatch' = [dispatch EXCEPT ![w].pc = "working", ![w].eps = eps]
      /\ UNCHANGED <<row, queue, ep, sent, got>>
  BY DEF Load
<1> HIDE DEF eps
<1>3. c \in DispatchRow /\ c.pc = "working" /\ c.todo = dispatch[w].todo
  BY <1>1 DEF HookInv, HookType, DispatchRow
<1>4. dispatch' = [dispatch EXCEPT ![w] = c]
  BY <1>2
<1> HIDE DEF c
<1>5. Made(c.todo, sent) /\ AnswerTrue(c)
  BY <1>3 DEF HookInv, BatchesCount, AnswerTrue
<1> QED
  BY <1>2, <1>3, <1>4, <1>5, HookRunMoves

LEMMA HookStopStep ==
  ASSUME HookInv, NEW w \in Dispatch, FinishDispatch(w) \/ StopDispatch(w)
  PROVE  HookInv'
<1>1. dispatch' = [dispatch EXCEPT ![w] = NoDispatch] /\ UNCHANGED <<row, queue, ep, sent, got>>
  BY DEF FinishDispatch, StopDispatch
<1>2. Made(NoDispatch.todo, sent) /\ AnswerTrue(NoDispatch)
  BY HookIdle DEF Made, AnswerTrue
<1> QED
  BY <1>1, <1>2, HookIdle, HookRunMoves

(* The first of the rows a run has left.                                      *)
LEMMA HookCurrent ==
  ASSUME HookInv, NEW w \in Dispatch, dispatch[w].todo # <<>>
  PROVE  /\ Current(w) \in Read
         /\ Current(w).attempts <= sent[Current(w).id]
<1>1. dispatch[w].todo \in Seq(Read) /\ Made(dispatch[w].todo, sent)
  BY DEF HookInv, HookType, DispatchRow, BatchesCount
<1>2. Current(w) = dispatch[w].todo[1] /\ 1 \in 1..Len(dispatch[w].todo)
  BY <1>1 DEF Current
<1> QED
  BY <1>1, <1>2 DEF Made

LEMMA HookUpdate ==
  ASSUME HookInv, NEW d \in Delivery, NEW new \in DeliveryRow, Update(d, new),
         Countable(new, sent[d]), Ended(new, sent[d], got[d]), UNCHANGED <<sent, got>>
  PROVE  row' \in [Delivery -> DeliveryRow] /\ DueRowsWait' /\ RowsTrue'
<1>1. /\ row' \in [Delivery -> DeliveryRow]
      /\ row'[d] = row[d] \/ row'[d] = new
      /\ \A c \in Delivery \ {d} : row'[c] = row[c]
  BY DEF Update, HookInv, HookType
<1>2. RowsTrue'
  BY <1>1 DEF RowsTrue, HookInv, RowsCount, RowsEnded
<1>3. queue' \in Seq(Waits(row) \ {d})
  BY WithoutIn DEF Update, HookInv, DueRowsWait
<1>4. Waits(row) \ {d} \subseteq Waits(row')
  BY <1>1 DEF Waits
<1>5. queue' \in Seq(Waits(row'))
  BY <1>3, <1>4, SeqWithin
<1> QED
  BY <1>1, <1>2, <1>5 DEF DueRowsWait

LEMMA HookNextRow ==
  ASSUME HookInv, NEW w \in Dispatch, NextRow(w), dispatch[w].todo # <<>>,
         UNCHANGED <<sent, got>>
  PROVE  RunsTrue'
<1> DEFINE rest == Tail(dispatch[w].todo)
           c == [dispatch[w] EXCEPT !.pc = "working", !.todo = rest, !.ok = FALSE]
<1>1. /\ dispatch[w].todo \in Seq(Read) /\ Made(dispatch[w].todo, sent)
      /\ dispatch[w] \in DispatchRow
  BY DEF HookInv, HookType, DispatchRow, BatchesCount
<1>2. /\ rest \in Seq(Read)
      /\ \A i \in 1..Len(rest) :
           i + 1 \in 1..Len(dispatch[w].todo) /\ rest[i] = dispatch[w].todo[i + 1]
  BY <1>1
<1>3. Made(rest, sent)
  BY <1>1, <1>2 DEF Made
<1>4. dispatch' = [dispatch EXCEPT ![w] = c]
  BY DEF NextRow
<1> HIDE DEF rest
<1>5. c \in DispatchRow /\ c.pc = "working" /\ c.todo = rest
  BY <1>1, <1>2 DEF DispatchRow
<1> HIDE DEF c
<1>6. /\ dispatch' \in [Dispatch -> DispatchRow] /\ dispatch'[w] = c
      /\ \A v \in Dispatch \ {w} : dispatch'[v] = dispatch[v]
  BY <1>4, <1>5 DEF HookInv, HookType
<1>7. BatchesCount'
  BY <1>3, <1>5, <1>6 DEF HookInv, BatchesCount
<1>8. AnswersTrue'
  BY <1>5, <1>6 DEF HookInv, AnswersTrue, AnswerTrue
<1> QED
  BY <1>6, <1>7, <1>8 DEF RunsTrue

(* A step that writes a row and goes on to the next.                          *)
LEMMA HookWritten ==
  ASSUME HookInv, NEW w \in Dispatch, dispatch[w].todo # <<>>,
         NEW d \in Delivery, NEW new \in DeliveryRow, Update(d, new), NextRow(w),
         Countable(new, sent[d]), Ended(new, sent[d], got[d]), UNCHANGED <<ep, sent, got>>
  PROVE  HookInv'
<1>1. row' \in [Delivery -> DeliveryRow] /\ DueRowsWait' /\ RowsTrue'
  BY HookUpdate
<1>2. RunsTrue'
  BY HookNextRow
<1> QED
  BY <1>1, <1>2 DEF HookInv, HookType, RowsTrue, RunsTrue

LEMMA HookFailUnsignedStep ==
  ASSUME HookInv, NEW w \in Dispatch, FailUnsigned(w)
  PROVE  HookInv'
<1> DEFINE d == Current(w).id
           new == [status |-> "failed", attempts |-> Current(w).attempts + 1,
                   unsigned |-> TRUE]
<1>1. dispatch[w].todo # <<>>
  BY DEF FailUnsigned, At
<1>2. Update(d, new) /\ NextRow(w) /\ UNCHANGED <<ep, sent, got>>
  BY DEF FailUnsigned
<1>3. d \in Delivery /\ Current(w).attempts + 1 \in 0..MaxPosts
  BY <1>1, HookCurrent, WebhookAssumption DEF Read
<1>4. new \in DeliveryRow
  BY <1>3 DEF DeliveryRow
<1>5. Countable(new, sent[d]) /\ Ended(new, sent[d], got[d])
  BY DEF Countable, Ended
<1> QED
  BY <1>1, <1>2, <1>3, <1>4, <1>5, HookWritten

LEMMA HookPostponeStep ==
  ASSUME HookInv, NEW w \in Dispatch, Postpone(w)
  PROVE  HookInv'
<1> DEFINE d == Current(w).id
<1>1. dispatch[w].todo # <<>>
  BY DEF Postpone, At
<1>2. Update(d, row[d]) /\ NextRow(w) /\ UNCHANGED <<ep, sent, got>>
  BY DEF Postpone
<1>3. d \in Delivery
  BY <1>1, HookCurrent DEF Read
<1>4. row[d] \in DeliveryRow /\ Countable(row[d], sent[d]) /\ Ended(row[d], sent[d], got[d])
  BY <1>3 DEF HookInv, HookType, RowsCount, RowsEnded
<1> HIDE DEF d
<1> QED
  BY <1>1, <1>2, <1>3, <1>4, HookWritten

LEMMA HookRecordStep ==
  ASSUME HookInv, NEW w \in Dispatch, Record(w)
  PROVE  HookInv'
<1> DEFINE d == Current(w).id
           n == Current(w).attempts + 1
           new == [status |-> Outcome(n, dispatch[w].ok), attempts |-> n, unsigned |-> FALSE]
<1>1. /\ dispatch[w].todo # <<>> /\ n <= sent[d]
      /\ dispatch[w].ok => got[d]
  BY DEF Record, HookInv, AnswersTrue, AnswerTrue, Current
<1>2. Update(d, new) /\ NextRow(w) /\ UNCHANGED <<ep, sent, got>>
  BY DEF Record
<1>3. d \in Delivery /\ n \in 0..MaxPosts
  BY <1>1, HookCurrent, WebhookAssumption DEF Read
<1>4. MaxPosts \in Nat /\ sent[d] \in Nat
  BY <1>3, WebhookAssumption DEF HookInv, HookType
<1> HIDE DEF n, d
<1>5. new \in DeliveryRow
  BY <1>3 DEF DeliveryRow, Outcome
<1>6. Countable(new, sent[d]) /\ Ended(new, sent[d], got[d])
  BY <1>1, <1>3, <1>4 DEF Countable, Ended, Outcome
<1> HIDE DEF new
<1> QED
  BY <1>1, <1>2, <1>3, <1>5, <1>6, HookWritten

LEMMA HookPostStep ==
  ASSUME HookInv, NEW w \in Dispatch,
         NEW accepted \in BOOLEAN, NEW ok \in BOOLEAN,
         Post(w, accepted, ok)
  PROVE  HookInv'
<1> DEFINE d == Current(w).id
           c == [dispatch[w] EXCEPT !.pc = "answered", !.ok = ok]
<1>1. dispatch[w].todo # <<>> /\ UNCHANGED <<row, queue, ep>> /\ (ok => accepted)
  BY DEF Post, At
<1>2. dispatch' = [dispatch EXCEPT ![w] = c]
  BY DEF Post
<1>3. c \in DispatchRow /\ c.pc = "answered" /\ c.todo = dispatch[w].todo /\ c.ok = ok
  BY DEF HookInv, HookType, DispatchRow
<1>4. /\ d \in Delivery /\ Current(w).attempts \in 0..MaxPosts - 1
      /\ Current(w).attempts <= sent[d] /\ MaxPosts \in Nat
  BY <1>1, HookCurrent, WebhookAssumption DEF Read
<1>5. /\ sent' = [sent EXCEPT ![d] = IF @ > MaxPosts THEN @ ELSE @ + 1]
      /\ got' = [got EXCEPT ![d] = @ \/ accepted]
  BY DEF Post
<1>6. Current(w) = Head(c.todo)
  BY <1>3 DEF Current
<1> HIDE DEF c
<1>7. /\ sent' \in [Delivery -> 0..MaxPosts + 1]
      /\ \A x \in Delivery : sent'[x] >= sent[x]
      /\ Current(w).attempts + 1 <= sent'[d]
  BY <1>4, <1>5 DEF HookInv, HookType
<1>8. /\ got' \in [Delivery -> BOOLEAN]
      /\ \A x \in Delivery : got[x] => got'[x]
      /\ accepted => got'[d]
  <2>1. got \in [Delivery -> BOOLEAN]
    BY DEF HookInv, HookType
  <2>2. CASE accepted
    <3>1. got' = [got EXCEPT ![d] = TRUE]
      BY <1>5, <2>2
    <3> QED
      BY <1>4, <2>1, <3>1
  <2>3. CASE ~accepted
    <3>1. got' = [got EXCEPT ![d] = got[d]]
      BY <1>4, <1>5, <2>1, <2>3
    <3> QED
      BY <1>4, <2>1, <2>3, <3>1
  <2> QED
    BY <2>2, <2>3
<1>9. /\ dispatch' \in [Dispatch -> DispatchRow] /\ dispatch'[w] = c
      /\ \A v \in Dispatch \ {w} : dispatch'[v] = dispatch[v]
  BY <1>2, <1>3 DEF HookInv, HookType
<1>10. \A x \in Delivery : sent[x] \in Nat /\ sent'[x] \in Nat
  BY <1>4, <1>7 DEF HookInv, HookType
<1>11. RowsTrue'
  <2>1. \A x \in Delivery : row[x].attempts \in Nat
    BY <1>4 DEF HookInv, HookType, DeliveryRow
  <2>2. ASSUME NEW x \in Delivery PROVE Countable(row'[x], sent'[x])
    <3>1. Countable(row[x], sent[x])
      BY DEF HookInv, RowsCount
    <3> QED
      BY <1>1, <1>7, <1>10, <2>1, <3>1 DEF Countable
  <2>3. ASSUME NEW x \in Delivery PROVE Ended(row'[x], sent'[x], got'[x])
    <3>1. Ended(row[x], sent[x], got[x])
      BY DEF HookInv, RowsEnded
    <3> QED
      BY <1>1, <1>4, <1>7, <1>8, <1>10, <3>1 DEF Ended
  <2> QED
    BY <2>2, <2>3 DEF RowsTrue, RowsCount, RowsEnded
<1>12. ASSUME NEW v \in Dispatch, NEW i \in 1..Len(dispatch[v].todo)
       PROVE  dispatch[v].todo[i].attempts <= sent'[dispatch[v].todo[i].id]
  <2>1. dispatch[v].todo \in Seq(Read)
    BY DEF HookInv, HookType, DispatchRow
  <2>2. dispatch[v].todo[i] \in Read
    BY <2>1
  <2>3. dispatch[v].todo[i].id \in Delivery /\ dispatch[v].todo[i].attempts \in Nat
    BY <1>4, <2>2 DEF Read
  <2>4. dispatch[v].todo[i].attempts <= sent[dispatch[v].todo[i].id]
    BY DEF HookInv, BatchesCount, Made
  <2> QED
    BY <1>7, <1>10, <2>3, <2>4
<1>13. \A v \in Dispatch : dispatch'[v].todo = dispatch[v].todo
  BY <1>3, <1>9
<1>14. BatchesCount'
  BY <1>12, <1>13 DEF BatchesCount, Made
<1>15. ASSUME NEW v \in Dispatch PROVE AnswerTrue(dispatch[v])'
  <2>1. CASE v = w
    BY <1>1, <1>3, <1>6, <1>7, <1>8, <1>9, <2>1 DEF AnswerTrue
  <2>2. CASE v # w /\ dispatch[v].pc = "answered"
    <3>1. AnswerTrue(dispatch[v]) /\ dispatch'[v] = dispatch[v]
      BY <1>9, <2>2 DEF HookInv, AnswersTrue
    <3>2. dispatch[v].todo # <<>>
      BY <2>2, <3>1 DEF AnswerTrue
    <3>3. Head(dispatch[v].todo) \in Read
      BY <3>2, HookCurrent DEF Current
    <3>4. Head(dispatch[v].todo).id \in Delivery /\ Head(dispatch[v].todo).attempts \in Nat
      BY <1>4, <3>3 DEF Read
    <3> QED
      BY <1>7, <1>8, <1>10, <3>1, <3>4 DEF AnswerTrue
  <2>3. CASE v # w /\ dispatch[v].pc # "answered"
    BY <1>9, <2>3 DEF AnswerTrue
  <2> QED
    BY <2>1, <2>2, <2>3
<1>16. AnswersTrue'
  BY <1>15 DEF AnswersTrue
<1>17. DueRowsWait' /\ row' \in [Delivery -> DeliveryRow] /\ ep' \in [Endpoint -> EpState]
  BY <1>1 DEF HookInv, HookType, DueRowsWait
<1> QED
  BY <1>7, <1>8, <1>9, <1>11, <1>14, <1>16, <1>17 DEF HookInv, HookType, RowsTrue

LEMMA HookNext ==
  ASSUME HookInv, [WebhookNext]_webhookVars
  PROVE  HookInv'
<1>0. Managed \subseteq Endpoint /\ Stopped \subseteq Dispatch
  BY WebhookAssumption
<1>1. CASE \E e \in Managed : \/ CreateEndpoint(e) \/ StoreSecret(e)
                              \/ SetActive(e) \/ DeleteEndpoint(e)
  BY <1>0, <1>1, HookEndpointStep, HookDeleteStep
<1>2. CASE \E d \in Delivery : Emit(d) \/ RetryDue(d)
  BY <1>2, HookEmitStep
<1>3. ASSUME NEW w \in Dispatch, ClaimBatch(w) \/ Work(w)
      PROVE  HookInv'
  BY <1>3, HookClaimStep, HookLoadStep, HookFailUnsignedStep, HookPostponeStep, HookRecordStep,
     HookStopStep, HookPostStep DEF Work
<1>4. CASE \E w \in Stopped : StopDispatch(w)
  BY <1>0, <1>4, HookStopStep
<1>5. CASE UNCHANGED webhookVars
  BY <1>5 DEF webhookVars, HookInv, HookType, DueRowsWait, RowsCount, BatchesCount, AnswersTrue,
              AnswerTrue,
              RowsEnded
<1> QED
  BY <1>1, <1>2, <1>3, <1>4, <1>5 DEF WebhookNext

LEMMA HookAlways == WebhookSpec => []HookInv
<1>1. WebhookInit => HookInv
  BY HookInit
<1>2. HookInv /\ [WebhookNext]_webhookVars => HookInv'
  BY HookNext
<1> QED
  BY <1>1, <1>2, PTL DEF WebhookSpec

(* No delivery is given up before its attempts are used up, or called a       *)
(* success that was not accepted, whatever the number of overlapping runs and *)
(* whichever are stopped (the route webhook-dispatch).                        *)
THEOREM DeliveriesTriedOut == WebhookSpec => []GivenUpWasTried
<1>1. HookInv => GivenUpWasTried
  BY DEF HookInv, RowsEnded, Ended, GivenUpWasTried
<1> QED
  BY <1>1, HookAlways, PTL

(* The attempts on record were made, likewise.                                *)
THEOREM RecordedAttemptsMade == WebhookSpec => []AttemptsWereMade
<1>1. HookInv => AttemptsWereMade
  BY DEF HookInv, RowsCount, Countable, AttemptsWereMade
<1> QED
  BY <1>1, HookAlways, PTL
==============================================================================
