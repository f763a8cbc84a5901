------------------------- MODULE ApprovalEngineProofs -------------------------
(* Proofs about ApprovalEngine, for every set of sessions, users, roles,      *)
(* instances and chains.                                                      *)
EXTENDS ApprovalEngine, TLAPS

USE EngineAssumption DEF OpenStatus, ClosedStatus, Status, RowStatus

------------------------------------------------------------------------------
(* Types.                                                                     *)

(* The approvals of one instance.                                             *)
Rows == [Order -> [User -> RowStatus]]

(* The rows a step inserts keep the type of an instance's rows.               *)
LEMMA WithRowsForType ==
  ASSUME NEW rows \in Rows, NEW o \in Order
  PROVE  WithRowsFor(rows, o) \in Rows
  BY DEF WithRowsFor, Rows

(* So does the caller's decision.                                             *)
LEMMA RowUpdateType ==
  ASSUME NEW rows \in Rows, NEW o, NEW u, NEW v \in RowStatus
  PROVE  [rows EXCEPT ![o][u] = v] \in Rows
  BY DEF Rows

(* A transaction's record stays one when it takes the instance or counts.     *)
LEMMA TxUpdateType ==
  ASSUME NEW t \in Tx, NEW b \in BOOLEAN
  PROVE  /\ [t EXCEPT !.pc = "instHeld"] \in Tx
         /\ [t EXCEPT !.pc = "counted", !.last = b] \in Tx
  BY DEF Tx

(* No transaction is the idle one.                                            *)
LEMMA IdleType == Idle \in Tx /\ Idle.pc = "idle"
  BY DEF Idle, Tx

------------------------------------------------------------------------------
(* Steps that write no table.                                                 *)

(* The invariants of the tables.                                              *)
TablesOK ==
  /\ NoRowsBeforeStart
  /\ NoPendingWhenDecided
  /\ OpenHasVoter
  /\ StepsInOrder

(* They are one invariant of each instance.                                   *)
InstanceOK(i) ==
  /\ status[i] = "none" => \A o \in Order, u \in User : appr[i][o][u] = "none"
  /\ IsClosed(i) => \A o \in Order, u \in User : appr[i][o][u] # "pending"
  /\ IsOpen(i) => step[i] \in Order /\ \E u \in User : appr[i][step[i]][u] = "pending"
  /\ IsOpen(i) => \A o \in Order, u \in User :
       /\ o > step[i] => appr[i][o][u] = "none"
       /\ o < step[i] => appr[i][o][u] \in {"none", "approved"}
       /\ appr[i][o][u] \notin {"rejected", "skipped"}

LEMMA TablesByInstance == TablesOK <=> \A i \in Instance : InstanceOK(i)
  BY DEF TablesOK, InstanceOK, NoRowsBeforeStart, NoPendingWhenDecided, OpenHasVoter,
         StepsInOrder

(* They say nothing of transactions and chains.                               *)
LEMMA TablesUnchanged ==
  ASSUME TablesOK, UNCHANGED <<status, step, appr>>
  PROVE  TablesOK'
  BY DEF TablesOK, NoRowsBeforeStart, NoPendingWhenDecided, OpenHasVoter, StepsInOrder,
         IsClosed, IsOpen

(* A step that writes instance k only has to keep the invariant of k.         *)
LEMMA TablesWrite ==
  ASSUME TablesOK, NEW k \in Instance, InstanceOK(k)',
         \A j \in Instance \ {k} : /\ status'[j] = status[j] /\ step'[j] = step[j]
                                   /\ appr'[j] = appr[j]
  PROVE  TablesOK'
<1>1. ASSUME NEW j \in Instance \ {k} PROVE InstanceOK(j)'
  <2>1. status'[j] = status[j] /\ step'[j] = step[j] /\ appr'[j] = appr[j] /\ j \in Instance
    OBVIOUS
  <2>2. InstanceOK(j)
    BY <2>1, TablesByInstance
  <2>3. (IsClosed(j)' <=> IsClosed(j)) /\ (IsOpen(j)' <=> IsOpen(j))
    BY <2>1 DEF IsClosed, IsOpen
  <2> QED
    BY <2>1, <2>2, <2>3 DEF InstanceOK
<1>2. \A j \in Instance : InstanceOK(j)'
  BY <1>1
<1> QED
  BY <1>2 DEF TablesOK, InstanceOK, NoRowsBeforeStart, NoPendingWhenDecided, OpenHasVoter,
             StepsInOrder

(* A transaction that writes no table keeps the discipline if its own next    *)
(* state does.                                                                *)
LEMMA LocksStep ==
  ASSUME TypeOK, LockDiscipline, NEW s \in Session, NEW r,
         tx' = [tx EXCEPT ![s] = r], UNCHANGED <<status, appr>>,
         Locking(s)' => OwnRowPending(s)',
         OwnInstanceOpen(s)',
         (tx[s].pc = "counted")' => CountStands(s)',
         \A t \in Session \ {s} : LocksExclusive(s, t)'
  PROVE  LockDiscipline'
<1>1. tx'[s] = r /\ \A t \in Session \ {s} : tx'[t] = tx[t]
  BY DEF TypeOK
<1>2. ASSUME NEW t \in Session \ {s} PROVE Locking(t)' => OwnRowPending(t)'
  BY <1>1, <1>2 DEF LockDiscipline, Locking, OwnRowPending
<1>3. ASSUME NEW t \in Session \ {s} PROVE OwnInstanceOpen(t)'
  BY <1>1, <1>3 DEF LockDiscipline, OwnInstanceOpen, IsOpen
<1>4. ASSUME NEW t \in Session \ {s} PROVE LocksExclusive(t, s)'
  BY <1>4 DEF LocksExclusive
<1>5. ASSUME NEW t \in Session \ {s}, NEW q \in Session \ {s}, t # q
      PROVE  LocksExclusive(t, q)'
  BY <1>1, <1>5 DEF LockDiscipline, LocksExclusive, HoldsInst, HoldsRow
<1>6. ASSUME NEW t \in Session \ {s} PROVE (tx[t].pc = "counted")' => CountStands(t)'
  BY <1>1, <1>6 DEF LockDiscipline, CountStands
<1> QED
  BY <1>2, <1>3, <1>4, <1>5, <1>6 DEF LockDiscipline

(* A transaction that is none of the locking ones holds nothing.              *)
LEMMA LocksNone ==
  ASSUME TypeOK, LockDiscipline, NEW s \in Session,
         tx' = [tx EXCEPT ![s] = tx'[s]], UNCHANGED <<status, appr>>,
         tx'[s].pc \in {"idle", "starting", "editing"}
  PROVE  LockDiscipline'
<1>1. PICK r : r = tx'[s]
  OBVIOUS
<1>2. /\ ~Locking(s)'
      /\ OwnInstanceOpen(s)'
      /\ (tx[s].pc # "counted")'
  BY DEF Locking, OwnInstanceOpen
<1>3. \A t \in Session \ {s} : LocksExclusive(s, t)'
  BY DEF LocksExclusive, HoldsInst, HoldsRow
<1>4. tx' = [tx EXCEPT ![s] = r]
  BY <1>1
<1> QED
  BY <1>2, <1>3, <1>4, LocksStep

(* A transaction that writes one instance keeps the discipline if nobody else *)
(* holds that instance and the rows others hold on it are still pending.      *)
LEMMA LocksWrite ==
  ASSUME TypeOK, LockDiscipline, NEW s \in Session, NEW k \in Instance,
         tx' = [tx EXCEPT ![s] = Idle],
         \A i \in Instance \ {k} : status'[i] = status[i] /\ appr'[i] = appr[i],
         \A t \in Session \ {s} : ~HoldsInst(t, k),
         \A t \in Session \ {s}, o \in Order, u \in User :
           HoldsRow(t, k, o, u) => appr'[k][o][u] = "pending"
  PROVE  LockDiscipline'
<1>1. \A t \in Session : tx'[t] = IF t = s THEN Idle ELSE tx[t]
  BY DEF TypeOK
<1>2. ASSUME NEW t \in Session, Locking(t)' PROVE OwnRowPending(t)'
  <2>1. t # s /\ tx'[t] = tx[t]
    BY <1>1, <1>2, IdleType DEF Locking
  <2>2. Locking(t) /\ OwnRowPending(t)
    BY <1>2, <2>1 DEF Locking, LockDiscipline
  <2>3. CASE tx[t].inst = k
    <3>1. ~HoldsInst(t, k)
      BY <2>1
    <3>2. /\ tx[t].goal \in {"approved", "rejected"}
          /\ tx[t].order \in Order /\ tx[t].user \in User
      BY <2>2, <2>3, <3>1 DEF OwnRowPending, HoldsInst
    <3>3. HoldsRow(t, k, tx[t].order, tx[t].user)
      BY <2>2, <2>3 DEF HoldsRow, Locking
    <3>4. \A o \in Order, u \in User : HoldsRow(t, k, o, u) => appr'[k][o][u] = "pending"
      BY <2>1
    <3>5. appr'[k][tx[t].order][tx[t].user] = "pending"
      BY <3>2, <3>3, <3>4
    <3> QED
      BY <2>1, <2>3, <3>2, <3>5 DEF OwnRowPending
  <2>4. CASE tx[t].inst # k
    <3>1. tx[t].inst \in Instance \ {k}
      BY <2>2, <2>4 DEF OwnRowPending
    <3>2. appr'[tx[t].inst] = appr[tx[t].inst]
      BY <3>1
    <3> QED
      BY <2>1, <2>2, <3>1, <3>2 DEF OwnRowPending
  <2> QED
    BY <2>3, <2>4
<1>3. ASSUME NEW t \in Session PROVE OwnInstanceOpen(t)'
  <2>1. CASE t = s
    BY <1>1, <2>1, IdleType DEF OwnInstanceOpen
  <2>2. CASE t # s /\ tx[t].pc \in {"instHeld", "counted"}
    <3>1. tx[t].inst \in Instance \ {k}
      BY <2>2 DEF HoldsInst, LockDiscipline, Locking, OwnRowPending
    <3>2. status'[tx[t].inst] = status[tx[t].inst]
      BY <3>1
    <3> QED
      BY <1>1, <2>2, <3>2 DEF OwnInstanceOpen, LockDiscipline, IsOpen
  <2>3. CASE t # s /\ tx[t].pc \notin {"instHeld", "counted"}
    BY <1>1, <2>3 DEF OwnInstanceOpen
  <2> QED
    BY <2>1, <2>2, <2>3
<1>4. \A t, r \in Session : t # r => LocksExclusive(t, r)'
  BY <1>1, IdleType DEF LockDiscipline, LocksExclusive, HoldsInst, HoldsRow
<1>5. ASSUME NEW t \in Session, (tx[t].pc = "counted")' PROVE CountStands(t)'
  <2>1. t # s /\ tx'[t] = tx[t]
    BY <1>1, <1>5, IdleType
  <2>2. tx[t].inst \in Instance \ {k}
    BY <1>5, <2>1 DEF HoldsInst, LockDiscipline, Locking, OwnRowPending
  <2>3. appr'[tx[t].inst] = appr[tx[t].inst]
    BY <2>2
  <2>4. CountStands(t)
    BY <1>5, <2>1 DEF LockDiscipline
  <2> QED
    BY <2>1, <2>3, <2>4 DEF CountStands
<1> QED
  BY <1>2, <1>3, <1>4, <1>5 DEF LockDiscipline

------------------------------------------------------------------------------
(* The lock steps of the engine.                                              *)

(* Deciding takes the row nobody else holds.                                  *)
LEMMA DecideLockRowLocks ==
  ASSUME TypeOK, LockDiscipline, NEW s \in Session, NEW i \in Instance, NEW o \in Order,
         NEW u \in User, NEW d \in {"approved", "rejected"}, DecideLockRow(s, i, o, u, d)
  PROVE  LockDiscipline'
<1> DEFINE r == [pc |-> "rowHeld", goal |-> d, inst |-> i, order |-> o, user |-> u,
                 last |-> FALSE]
<1>1. tx' = [tx EXCEPT ![s] = r] /\ UNCHANGED <<status, appr>>
  BY DEF DecideLockRow
<1>2. tx'[s] = r /\ \A t \in Session \ {s} : tx'[t] = tx[t]
  BY <1>1 DEF TypeOK
<1>3. OwnRowPending(s)'
  BY <1>1, <1>2 DEF DecideLockRow, OwnRowPending
<1>4. OwnInstanceOpen(s)' /\ (tx[s].pc # "counted")'
  BY <1>2 DEF OwnInstanceOpen
<1>5. ASSUME NEW t \in Session \ {s} PROVE LocksExclusive(s, t)'
  BY <1>2, <1>5 DEF DecideLockRow, RowFree, LocksExclusive, HoldsInst, HoldsRow
<1> HIDE DEF r
<1> QED
  BY <1>1, <1>3, <1>4, <1>5, LocksStep

(* It takes the instance only when nobody else holds it and it is open.       *)
LEMMA DecideLockInstLocks ==
  ASSUME TypeOK, LockDiscipline, NEW s \in Session, DecideLockInst(s)
  PROVE  LockDiscipline'
<1> DEFINE r == [tx[s] EXCEPT !.pc = "instHeld"]
<1>1. tx' = [tx EXCEPT ![s] = r] /\ UNCHANGED <<status, appr>>
  BY DEF DecideLockInst
<1>2. tx[s] \in Tx /\ tx'[s] = r /\ \A t \in Session \ {s} : tx'[t] = tx[t]
  BY <1>1 DEF TypeOK
<1>3. /\ r.pc = "instHeld" /\ r.goal = tx[s].goal /\ r.inst = tx[s].inst
      /\ r.order = tx[s].order /\ r.user = tx[s].user
  BY <1>2 DEF Tx
<1> HIDE DEF r
<1>4. OwnRowPending(s) /\ tx[s].pc = "rowHeld"
  BY DEF DecideLockInst, LockDiscipline, Locking
<1>5. OwnRowPending(s)'
  BY <1>1, <1>2, <1>3, <1>4 DEF OwnRowPending
<1>6. OwnInstanceOpen(s)' /\ (tx[s].pc # "counted")'
  BY <1>1, <1>2, <1>3 DEF OwnInstanceOpen, DecideLockInst, IsOpen
<1>7. ASSUME NEW t \in Session \ {s} PROVE LocksExclusive(s, t)'
  <2>1. s # t /\ LocksExclusive(s, t) /\ ~HoldsInst(t, tx[s].inst)
    BY <1>7 DEF LockDiscipline, DecideLockInst, InstFree
  <2> QED
    BY <1>2, <1>3, <1>4, <2>1 DEF LocksExclusive, HoldsInst, HoldsRow
<1> QED
  BY <1>1, <1>5, <1>6, <1>7, LocksStep

(* Counting keeps both locks.                                                 *)
LEMMA CountPeersLocks ==
  ASSUME TypeOK, LockDiscipline, NEW s \in Session, CountPeers(s)
  PROVE  LockDiscipline'
<1> DEFINE b == \A u \in User \ {tx[s].user} : appr[tx[s].inst][tx[s].order][u] # "pending"
           r == [tx[s] EXCEPT !.pc = "counted", !.last = b]
<1>1. tx' = [tx EXCEPT ![s] = r] /\ UNCHANGED <<status, appr>>
  BY DEF CountPeers
<1>2. tx[s] \in Tx /\ tx'[s] = r /\ \A t \in Session \ {s} : tx'[t] = tx[t]
  BY <1>1 DEF TypeOK
<1>3. /\ r.pc = "counted" /\ r.goal = tx[s].goal /\ r.inst = tx[s].inst
      /\ r.order = tx[s].order /\ r.user = tx[s].user /\ r.last = b
  BY <1>2 DEF Tx
<1> HIDE DEF r
<1>4. OwnRowPending(s) /\ tx[s].pc = "instHeld" /\ tx[s].goal = "approved" /\ IsOpen(tx[s].inst)
  BY DEF CountPeers, LockDiscipline, Locking, OwnInstanceOpen
<1>5. OwnRowPending(s)' /\ OwnInstanceOpen(s)'
  BY <1>1, <1>2, <1>3, <1>4 DEF OwnRowPending, OwnInstanceOpen, IsOpen
<1>6. CountStands(s)'
  <2>1. /\ tx'[s].goal = "approved" /\ tx'[s].last = b /\ tx'[s].user = tx[s].user
        /\ appr'[tx'[s].inst][tx'[s].order] = appr[tx[s].inst][tx[s].order]
    BY <1>1, <1>2, <1>3, <1>4
  <2>2. b <=> \A u \in User \ {tx'[s].user} : appr'[tx'[s].inst][tx'[s].order][u] # "pending"
    BY <2>1
  <2> HIDE DEF b
  <2> QED
    BY <2>1, <2>2, Zenon DEF CountStands
<1>7. ASSUME NEW t \in Session \ {s} PROVE LocksExclusive(s, t)'
  <2>1. s # t /\ LocksExclusive(s, t)
    BY <1>7 DEF LockDiscipline
  <2> QED
    BY <1>2, <1>3, <1>4, <2>1 DEF LocksExclusive, HoldsInst, HoldsRow
<1> QED
  BY <1>1, <1>5, <1>6, <1>7, LocksStep

(* A cancellation takes the instance only.                                    *)
LEMMA CancelLockLocks ==
  ASSUME TypeOK, LockDiscipline, NEW s \in Session, NEW i \in Instance, CancelLock(s, i)
  PROVE  LockDiscipline'
<1> DEFINE r == [Idle EXCEPT !.pc = "instHeld", !.goal = "cancelled", !.inst = i]
<1>1. tx' = [tx EXCEPT ![s] = r] /\ UNCHANGED <<status, appr>>
  BY DEF CancelLock
<1>2. tx'[s] = r /\ \A t \in Session \ {s} : tx'[t] = tx[t]
  BY <1>1 DEF TypeOK
<1>3. r.pc = "instHeld" /\ r.goal = "cancelled" /\ r.inst = i /\ r.order = 0
  BY DEF Idle
<1> HIDE DEF r
<1>4. OwnRowPending(s)' /\ OwnInstanceOpen(s)' /\ (tx[s].pc # "counted")'
  <2>1. IsOpen(i) /\ status' = status
    BY <1>1 DEF CancelLock
  <2> QED
    BY <1>2, <1>3, <2>1 DEF OwnRowPending, OwnInstanceOpen, IsOpen
<1>5. ASSUME NEW t \in Session \ {s} PROVE LocksExclusive(s, t)'
  <2>1. ~HoldsInst(t, i)
    BY <1>5 DEF CancelLock, InstFree
  <2>2. \A j \in Instance : ~(HoldsInst(s, j) /\ HoldsInst(t, j))'
    BY <1>2, <1>3, <1>5, <2>1 DEF HoldsInst
  <2>3. \A j \in Instance, o \in Order, u \in User : ~HoldsRow(s, j, o, u)'
    BY <1>2, <1>3 DEF HoldsRow
  <2> QED
    BY <2>2, <2>3 DEF LocksExclusive
<1> QED
  BY <1>1, <1>4, <1>5, LocksStep

------------------------------------------------------------------------------
(* The steps that write an instance.                                          *)

(* A row somebody holds is pending.                                           *)
LEMMA HeldRowPending ==
  ASSUME TypeOK, LockDiscipline, NEW t \in Session, NEW i \in Instance, NEW o \in Order,
         NEW u \in User, HoldsRow(t, i, o, u)
  PROVE  appr[i][o][u] = "pending"
<1>1. Locking(t) /\ tx[t].inst = i /\ tx[t].order = o /\ tx[t].user = u
  BY DEF HoldsRow, Locking
<1>2. OwnRowPending(t) /\ o # 0
  BY <1>1 DEF LockDiscipline
<1> QED
  BY <1>1, <1>2 DEF OwnRowPending

(* An approval that is about to commit is one of the instance's current step, *)
(* and nobody else holds its row or the instance.                             *)
LEMMA Counted ==
  ASSUME TypeOK, LockDiscipline, TablesOK, NEW s \in Session, tx[s].pc = "counted"
  PROVE  LET t == tx[s] IN
         /\ t.inst \in Instance /\ t.order \in Order /\ t.user \in User
         /\ appr[t.inst][t.order][t.user] = "pending"
         /\ IsOpen(t.inst)
         /\ t.order = step[t.inst]
         /\ \A q \in Session \ {s} : /\ ~HoldsInst(q, t.inst)
                                     /\ ~HoldsRow(q, t.inst, t.order, t.user)
         /\ CountStands(s)
<1> DEFINE t == tx[s]
<1>1. Locking(s) /\ CountStands(s) /\ OwnRowPending(s) /\ IsOpen(t.inst)
  BY DEF Locking, LockDiscipline, OwnInstanceOpen
<1>2. /\ t.inst \in Instance /\ t.order \in Order /\ t.user \in User
      /\ appr[t.inst][t.order][t.user] = "pending"
  BY <1>1 DEF OwnRowPending
<1>3. t.order = step[t.inst]
  <2>1. step[t.inst] \in Order
    BY <1>1, <1>2 DEF TablesOK, OpenHasVoter
  <2>2. t.order \in Nat /\ step[t.inst] \in Nat
    <3>1. Order \subseteq Nat
      BY DEF EngineAssumption
    <3> QED
      BY <1>2, <2>1, <3>1
  <2>3. ~(t.order > step[t.inst]) /\ ~(t.order < step[t.inst])
    <3>1. /\ t.order > step[t.inst] => appr[t.inst][t.order][t.user] = "none"
          /\ t.order < step[t.inst] => appr[t.inst][t.order][t.user] \in {"none", "approved"}
      BY <1>1, <1>2 DEF TablesOK, StepsInOrder
    <3> QED
      BY <1>2, <3>1
  <2> QED
    BY <2>2, <2>3
<1>4. HoldsInst(s, t.inst) /\ HoldsRow(s, t.inst, t.order, t.user)
  BY DEF HoldsInst, HoldsRow
<1>5. ASSUME NEW q \in Session \ {s}
      PROVE ~HoldsInst(q, t.inst) /\ ~HoldsRow(q, t.inst, t.order, t.user)
  <2>1. LocksExclusive(s, q)
    BY <1>5 DEF LockDiscipline
  <2> QED
    BY <1>2, <1>4, <2>1 DEF LocksExclusive
<1> QED
  BY <1>1, <1>2, <1>3, <1>5

(* Starting fills an instance that had no rows, so nobody holds any.          *)
LEMMA StartInsertSafe ==
  ASSUME TypeOK, LockDiscipline, TablesOK, NEW s \in Session, StartInsert(s)
  PROVE  LockDiscipline' /\ TablesOK'
<1>1. PICK i \in Instance, o \in Order :
        /\ status[i] = "none"
        /\ IsFirst(o, ChainOrders)
        /\ status' = [status EXCEPT ![i] = "pending"]
        /\ step' = [step EXCEPT ![i] = o]
        /\ appr' = [appr EXCEPT ![i] = WithRowsFor(appr[i], o)]
  BY DEF StartInsert
<1>2. appr[i] \in Rows /\ \A p \in Order, u \in User : appr[i][p][u] = "none"
  BY <1>1 DEF TypeOK, Rows, TablesOK, NoRowsBeforeStart
<1>3. Approvers(o) # {} /\ Approvers(o) \subseteq User
  <2>1. chain[o] \in Role
    BY <1>1 DEF IsFirst, ChainOrders, TypeOK
  <2> QED
    BY <2>1 DEF Approvers
<1>4. \A p \in Order, u \in User :
        appr'[i][p][u] = IF p = o /\ u \in Approvers(o) THEN "pending" ELSE "none"
  BY <1>1, <1>2 DEF WithRowsFor, TypeOK, Rows
<1>5. \A j \in Instance \ {i} : /\ status'[j] = status[j] /\ step'[j] = step[j]
                                /\ appr'[j] = appr[j]
  BY <1>1 DEF TypeOK
<1>6. status'[i] = "pending" /\ step'[i] = o
  BY <1>1 DEF TypeOK
<1>7. LockDiscipline'
  <2>1. \A q \in Session \ {s} : ~HoldsInst(q, i)
    BY <1>1 DEF LockDiscipline, OwnInstanceOpen, HoldsInst, IsOpen
  <2>2. ASSUME NEW q \in Session \ {s}, NEW p \in Order, NEW u \in User
        PROVE  ~HoldsRow(q, i, p, u)
    <3>1. appr[i][p][u] # "pending"
      BY <1>2
    <3> QED
      BY <3>1, HeldRowPending
  <2>3. tx' = [tx EXCEPT ![s] = Idle]
    BY DEF StartInsert
  <2> QED
    BY <1>5, <2>1, <2>2, <2>3, LocksWrite
<1>8. InstanceOK(i)'
  <2>1. \E u \in User : appr'[i][o][u] = "pending"
    BY <1>3, <1>4
  <2>2. ~IsClosed(i)' /\ status'[i] # "none"
    BY <1>6 DEF IsClosed
  <2>3. ASSUME NEW p \in Order, NEW u \in User
        PROVE  /\ p > o => appr'[i][p][u] = "none"
               /\ p < o => appr'[i][p][u] \in {"none", "approved"}
               /\ appr'[i][p][u] \notin {"rejected", "skipped"}
    <3>1. p > o \/ p < o => p # o
      BY DEF EngineAssumption
    <3>2. appr'[i][p][u] \in {"none", "pending"} /\ (p # o => appr'[i][p][u] = "none")
      BY <1>4
    <3> QED
      BY <3>1, <3>2
  <2> QED
    BY <1>6, <2>1, <2>2, <2>3 DEF InstanceOK
<1> QED
  BY <1>5, <1>7, <1>8, TablesWrite

(* The rows of an open instance around its current step.                      *)
LEMMA CurrentStep ==
  ASSUME TablesOK, NEW k \in Instance, NEW o, IsOpen(k), o = step[k]
  PROVE  \A p \in Order, u \in User :
           /\ p > o => appr[k][p][u] = "none"
           /\ p < o => appr[k][p][u] \in {"none", "approved"}
           /\ appr[k][p][u] \notin {"rejected", "skipped"}
<1>1. \A p \in Order, u \in User :
        /\ p > step[k] => appr[k][p][u] = "none"
        /\ p < step[k] => appr[k][p][u] \in {"none", "approved"}
        /\ appr[k][p][u] \notin {"rejected", "skipped"}
  BY DEF TablesOK, StepsInOrder
<1> QED
  BY <1>1, Zenon

(* An approval with peers still pending leaves its step to them.              *)
LEMMA ApproveWaitSafe ==
  ASSUME TypeOK, LockDiscipline, TablesOK, NEW s \in Session, ApproveWait(s)
  PROVE  LockDiscipline' /\ TablesOK'
<1>0. PICK k \in Instance, o \in Order, w \in User :
        k = tx[s].inst /\ o = tx[s].order /\ w = tx[s].user
  BY Counted DEF ApproveWait
<1>1. /\ k \in Instance /\ o \in Order /\ w \in User /\ IsOpen(k) /\ o = step[k]
      /\ \A q \in Session \ {s} : ~HoldsInst(q, k) /\ ~HoldsRow(q, k, o, w)
      /\ ~tx[s].last /\ CountStands(s)
  BY <1>0, Counted DEF ApproveWait
<1>2. /\ status' = [status EXCEPT ![k] = "in_progress"]
      /\ appr' = [appr EXCEPT ![k][o][w] = "approved"]
      /\ tx' = [tx EXCEPT ![s] = Idle]
      /\ UNCHANGED step
  BY <1>0 DEF ApproveWait
<1>3. \A j \in Instance \ {k} : /\ status'[j] = status[j] /\ step'[j] = step[j]
                                /\ appr'[j] = appr[j]
  BY <1>2 DEF TypeOK
<1>4. /\ status'[k] = "in_progress" /\ step'[k] = o
      /\ \A p \in Order, u \in User :
           appr'[k][p][u] = IF p = o /\ u = w THEN "approved" ELSE appr[k][p][u]
  BY <1>1, <1>2 DEF TypeOK
<1>5. LockDiscipline'
  <2>1. ASSUME NEW q \in Session \ {s}, NEW p \in Order, NEW u \in User, HoldsRow(q, k, p, u)
        PROVE  appr'[k][p][u] = "pending"
    <3>1. ~(p = o /\ u = w)
      BY <1>1, <2>1
    <3>2. appr[k][p][u] = "pending"
      BY <1>1, <2>1, HeldRowPending
    <3> QED
      BY <1>4, <3>1, <3>2
  <2>2. \A j \in Instance \ {k} : status'[j] = status[j] /\ appr'[j] = appr[j]
    BY <1>3
  <2>3. \A q \in Session \ {s} : ~HoldsInst(q, k)
    BY <1>1
  <2> QED
    BY <1>1, <1>2, <2>1, <2>2, <2>3, LocksWrite
<1>6. \E u \in User : appr'[k][o][u] = "pending"
  <2>1. tx[s].last <=> \A u \in User \ {w} : appr[k][o][u] # "pending"
    BY <1>0, <1>1 DEF CountStands
  <2>2. PICK u \in User \ {w} : appr[k][o][u] = "pending"
    BY <1>1, <2>1, Zenon
  <2> QED
    BY <1>1, <1>4, <2>2
<1>7. InstanceOK(k)'
  <2>1. \A p \in Order, u \in User :
          /\ p > o => appr[k][p][u] = "none"
          /\ p < o => appr[k][p][u] \in {"none", "approved"}
          /\ appr[k][p][u] \notin {"rejected", "skipped"}
    BY <1>1, CurrentStep
  <2> QED
    BY <1>1, <1>4, <1>6, <2>1 DEF InstanceOK, IsClosed
<1> QED
  BY <1>1, <1>3, <1>5, <1>7, TablesWrite

(* The last approval of a step opens the next one, which had no rows.         *)
LEMMA ApproveAdvanceSafe ==
  ASSUME TypeOK, LockDiscipline, TablesOK, NEW s \in Session, ApproveAdvance(s)
  PROVE  LockDiscipline' /\ TablesOK'
<1>0. PICK k \in Instance, o \in Order, w \in User :
        k = tx[s].inst /\ o = tx[s].order /\ w = tx[s].user
  BY Counted DEF ApproveAdvance
<1>1. /\ IsOpen(k) /\ o = step[k]
      /\ \A q \in Session \ {s} : ~HoldsInst(q, k) /\ ~HoldsRow(q, k, o, w)
      /\ tx[s].last /\ CountStands(s)
  BY <1>0, Counted DEF ApproveAdvance
<1>2. PICK p \in Order :
        /\ IsFirst(p, NextOrders(o))
        /\ appr' = [appr EXCEPT ![k] = WithRowsFor([@ EXCEPT ![o][w] = "approved"], p)]
        /\ step' = [step EXCEPT ![k] = p]
  BY <1>0 DEF ApproveAdvance
<1>3. status' = [status EXCEPT ![k] = "in_progress"] /\ tx' = [tx EXCEPT ![s] = Idle]
  BY <1>0 DEF ApproveAdvance
<1>4. \A j \in Instance \ {k} : /\ status'[j] = status[j] /\ step'[j] = step[j]
                                /\ appr'[j] = appr[j]
  BY <1>2, <1>3 DEF TypeOK
<1>5. p > o /\ Approvers(p) # {} /\ Approvers(p) \subseteq User
  <2>1. p > o /\ chain[p] \in Role
    BY <1>2 DEF IsFirst, NextOrders, ChainOrders, TypeOK
  <2> QED
    BY <2>1 DEF Approvers
<1>6. \A x \in Order, u \in User :
        /\ x > o => appr[k][x][u] = "none"
        /\ x < o => appr[k][x][u] \in {"none", "approved"}
        /\ appr[k][x][u] \notin {"rejected", "skipped"}
  BY <1>1, CurrentStep
<1>7. o # p /\ o \in Nat /\ p \in Nat /\ Order \subseteq Nat
  <2>1. Order \subseteq Nat
    BY DEF EngineAssumption
  <2> QED
    BY <1>5, <2>1
<1>8. \A x \in Order, u \in User :
        appr'[k][x][u] = IF x = p /\ u \in Approvers(p) THEN "pending"
                         ELSE IF x = o /\ u = w THEN "approved" ELSE appr[k][x][u]
  <2>1. appr'[k] = WithRowsFor([appr[k] EXCEPT ![o][w] = "approved"], p)
    BY <1>2 DEF TypeOK
  <2>2. appr[k] \in [Order -> [User -> RowStatus]]
    BY DEF TypeOK
  <2> QED
    BY <1>7, <2>1, <2>2 DEF WithRowsFor
<1>9. status'[k] = "in_progress" /\ step'[k] = p
  BY <1>2, <1>3 DEF TypeOK
<1>10. LockDiscipline'
  <2>1. ASSUME NEW q \in Session \ {s}, NEW x \in Order, NEW u \in User, HoldsRow(q, k, x, u)
        PROVE  appr'[k][x][u] = "pending"
    <3>1. ~(x = o /\ u = w)
      BY <1>1, <2>1
    <3>2. appr[k][x][u] = "pending"
      BY <2>1, HeldRowPending
    <3> QED
      BY <1>8, <3>1, <3>2
  <2>2. \A j \in Instance \ {k} : status'[j] = status[j] /\ appr'[j] = appr[j]
    BY <1>4
  <2>3. \A q \in Session \ {s} : ~HoldsInst(q, k)
    BY <1>1
  <2> QED
    BY <1>3, <2>1, <2>2, <2>3, LocksWrite
<1>11. InstanceOK(k)'
  <2>1. \E u \in User : appr'[k][p][u] = "pending"
    BY <1>5, <1>8
  <2>2. ~IsClosed(k)' /\ status'[k] # "none"
    BY <1>9 DEF IsClosed
  <2>3. \A u \in User \ {w} : appr[k][o][u] # "pending"
    BY <1>0, <1>1, Zenon DEF CountStands
  <2>4. ASSUME NEW x \in Order, NEW u \in User
        PROVE  /\ x > p => appr'[k][x][u] = "none"
               /\ x < p => appr'[k][x][u] \in {"none", "approved"}
               /\ appr'[k][x][u] \notin {"rejected", "skipped"}
    <3>1. x \in Nat /\ (x > o \/ x = o \/ x < o)
      BY <1>7
    <3>2. appr[k][x][u] \in RowStatus
      BY DEF TypeOK
    <3> QED
      BY <1>5, <1>6, <1>7, <1>8, <2>3, <3>1, <3>2
  <2> QED
    BY <1>9, <2>1, <2>2, <2>4 DEF InstanceOK
<1> QED
  BY <1>4, <1>10, <1>11, TablesWrite

(* The last approval of the last step leaves nothing pending.                 *)
LEMMA ApproveFinalSafe ==
  ASSUME TypeOK, LockDiscipline, TablesOK, NEW s \in Session, ApproveFinal(s)
  PROVE  LockDiscipline' /\ TablesOK'
<1>0. PICK k \in Instance, o \in Order, w \in User :
        k = tx[s].inst /\ o = tx[s].order /\ w = tx[s].user
  BY Counted DEF ApproveFinal
<1>1. /\ IsOpen(k) /\ o = step[k]
      /\ \A q \in Session \ {s} : ~HoldsInst(q, k) /\ ~HoldsRow(q, k, o, w)
      /\ tx[s].last /\ CountStands(s)
  BY <1>0, Counted DEF ApproveFinal
<1>2. /\ status' = [status EXCEPT ![k] = "approved"]
      /\ appr' = [appr EXCEPT ![k][o][w] = "approved"]
      /\ tx' = [tx EXCEPT ![s] = Idle]
      /\ UNCHANGED step
  BY <1>0 DEF ApproveFinal
<1>3. \A j \in Instance \ {k} : /\ status'[j] = status[j] /\ step'[j] = step[j]
                                /\ appr'[j] = appr[j]
  BY <1>2 DEF TypeOK
<1>4. /\ status'[k] = "approved"
      /\ \A p \in Order, u \in User :
           appr'[k][p][u] = IF p = o /\ u = w THEN "approved" ELSE appr[k][p][u]
  BY <1>2 DEF TypeOK
<1>5. LockDiscipline'
  <2>1. ASSUME NEW q \in Session \ {s}, NEW p \in Order, NEW u \in User, HoldsRow(q, k, p, u)
        PROVE  appr'[k][p][u] = "pending"
    <3>1. ~(p = o /\ u = w)
      BY <1>1, <2>1
    <3>2. appr[k][p][u] = "pending"
      BY <2>1, HeldRowPending
    <3> QED
      BY <1>4, <3>1, <3>2
  <2>2. \A j \in Instance \ {k} : status'[j] = status[j] /\ appr'[j] = appr[j]
    BY <1>3
  <2>3. \A q \in Session \ {s} : ~HoldsInst(q, k)
    BY <1>1
  <2>4. tx' = [tx EXCEPT ![s] = Idle]
    BY <1>2
  <2> QED
    BY <2>1, <2>2, <2>3, <2>4, LocksWrite
<1>6. InstanceOK(k)'
  <2>1. \A u \in User \ {w} : appr[k][o][u] # "pending"
    BY <1>0, <1>1, Zenon DEF CountStands
  <2>2. \A p \in Order, u \in User :
          /\ p > o => appr[k][p][u] = "none"
          /\ p < o => appr[k][p][u] \in {"none", "approved"}
    BY <1>1, CurrentStep
  <2>3. ASSUME NEW p \in Order, NEW u \in User PROVE appr'[k][p][u] # "pending"
    <3>1. p > o \/ p = o \/ p < o
      <4>1. Order \subseteq Nat
        BY DEF EngineAssumption
      <4> QED
        BY <4>1
    <3> QED
      BY <1>4, <2>1, <2>2, <3>1
  <2> QED
    BY <1>4, <2>3 DEF InstanceOK, IsOpen
<1> QED
  BY <1>3, <1>5, <1>6, TablesWrite

(* A closing statement has the locks of all the rows it skips.                *)
LEMMA CloseSafe ==
  ASSUME TypeOK, LockDiscipline, TablesOK, NEW s \in Session, Close(s)
  PROVE  LockDiscipline' /\ TablesOK'
<1>0. OwnRowPending(s) /\ tx[s].inst \in Instance
  BY DEF Close, LockDiscipline, Locking, OwnRowPending
<1>1. PICK k \in Instance : k = tx[s].inst
  BY <1>0
<1>2. /\ tx[s].pc = "instHeld" /\ tx[s].goal \in {"rejected", "cancelled"}
      /\ PendingFree(s, k)
      /\ appr' = [appr EXCEPT ![k] = ClosedRows(tx[s])]
      /\ status' = [status EXCEPT ![k] = tx[s].goal]
      /\ tx' = [tx EXCEPT ![s] = Idle]
      /\ UNCHANGED step
  BY <1>1 DEF Close
<1>3. \A j \in Instance \ {k} : /\ status'[j] = status[j] /\ step'[j] = step[j]
                                /\ appr'[j] = appr[j]
  BY <1>2 DEF TypeOK
<1>4. status'[k] \in {"rejected", "cancelled"}
  BY <1>2 DEF TypeOK
<1>5. \A o \in Order, u \in User : appr'[k][o][u] # "pending"
  <2>1. appr'[k] = ClosedRows(tx[s])
    BY <1>2 DEF TypeOK
  <2>2. \A o \in Order, u \in User :
          ClosedRows(tx[s])[o][u] = IF o = tx[s].order /\ u = tx[s].user THEN tx[s].goal
                                    ELSE IF appr[k][o][u] = "pending" THEN "skipped"
                                    ELSE appr[k][o][u]
    BY <1>1 DEF ClosedRows
  <2>3. tx[s].goal # "pending"
    BY <1>2
  <2> QED
    BY <2>1, <2>2, <2>3
<1>6. LockDiscipline'
  <2>1. ASSUME NEW q \in Session \ {s}, NEW o \in Order, NEW u \in User
        PROVE  ~HoldsRow(q, k, o, u)
    <3>1. SUFFICES ASSUME HoldsRow(q, k, o, u) PROVE FALSE
      OBVIOUS
    <3>2. q \in Session
      BY <2>1
    <3>3. appr[k][o][u] = "pending"
      BY <3>1, <3>2, HeldRowPending
    <3>4. RowFree(s, k, o, u)
      BY <1>2, <3>3 DEF PendingFree
    <3> QED
      BY <2>1, <3>1, <3>4 DEF RowFree
  <2>2. ASSUME NEW q \in Session \ {s} PROVE ~HoldsInst(q, k)
    <3>1. LocksExclusive(s, q) /\ HoldsInst(s, k)
      BY <1>1, <1>2, <2>2 DEF LockDiscipline, HoldsInst
    <3> QED
      BY <3>1 DEF LocksExclusive
  <2>3. \A j \in Instance \ {k} : status'[j] = status[j] /\ appr'[j] = appr[j]
    BY <1>3
  <2>4. tx' = [tx EXCEPT ![s] = Idle]
    BY <1>2
  <2>5. \A q \in Session \ {s}, o \in Order, u \in User :
          HoldsRow(q, k, o, u) => appr'[k][o][u] = "pending"
    BY <2>1
  <2> QED
    BY <2>2, <2>3, <2>4, <2>5, LocksWrite
<1>7. InstanceOK(k)'
  BY <1>4, <1>5 DEF InstanceOK, IsOpen
<1> QED
  BY <1>3, <1>6, <1>7, TablesWrite

------------------------------------------------------------------------------
(* The inductive invariant.                                                   *)

(* Types need the lock discipline: only it says that a cancellation, whose    *)
(* goal is no status of an approval, has no row of its own.                   *)
LEMMA TypeStep == TypeOK /\ LockDiscipline /\ [Next]_vars => TypeOK'
<1> SUFFICES ASSUME TypeOK, LockDiscipline, [Next]_vars PROVE TypeOK'
  OBVIOUS
<1>a. appr \in [Instance -> Rows]
  BY DEF TypeOK, Rows
<1>1. ASSUME NEW s \in Session, StartCheck(s) PROVE TypeOK'
  BY <1>1 DEF TypeOK, StartCheck, Idle, Tx
<1>2. ASSUME NEW s \in Session, StartInsert(s) PROVE TypeOK'
  <2>1. PICK i \in Instance, o \in Order :
          /\ status' = [status EXCEPT ![i] = "pending"]
          /\ step' = [step EXCEPT ![i] = o]
          /\ appr' = [appr EXCEPT ![i] = WithRowsFor(appr[i], o)]
    BY <1>2 DEF StartInsert
  <2>2. appr' \in [Instance -> Rows]
    BY <1>a, <2>1, WithRowsForType
  <2> QED
    BY <1>2, <2>1, <2>2, IdleType DEF TypeOK, StartInsert, Rows
<1>3. ASSUME NEW s \in Session, NEW i \in Instance, NEW o \in Order, NEW u \in User,
             NEW d \in {"approved", "rejected"}, DecideLockRow(s, i, o, u, d)
      PROVE TypeOK'
  BY <1>3 DEF TypeOK, DecideLockRow, Tx
<1>4. ASSUME NEW s \in Session, DecideLockInst(s) PROVE TypeOK'
  <2>1. [tx[s] EXCEPT !.pc = "instHeld"] \in Tx
    BY TxUpdateType DEF TypeOK
  <2> QED
    BY <1>4, <2>1 DEF TypeOK, DecideLockInst
<1>5. ASSUME NEW s \in Session, CountPeers(s) PROVE TypeOK'
  <2> DEFINE t == tx[s]
             b == \A u \in User \ {t.user} : appr[t.inst][t.order][u] # "pending"
  <2>1. [t EXCEPT !.pc = "counted", !.last = b] \in Tx
    <3>1. t \in Tx /\ b \in BOOLEAN
      BY DEF TypeOK
    <3> QED
      BY <3>1, TxUpdateType
  <2> QED
    BY <1>5, <2>1 DEF TypeOK, CountPeers
<1>6. ASSUME NEW s \in Session, ApproveWait(s) PROVE TypeOK'
  <2>1. appr' \in [Instance -> Rows]
    BY <1>6, <1>a, RowUpdateType DEF ApproveWait
  <2> QED
    BY <1>6, <2>1, IdleType DEF TypeOK, ApproveWait, Rows
<1>7. ASSUME NEW s \in Session, ApproveAdvance(s) PROVE TypeOK'
  <2>1. PICK p \in Order :
          /\ appr' = [appr EXCEPT ![tx[s].inst] =
               WithRowsFor([@ EXCEPT ![tx[s].order][tx[s].user] = "approved"], p)]
          /\ step' = [step EXCEPT ![tx[s].inst] = p]
    BY <1>7 DEF ApproveAdvance
  <2>2. appr' \in [Instance -> Rows]
    BY <1>a, <2>1, RowUpdateType, WithRowsForType
  <2> QED
    BY <1>7, <2>1, <2>2, IdleType DEF TypeOK, ApproveAdvance, Rows
<1>8. ASSUME NEW s \in Session, ApproveFinal(s) PROVE TypeOK'
  <2>1. appr' \in [Instance -> Rows]
    BY <1>8, <1>a, RowUpdateType DEF ApproveFinal
  <2> QED
    BY <1>8, <2>1, IdleType DEF TypeOK, ApproveFinal, Rows
<1>9. ASSUME NEW s \in Session, NEW i \in Instance, CancelLock(s, i) PROVE TypeOK'
  BY <1>9 DEF TypeOK, CancelLock, Idle, Tx
<1>10. ASSUME NEW s \in Session, Close(s) PROVE TypeOK'
  <2>1. tx[s].goal \in {"rejected", "cancelled"} /\ tx[s].inst \in Instance
    BY <1>10 DEF Close, LockDiscipline, Locking, OwnRowPending
  <2>2. tx[s].goal = "rejected" \/ tx[s].order \notin Order
    BY <1>10, <2>1 DEF Close, LockDiscipline, Locking, OwnRowPending
  <2>3. ClosedRows(tx[s]) \in Rows
    <3> DEFINE row(o, u) ==
          IF o = tx[s].order /\ u = tx[s].user THEN tx[s].goal
          ELSE IF appr[tx[s].inst][o][u] = "pending" THEN "skipped"
          ELSE appr[tx[s].inst][o][u]
    <3>1. ASSUME NEW o \in Order, NEW u \in User PROVE row(o, u) \in RowStatus
      <4>1. appr[tx[s].inst] \in Rows
        BY <1>a, <2>1
      <4>2. o = tx[s].order => tx[s].goal \in RowStatus
        BY <2>1, <2>2
      <4>3. appr[tx[s].inst][o][u] \in RowStatus
        BY <4>1 DEF Rows
      <4> QED
        BY <4>2, <4>3
    <3>2. ClosedRows(tx[s]) = [o \in Order |-> [u \in User |-> row(o, u)]]
      BY DEF ClosedRows
    <3> HIDE DEF row
    <3> QED
      BY <3>1, <3>2 DEF Rows
  <2>4. appr' \in [Instance -> Rows]
    BY <1>10, <1>a, <2>1, <2>3 DEF Close
  <2> QED
    BY <1>10, <2>1, <2>4, IdleType DEF TypeOK, Close, Rows
<1>11. ASSUME NEW s \in Session, Raise(s) PROVE TypeOK'
  BY <1>11, IdleType DEF TypeOK, Raise
<1>12. ASSUME NEW s \in Session, DeadlockVictim(s) PROVE TypeOK'
  BY <1>12, IdleType DEF TypeOK, DeadlockVictim
<1>13. ASSUME NEW s \in Session, Disconnect(s) PROVE TypeOK'
  BY <1>13, IdleType DEF TypeOK, Disconnect
<1>14. ASSUME NEW s \in Session, EditDelete(s) PROVE TypeOK'
  BY <1>14 DEF TypeOK, EditDelete, Idle, Tx
<1>15. ASSUME NEW s \in Session, NEW c \in Chains, EditInsert(s, c) PROVE TypeOK'
  BY <1>15, IdleType DEF TypeOK, EditInsert
<1>16. CASE UNCHANGED vars
  BY <1>16 DEF TypeOK, vars
<1>17. Editor \subseteq Session
  BY DEF EngineAssumption
<1> QED
  BY <1>1, <1>2, <1>3, <1>4, <1>5, <1>6, <1>7, <1>8, <1>9, <1>10, <1>11, <1>12,
     <1>13, <1>14, <1>15, <1>16, <1>17 DEF Next, Decide, Edit

(* Every step keeps the locks exclusive and the tables in order.              *)
LEMMA EngineStep == TypeOK /\ LockDiscipline /\ TablesOK /\ [Next]_vars
                      => LockDiscipline' /\ TablesOK'
<1> SUFFICES ASSUME TypeOK, LockDiscipline, TablesOK, [Next]_vars
             PROVE  LockDiscipline' /\ TablesOK'
  OBVIOUS
<1>1. ASSUME NEW s \in Session, StartCheck(s) PROVE LockDiscipline' /\ TablesOK'
  <2>1. tx'[s].pc = "starting" /\ tx' = [tx EXCEPT ![s] = tx'[s]]
    BY <1>1 DEF StartCheck, Idle, TypeOK
  <2>2. UNCHANGED <<status, appr>> /\ UNCHANGED step
    BY <1>1 DEF StartCheck
  <2>3. LockDiscipline'
    BY <2>1, <2>2, LocksNone
  <2> QED
    BY <2>2, <2>3, TablesUnchanged
<1>2. ASSUME NEW s \in Session, StartInsert(s) PROVE LockDiscipline' /\ TablesOK'
  BY <1>2, StartInsertSafe
<1>3. ASSUME NEW s \in Session, NEW i \in Instance, NEW o \in Order, NEW u \in User,
             NEW d \in {"approved", "rejected"}, DecideLockRow(s, i, o, u, d)
      PROVE LockDiscipline' /\ TablesOK'
  <2>1. UNCHANGED <<status, step, appr>>
    BY <1>3 DEF DecideLockRow
  <2> QED
    BY <1>3, <2>1, DecideLockRowLocks, TablesUnchanged
<1>4. ASSUME NEW s \in Session, DecideLockInst(s) PROVE LockDiscipline' /\ TablesOK'
  <2>1. UNCHANGED <<status, step, appr>>
    BY <1>4 DEF DecideLockInst
  <2> QED
    BY <1>4, <2>1, DecideLockInstLocks, TablesUnchanged
<1>5. ASSUME NEW s \in Session, CountPeers(s) PROVE LockDiscipline' /\ TablesOK'
  <2>1. UNCHANGED <<status, step, appr>>
    BY <1>5 DEF CountPeers
  <2> QED
    BY <1>5, <2>1, CountPeersLocks, TablesUnchanged
<1>6. ASSUME NEW s \in Session, ApproveWait(s) \/ ApproveAdvance(s) \/ ApproveFinal(s) \/ Close(s)
      PROVE LockDiscipline' /\ TablesOK'
  BY <1>6, ApproveWaitSafe, ApproveAdvanceSafe, ApproveFinalSafe, CloseSafe
<1>7. ASSUME NEW s \in Session, NEW i \in Instance, CancelLock(s, i)
      PROVE LockDiscipline' /\ TablesOK'
  <2>1. UNCHANGED <<status, step, appr>>
    BY <1>7 DEF CancelLock
  <2> QED
    BY <1>7, <2>1, CancelLockLocks, TablesUnchanged
<1>8. ASSUME NEW s \in Session, Raise(s) \/ DeadlockVictim(s) \/ Disconnect(s)
      PROVE LockDiscipline' /\ TablesOK'
  <2>1. tx'[s].pc = "idle" /\ tx' = [tx EXCEPT ![s] = tx'[s]]
    BY <1>8, IdleType DEF TypeOK, Raise, DeadlockVictim, Disconnect
  <2>2. UNCHANGED <<status, appr>> /\ UNCHANGED step
    BY <1>8 DEF Raise, DeadlockVictim, Disconnect
  <2>3. LockDiscipline'
    BY <2>1, <2>2, LocksNone
  <2> QED
    BY <2>2, <2>3, TablesUnchanged
<1>9. ASSUME NEW s \in Session, EditDelete(s) PROVE LockDiscipline' /\ TablesOK'
  <2>1. tx'[s].pc = "editing" /\ tx' = [tx EXCEPT ![s] = tx'[s]]
    BY <1>9 DEF EditDelete, Idle, TypeOK
  <2>2. UNCHANGED <<status, appr>> /\ UNCHANGED step
    BY <1>9 DEF EditDelete
  <2>3. LockDiscipline'
    BY <2>1, <2>2, LocksNone
  <2> QED
    BY <2>2, <2>3, TablesUnchanged
<1>10. ASSUME NEW s \in Session, NEW c \in Chains, EditInsert(s, c)
       PROVE LockDiscipline' /\ TablesOK'
  <2>1. tx'[s].pc = "idle" /\ tx' = [tx EXCEPT ![s] = tx'[s]]
    BY <1>10, IdleType DEF TypeOK, EditInsert
  <2>2. UNCHANGED <<status, appr>> /\ UNCHANGED step
    BY <1>10 DEF EditInsert
  <2>3. LockDiscipline'
    BY <2>1, <2>2, LocksNone
  <2> QED
    BY <2>2, <2>3, TablesUnchanged
<1>11. CASE UNCHANGED vars
  <2>1. UNCHANGED <<status, step, appr>> /\ UNCHANGED tx
    BY <1>11 DEF vars
  <2>2. LockDiscipline'
    <3>1. \A s \in Session : Locking(s)' => OwnRowPending(s)'
      BY <2>1 DEF LockDiscipline, Locking, OwnRowPending
    <3>2. \A s \in Session : OwnInstanceOpen(s)'
      BY <2>1 DEF LockDiscipline, OwnInstanceOpen, IsOpen
    <3>3. \A s, t \in Session : s # t => LocksExclusive(s, t)'
      BY <2>1 DEF LockDiscipline, LocksExclusive, HoldsInst, HoldsRow
    <3>4. \A s \in Session : (tx[s].pc = "counted")' => CountStands(s)'
      BY <2>1 DEF LockDiscipline, CountStands
    <3> QED
      BY <3>1, <3>2, <3>3, <3>4 DEF LockDiscipline
  <2> QED
    BY <2>1, <2>2, TablesUnchanged
<1>12. Editor \subseteq Session
  BY DEF EngineAssumption
<1> QED
  BY <1>1, <1>2, <1>3, <1>4, <1>5, <1>6, <1>7, <1>8, <1>9, <1>10, <1>11, <1>12
     DEF Next, Decide, Edit

(* EngineInvariant is inductive.                                              *)
THEOREM EngineInvariantHolds == Spec => []EngineInvariant
<1>1. Init => EngineInvariant
  <2> SUFFICES ASSUME Init PROVE EngineInvariant
    OBVIOUS
  <2>1. TypeOK
    BY IdleType DEF Init, TypeOK
  <2>2. LockDiscipline
    BY IdleType DEF Init, LockDiscipline, Locking, OwnInstanceOpen, LocksExclusive,
                    HoldsInst, HoldsRow
  <2>3. NoRowsBeforeStart /\ NoPendingWhenDecided /\ OpenHasVoter /\ StepsInOrder
    BY DEF Init, NoRowsBeforeStart, NoPendingWhenDecided, OpenHasVoter, StepsInOrder,
           IsOpen, IsClosed
  <2> QED
    BY <2>1, <2>2, <2>3 DEF EngineInvariant
<1>2. EngineInvariant /\ [Next]_vars => EngineInvariant'
  BY TypeStep, EngineStep DEF EngineInvariant, TablesOK
<1> QED
  BY <1>1, <1>2, PTL DEF Spec

(* The state stays well typed: what the check constraints on                  *)
(* approval_instances.status and approvals.status require is never refused.   *)
THEOREM TypeCorrect == Spec => []TypeOK
  BY EngineInvariantHolds, PTL DEF EngineInvariant

(* A decided instance leaves nothing in anybody's inbox, however many         *)
(* decisions and cancellations race (class C7b of the consistency audit).     *)
THEOREM NothingPendingWhenDecided == Spec => []NoPendingWhenDecided
  BY EngineInvariantHolds, PTL DEF EngineInvariant

(* An open instance can always be decided by somebody: the last approvers of  *)
(* a step never leave it behind together.                                     *)
THEOREM OpenInstanceHasVoter == Spec => []OpenHasVoter
  BY EngineInvariantHolds, PTL DEF EngineInvariant

(* The steps of a chain are worked in order.                                  *)
THEOREM StepsWorkedInOrder == Spec => []StepsInOrder
  BY EngineInvariantHolds, PTL DEF EngineInvariant

------------------------------------------------------------------------------
(* What a step may never do.                                                  *)

(* Only five steps write an instance or its approvals.                        *)
LEMMA WritingSteps ==
  ASSUME [Next]_vars
  PROVE  \/ UNCHANGED status /\ UNCHANGED appr
         \/ \E s \in Session :
              \/ StartInsert(s) \/ Close(s)
              \/ ApproveWait(s) \/ ApproveFinal(s) \/ ApproveAdvance(s)
<1>1. ASSUME NEW s \in Session,
             \/ StartCheck(s) \/ Raise(s) \/ DeadlockVictim(s) \/ Disconnect(s)
             \/ EditDelete(s) \/ \E c \in Chains : EditInsert(s, c)
      PROVE  UNCHANGED status /\ UNCHANGED appr
  BY <1>1 DEF StartCheck, Raise, DeadlockVictim, Disconnect, EditDelete, EditInsert
<1>2. ASSUME NEW s \in Session,
             \/ \E i \in Instance, o \in Order, u \in User, d \in {"approved", "rejected"} :
                  DecideLockRow(s, i, o, u, d)
             \/ DecideLockInst(s) \/ CountPeers(s) \/ \E i \in Instance : CancelLock(s, i)
      PROVE  UNCHANGED status /\ UNCHANGED appr
  BY <1>2 DEF DecideLockRow, DecideLockInst, CountPeers, CancelLock
<1>3. CASE UNCHANGED vars
  BY <1>3 DEF vars
<1>4. CASE Next
  <2>1. Editor \subseteq Session
    BY DEF EngineAssumption
  <2> QED
    BY <1>1, <1>2, <1>4, <2>1 DEF Next, Decide, Edit
<1> QED
  BY <1>3, <1>4

(* Three lemmas say what the writing steps do to decided rows: the caller's   *)
(* own row is the only one an approval changes, and it was pending.           *)
LEMMA ApproveKeepsDecisions ==
  ASSUME TypeOK, LockDiscipline, TablesOK, NEW s \in Session,
         ApproveWait(s) \/ ApproveFinal(s) \/ ApproveAdvance(s),
         NEW i \in Instance, NEW o \in Order, NEW u \in User,
         appr[i][o][u] \in {"approved", "rejected", "skipped"}
  PROVE  appr'[i][o][u] = appr[i][o][u]
<1>0. PICK k \in Instance, q \in Order, w \in User :
        k = tx[s].inst /\ q = tx[s].order /\ w = tx[s].user
  BY Counted DEF ApproveWait, ApproveFinal, ApproveAdvance
<1>1. appr[k][q][w] = "pending" /\ IsOpen(k) /\ q = step[k]
  BY <1>0, Counted DEF ApproveWait, ApproveFinal, ApproveAdvance
<1>2. ~(i = k /\ o = q /\ u = w)
  BY <1>1
<1>3. CASE ApproveWait(s) \/ ApproveFinal(s)
  <2>1. appr' = [appr EXCEPT ![k][q][w] = "approved"]
    BY <1>0, <1>3 DEF ApproveWait, ApproveFinal
  <2> QED
    BY <1>2, <2>1 DEF TypeOK
<1>4. CASE ApproveAdvance(s)
  <2>1. PICK p \in Order :
          /\ IsFirst(p, NextOrders(q))
          /\ appr' = [appr EXCEPT ![k] = WithRowsFor([@ EXCEPT ![q][w] = "approved"], p)]
    BY <1>0, <1>4 DEF ApproveAdvance
  <2>2. appr[k][p][u] = "none"
    <3>1. p > q
      BY <2>1 DEF IsFirst, NextOrders
    <3> QED
      BY <1>1, <3>1, CurrentStep
  <2>3. ~(i = k /\ o = p)
    BY <2>2
  <2> QED
    BY <1>2, <2>1, <2>3 DEF TypeOK, WithRowsFor
<1> QED
  BY <1>3, <1>4

LEMMA CloseKeepsDecisions ==
  ASSUME TypeOK, LockDiscipline, NEW s \in Session, Close(s),
         NEW i \in Instance, NEW o \in Order, NEW u \in User,
         appr[i][o][u] \in {"approved", "rejected", "skipped"}
  PROVE  appr'[i][o][u] = appr[i][o][u]
<1>1. PICK k \in Instance : k = tx[s].inst
  BY DEF Close, LockDiscipline, Locking, OwnRowPending
<1>2. ~(i = k /\ o = tx[s].order /\ u = tx[s].user)
  <2>1. OwnRowPending(s)
    BY DEF Close, LockDiscipline, Locking
  <2> QED
    BY <1>1, <2>1 DEF OwnRowPending
<1>3. appr' = [appr EXCEPT ![k] = ClosedRows(tx[s])]
  BY <1>1 DEF Close
<1>4. CASE i = k
  <2>1. appr'[i] = ClosedRows(tx[s])
    BY <1>3, <1>4 DEF TypeOK
  <2> QED
    BY <1>1, <1>2, <1>4, <2>1 DEF ClosedRows
<1>5. CASE i # k
  BY <1>3, <1>5 DEF TypeOK
<1> QED
  BY <1>4, <1>5

LEMMA StartKeepsDecisions ==
  ASSUME TypeOK, TablesOK, NEW s \in Session, StartInsert(s),
         NEW i \in Instance, NEW o \in Order, NEW u \in User,
         appr[i][o][u] \in {"approved", "rejected", "skipped"}
  PROVE  appr'[i][o][u] = appr[i][o][u]
<1>1. PICK k \in Instance, p \in Order :
        status[k] = "none" /\ appr' = [appr EXCEPT ![k] = WithRowsFor(appr[k], p)]
  BY DEF StartInsert
<1>2. i # k
  BY <1>1 DEF TablesOK, NoRowsBeforeStart
<1> QED
  BY <1>1, <1>2 DEF TypeOK

(* A recorded decision is never overwritten.                                  *)
THEOREM DecisionsAreFinal == Spec => DecisionsStand
<1>1. EngineInvariant /\ [Next]_vars =>
        [\A i \in Instance, o \in Order, u \in User :
           appr[i][o][u] \in {"approved", "rejected", "skipped"} =>
             appr'[i][o][u] = appr[i][o][u]]_vars
  <2> SUFFICES ASSUME EngineInvariant, Next,
                      NEW i \in Instance, NEW o \in Order, NEW u \in User,
                      appr[i][o][u] \in {"approved", "rejected", "skipped"}
               PROVE  appr'[i][o][u] = appr[i][o][u]
    OBVIOUS
  <2>1. TypeOK /\ LockDiscipline /\ TablesOK
    BY DEF EngineInvariant, TablesOK
  <2>2. CASE UNCHANGED appr
    BY <2>2
  <2>3. ASSUME NEW s \in Session, StartInsert(s) PROVE appr'[i][o][u] = appr[i][o][u]
    BY <2>1, <2>3, StartKeepsDecisions
  <2>4. ASSUME NEW s \in Session, Close(s) PROVE appr'[i][o][u] = appr[i][o][u]
    BY <2>1, <2>4, CloseKeepsDecisions
  <2>5. ASSUME NEW s \in Session, ApproveWait(s) \/ ApproveFinal(s) \/ ApproveAdvance(s)
        PROVE  appr'[i][o][u] = appr[i][o][u]
    BY <2>1, <2>5, ApproveKeepsDecisions
  <2> QED
    BY <2>2, <2>3, <2>4, <2>5, WritingSteps
<1> QED
  BY <1>1, EngineInvariantHolds, PTL DEF Spec, DecisionsStand

------------------------------------------------------------------------------
(* What an approval approves.  With one editor the rule has no steps while it *)
(* is being edited, and a chain with rows on it is not edited: the chain an   *)
(* instance was started on is the one it is approved by.                      *)
OneEditor == \A s, t \in Editor : s = t

NoRows == \A i \in Instance, o \in Order, u \in User : appr[i][o][u] = "none"

EditsAlone ==
  \A s \in Session : tx[s].pc = "editing" => s \in Editor /\ ChainOrders = {} /\ NoRows

(* The steps before the current one were put to somebody who approved.        *)
EarlierApproved ==
  \A i \in Instance : IsOpen(i) =>
    \A o \in ChainOrders : o < step[i] => \E u \in User : appr[i][o][u] = "approved"

ChainInvariant == EngineInvariant /\ EditsAlone /\ EarlierApproved

(* An open instance has rows, so that nobody is editing.                      *)
LEMMA OpenHasRows ==
  ASSUME EngineInvariant, NEW i \in Instance, IsOpen(i)
  PROVE  ~NoRows
  BY DEF EngineInvariant, OpenHasVoter, NoRows

LEMMA NoEditWhenOpen ==
  ASSUME EngineInvariant, EditsAlone, NEW i \in Instance, IsOpen(i), NEW s \in Session
  PROVE  tx[s].pc # "editing"
  BY OpenHasRows DEF EditsAlone

(* Steps that write neither a table nor the chain.                            *)
LEMMA QuietStep ==
  ASSUME EditsAlone, EarlierApproved, UNCHANGED <<status, step, appr, chain>>,
         \A t \in Session : tx'[t].pc = "editing" => tx[t].pc = "editing"
  PROVE  EditsAlone' /\ EarlierApproved'
<1>1. EditsAlone'
  BY DEF EditsAlone, NoRows, ChainOrders
<1>2. EarlierApproved'
  BY DEF EarlierApproved, IsOpen, ChainOrders
<1> QED
  BY <1>1, <1>2

(* Steps that write the tables but not the chain, while nobody is editing.    *)
LEMMA NobodyEdits ==
  ASSUME TypeOK, NEW s \in Session, tx' = [tx EXCEPT ![s] = Idle],
         \A t \in Session : tx[t].pc # "editing"
  PROVE  EditsAlone'
  BY IdleType DEF EditsAlone, TypeOK

LEMMA StartKeepsChain ==
  ASSUME EngineInvariant, EditsAlone, EarlierApproved, NEW s \in Session, StartInsert(s)
  PROVE  EditsAlone' /\ EarlierApproved'
<1>1. PICK i \in Instance, o \in Order :
        /\ IsFirst(o, ChainOrders)
        /\ status' = [status EXCEPT ![i] = "pending"]
        /\ step' = [step EXCEPT ![i] = o]
        /\ appr' = [appr EXCEPT ![i] = WithRowsFor(appr[i], o)]
  BY DEF StartInsert
<1>2. tx' = [tx EXCEPT ![s] = Idle] /\ UNCHANGED chain
  BY DEF StartInsert
<1>3. EditsAlone'
  <2>1. ChainOrders # {}
    BY <1>1 DEF IsFirst
  <2>2. \A t \in Session : tx[t].pc # "editing"
    BY <2>1 DEF EditsAlone
  <2> QED
    BY <1>2, <2>2, NobodyEdits DEF EngineInvariant
<1>4. EarlierApproved'
  <2>1. ChainOrders' = ChainOrders
    BY <1>2 DEF ChainOrders
  <2>2. \A p \in ChainOrders : ~(p < o)
    <3>1. \A p \in ChainOrders : o <= p /\ p \in Nat /\ o \in Nat
      BY <1>1 DEF IsFirst, ChainOrders, EngineAssumption
    <3> QED
      BY <3>1
  <2>3. /\ step'[i] = o
        /\ \A j \in Instance \ {i} : /\ status'[j] = status[j] /\ step'[j] = step[j]
                                     /\ appr'[j] = appr[j]
    BY <1>1 DEF EngineInvariant, TypeOK
  <2> QED
    BY <2>1, <2>2, <2>3 DEF EarlierApproved, IsOpen
<1> QED
  BY <1>3, <1>4

LEMMA CloseKeepsChain ==
  ASSUME EngineInvariant, EditsAlone, EarlierApproved, NEW s \in Session, Close(s)
  PROVE  EditsAlone' /\ EarlierApproved'
<1>1. PICK k \in Instance : k = tx[s].inst
  BY DEF Close, EngineInvariant, LockDiscipline, Locking, OwnRowPending
<1>2. IsOpen(k)
  BY <1>1 DEF Close, EngineInvariant, LockDiscipline, OwnInstanceOpen
<1>3. /\ status' = [status EXCEPT ![k] = tx[s].goal] /\ tx[s].goal \in {"rejected", "cancelled"}
      /\ appr' = [appr EXCEPT ![k] = ClosedRows(tx[s])]
      /\ tx' = [tx EXCEPT ![s] = Idle] /\ UNCHANGED <<step, chain>>
  BY <1>1 DEF Close
<1>4. EditsAlone'
  <2>1. \A t \in Session : tx[t].pc # "editing"
    BY <1>2, NoEditWhenOpen
  <2> QED
    BY <1>3, <2>1, NobodyEdits DEF EngineInvariant
<1>5. EarlierApproved'
  <2>1. ChainOrders' = ChainOrders
    BY <1>3 DEF ChainOrders
  <2>2. /\ ~IsOpen(k)'
        /\ \A j \in Instance \ {k} : /\ status'[j] = status[j] /\ step'[j] = step[j]
                                     /\ appr'[j] = appr[j]
    BY <1>3 DEF EngineInvariant, TypeOK, IsOpen
  <2> QED
    BY <2>1, <2>2 DEF EarlierApproved, IsOpen
<1> QED
  BY <1>4, <1>5

(* An approval leaves the approvals there are, and adds its own.              *)
LEMMA ApproveAdds ==
  ASSUME EngineInvariant, NEW s \in Session,
         ApproveWait(s) \/ ApproveFinal(s) \/ ApproveAdvance(s)
  PROVE  \E k \in Instance, o \in Order, w \in User :
           /\ k = tx[s].inst /\ o = tx[s].order
           /\ IsOpen(k) /\ o = step[k]
           /\ appr'[k][o][w] = "approved"
           /\ \A p \in Order, u \in User :
                appr[k][p][u] = "approved" => appr'[k][p][u] = "approved"
           /\ \A j \in Instance \ {k} : status'[j] = status[j] /\ appr'[j] = appr[j]
<1>0. TypeOK /\ LockDiscipline /\ TablesOK
  BY DEF EngineInvariant, TablesOK
<1>1. PICK k \in Instance, o \in Order, w \in User :
        k = tx[s].inst /\ o = tx[s].order /\ w = tx[s].user
  BY <1>0, Counted DEF ApproveWait, ApproveFinal, ApproveAdvance
<1>2. IsOpen(k) /\ o = step[k]
  BY <1>0, <1>1, Counted DEF ApproveWait, ApproveFinal, ApproveAdvance
<1>3. \A p \in Order, u \in User : appr[k][p][u] = "approved" => appr'[k][p][u] = "approved"
  BY <1>0, ApproveKeepsDecisions
<1>4. appr'[k][o][w] = "approved" /\ \A j \in Instance \ {k} : appr'[j] = appr[j]
  <2>1. CASE ApproveWait(s) \/ ApproveFinal(s)
    <3>1. appr' = [appr EXCEPT ![k][o][w] = "approved"]
      BY <1>1, <2>1 DEF ApproveWait, ApproveFinal
    <3> QED
      BY <1>0, <3>1 DEF TypeOK
  <2>2. CASE ApproveAdvance(s)
    <3>1. PICK p \in Order :
            /\ IsFirst(p, NextOrders(o))
            /\ appr' = [appr EXCEPT ![k] = WithRowsFor([@ EXCEPT ![o][w] = "approved"], p)]
      BY <1>1, <2>2 DEF ApproveAdvance
    <3>2. p # o
      <4>1. p > o /\ p \in Nat /\ o \in Nat
        BY <3>1 DEF IsFirst, NextOrders, EngineAssumption
      <4> QED
        BY <4>1
    <3> QED
      BY <1>0, <3>1, <3>2 DEF TypeOK, WithRowsFor
  <2> QED
    BY <2>1, <2>2
<1>5. \A j \in Instance \ {k} : status'[j] = status[j]
  BY <1>0, <1>1 DEF ApproveWait, ApproveFinal, ApproveAdvance, TypeOK
<1> QED
  BY <1>1, <1>2, <1>3, <1>4, <1>5

LEMMA ApproveKeepsChain ==
  ASSUME EngineInvariant, EditsAlone, EarlierApproved, NEW s \in Session,
         ApproveWait(s) \/ ApproveFinal(s) \/ ApproveAdvance(s)
  PROVE  EditsAlone' /\ EarlierApproved'
<1>1. PICK k \in Instance, o \in Order, w \in User :
        /\ k = tx[s].inst /\ o = tx[s].order
        /\ IsOpen(k) /\ o = step[k]
        /\ appr'[k][o][w] = "approved"
        /\ \A p \in Order, u \in User :
             appr[k][p][u] = "approved" => appr'[k][p][u] = "approved"
        /\ \A j \in Instance \ {k} : status'[j] = status[j] /\ appr'[j] = appr[j]
  BY ApproveAdds
<1>2. tx' = [tx EXCEPT ![s] = Idle] /\ UNCHANGED chain
  BY DEF ApproveWait, ApproveFinal, ApproveAdvance
<1>3. EditsAlone'
  <2>1. \A t \in Session : tx[t].pc # "editing"
    BY <1>1, NoEditWhenOpen
  <2> QED
    BY <1>2, <2>1, NobodyEdits DEF EngineInvariant
<1>4. ChainOrders' = ChainOrders /\ ChainOrders \subseteq Order /\ Order \subseteq Nat
  BY <1>2 DEF ChainOrders, EngineAssumption
<1>5. \A p \in ChainOrders : p <= o => \E u \in User : appr'[k][p][u] = "approved"
  <2> TAKE p \in ChainOrders
  <2>1. CASE p = o
    BY <1>1, <2>1
  <2>2. CASE p < o
    <3>1. \E u \in User : appr[k][p][u] = "approved"
      BY <1>1, <2>2 DEF EarlierApproved
    <3>2. PICK u \in User : appr[k][p][u] = "approved"
      BY <3>1
    <3>3. p \in Order
      BY <1>4
    <3>4. appr'[k][p][u] = "approved"
      BY <1>1, <3>2, <3>3, Zenon
    <3> QED
      BY <3>4
  <2>3. p <= o => p = o \/ p < o
    BY <1>4
  <2> QED
    BY <2>1, <2>2, <2>3, Zenon
<1>6. \A p \in ChainOrders : p < step'[k] => p <= o
  <2>1. CASE ApproveWait(s) \/ ApproveFinal(s)
    <3>1. step'[k] = o
      BY <1>1, <2>1 DEF ApproveWait, ApproveFinal
    <3> QED
      BY <1>4, <3>1
  <2>2. CASE ApproveAdvance(s)
    <3>1. PICK q \in Order : IsFirst(q, NextOrders(o)) /\ step' = [step EXCEPT ![k] = q]
      BY <1>1, <2>2 DEF ApproveAdvance
    <3>2. step'[k] = q
      BY <3>1 DEF EngineInvariant, TypeOK
    <3>3. \A p \in ChainOrders : p > o => q <= p
      BY <3>1 DEF IsFirst, NextOrders
    <3> QED
      BY <1>4, <3>2, <3>3
  <2> QED
    BY <2>1, <2>2
<1>7. \A j \in Instance \ {k} : step'[j] = step[j]
  <2>1. \/ step' = step
        \/ \E q \in Order : step' = [step EXCEPT ![k] = q]
    BY <1>1 DEF ApproveWait, ApproveFinal, ApproveAdvance
  <2> QED
    BY <2>1 DEF EngineInvariant, TypeOK
<1>8. EarlierApproved'
  BY <1>1, <1>4, <1>5, <1>6, <1>7 DEF EarlierApproved, IsOpen
<1> QED
  BY <1>3, <1>8

LEMMA EditKeepsChain ==
  ASSUME OneEditor, EngineInvariant, EditsAlone, NEW s \in Editor, Edit(s)
  PROVE  EditsAlone' /\ EarlierApproved'
<1>0. s \in Session /\ UNCHANGED <<status, step, appr>>
  BY DEF Edit, EditDelete, EditInsert, EngineAssumption
<1>1. NoRows
  BY <1>0 DEF Edit, EditDelete, EditInsert, EditsAlone, NoRows
<1>2. EarlierApproved'
  <2>1. \A i \in Instance : ~IsOpen(i)
    BY <1>1, OpenHasRows
  <2> QED
    BY <1>0, <2>1 DEF EarlierApproved, IsOpen
<1>3. \A t \in Session \ {s} : tx[t].pc # "editing"
  BY DEF EditsAlone, OneEditor
<1>4. CASE EditDelete(s)
  <2>1. ChainOrders' = {} /\ NoRows'
    BY <1>0, <1>1, <1>4 DEF EditDelete, ChainOrders, NoRows
  <2>2. \A t \in Session \ {s} : tx'[t] = tx[t]
    BY <1>4 DEF EditDelete, EngineInvariant, TypeOK
  <2> QED
    BY <1>2, <1>3, <2>1, <2>2 DEF EditsAlone
<1>5. CASE \E c \in Chains : EditInsert(s, c)
  <2>1. \A t \in Session : tx'[t].pc # "editing"
    BY <1>0, <1>3, <1>5, IdleType DEF EditInsert, EngineInvariant, TypeOK
  <2> QED
    BY <1>2, <2>1 DEF EditsAlone
<1> QED
  BY <1>4, <1>5 DEF Edit

LEMMA ChainNext ==
  ASSUME OneEditor, ChainInvariant, [Next]_vars
  PROVE  EditsAlone' /\ EarlierApproved'
<1> USE DEF ChainInvariant
<1>1. ASSUME NEW s \in Session,
             \/ StartCheck(s) \/ Raise(s) \/ DeadlockVictim(s) \/ Disconnect(s)
             \/ \E i \in Instance, o \in Order, u \in User, d \in {"approved", "rejected"} :
                  DecideLockRow(s, i, o, u, d)
             \/ DecideLockInst(s) \/ CountPeers(s) \/ \E i \in Instance : CancelLock(s, i)
      PROVE  EditsAlone' /\ EarlierApproved'
  <2>1. UNCHANGED <<status, step, appr, chain>>
    BY <1>1 DEF StartCheck, Raise, DeadlockVictim, Disconnect, DecideLockRow, DecideLockInst,
                CountPeers, CancelLock
  <2>2. PICK r : r.pc # "editing" /\ tx' = [tx EXCEPT ![s] = r]
    <3>1. CASE StartCheck(s)
      BY <3>1 DEF StartCheck, Idle
    <3>2. CASE Raise(s) \/ DeadlockVictim(s) \/ Disconnect(s)
      BY <3>2, IdleType DEF Raise, DeadlockVictim, Disconnect
    <3>3. CASE \E i \in Instance, o \in Order, u \in User, d \in {"approved", "rejected"} :
                 DecideLockRow(s, i, o, u, d)
      <4>1. PICK i \in Instance, o \in Order, u \in User, d \in {"approved", "rejected"} :
              DecideLockRow(s, i, o, u, d)
        BY <3>3
      <4> DEFINE x == [pc |-> "rowHeld", goal |-> d, inst |-> i, order |-> o, user |-> u,
                       last |-> FALSE]
      <4>2. x.pc = "rowHeld" /\ tx' = [tx EXCEPT ![s] = x]
        BY <4>1 DEF DecideLockRow
      <4> HIDE DEF x
      <4> QED
        BY <4>2
    <3>4. CASE DecideLockInst(s)
      <4> DEFINE x == [tx[s] EXCEPT !.pc = "instHeld"]
      <4>1. x.pc = "instHeld" /\ tx' = [tx EXCEPT ![s] = x]
        BY <3>4 DEF DecideLockInst, EngineInvariant, TypeOK, Tx
      <4> HIDE DEF x
      <4> QED
        BY <4>1
    <3>5. CASE CountPeers(s)
      <4> DEFINE b == \A u \in User \ {tx[s].user} : appr[tx[s].inst][tx[s].order][u] # "pending"
                 x == [tx[s] EXCEPT !.pc = "counted", !.last = b]
      <4>1. tx[s] \in Tx /\ tx' = [tx EXCEPT ![s] = x]
        BY <3>5 DEF CountPeers, EngineInvariant, TypeOK
      <4> HIDE DEF b
      <4>2. x.pc = "counted"
        BY <4>1 DEF Tx
      <4> HIDE DEF x
      <4> QED
        BY <4>1, <4>2
    <3>6. CASE \E i \in Instance : CancelLock(s, i)
      <4>1. PICK i \in Instance : CancelLock(s, i)
        BY <3>6
      <4> DEFINE x == [Idle EXCEPT !.pc = "instHeld", !.goal = "cancelled", !.inst = i]
      <4>2. x.pc = "instHeld"
        BY IdleType DEF Tx
      <4>3. tx' = [tx EXCEPT ![s] = x]
        BY <4>1 DEF CancelLock
      <4> HIDE DEF x
      <4> QED
        BY <4>2, <4>3
    <3> QED
      BY <1>1, <3>1, <3>2, <3>3, <3>4, <3>5, <3>6
  <2>3. \A t \in Session : tx'[t].pc = "editing" => tx[t].pc = "editing"
    BY <2>2 DEF EngineInvariant, TypeOK
  <2> QED
    BY <2>1, <2>3, QuietStep
<1>2. ASSUME NEW s \in Session,
             \/ StartInsert(s) \/ Close(s)
             \/ ApproveWait(s) \/ ApproveFinal(s) \/ ApproveAdvance(s)
      PROVE  EditsAlone' /\ EarlierApproved'
  BY <1>2, StartKeepsChain, CloseKeepsChain, ApproveKeepsChain
<1>3. ASSUME NEW s \in Editor, Edit(s) PROVE EditsAlone' /\ EarlierApproved'
  BY <1>3, EditKeepsChain
<1>4. CASE UNCHANGED vars
  BY <1>4, QuietStep DEF vars
<1> QED
  BY <1>1, <1>2, <1>3, <1>4 DEF Next, Decide

(* The instance an approval decides has nothing but approvals on it.          *)
LEMMA WholeChain ==
  ASSUME ChainInvariant, [Next]_vars, NEW i \in Instance,
         status[i] # "approved", status'[i] = "approved"
  PROVE  /\ \A o \in ChainOrders : \E u \in User : appr'[i][o][u] = "approved"
         /\ \A o \in Order, u \in User : appr'[i][o][u] \in {"none", "approved"}
<1> USE DEF ChainInvariant
<1>0. TypeOK /\ LockDiscipline /\ TablesOK
  BY DEF EngineInvariant, TablesOK
<1>1. PICK s \in Session : ApproveFinal(s)
  <2>1. ASSUME NEW s \in Session, StartInsert(s) \/ Close(s) \/ ApproveWait(s) \/ ApproveAdvance(s)
        PROVE  FALSE
    BY <1>0, <2>1 DEF StartInsert, Close, ApproveWait, ApproveAdvance, TypeOK
  <2> QED
    BY <2>1, WritingSteps
<1>2. PICK k \in Instance, o \in Order, w \in User :
        /\ k = tx[s].inst /\ o = tx[s].order /\ w = tx[s].user
  BY <1>0, <1>1, Counted DEF ApproveFinal
<1>3. /\ IsOpen(k) /\ o = step[k] /\ tx[s].last /\ CountStands(s)
  BY <1>0, <1>1, <1>2, Counted DEF ApproveFinal
<1>4. /\ NextOrders(o) = {}
      /\ status' = [status EXCEPT ![k] = "approved"]
      /\ appr' = [appr EXCEPT ![k][o][w] = "approved"]
  BY <1>1, <1>2 DEF ApproveFinal
<1>5. i = k
  BY <1>0, <1>4 DEF TypeOK
<1>6. \A p \in Order, u \in User :
        appr'[k][p][u] = IF p = o /\ u = w THEN "approved" ELSE appr[k][p][u]
  BY <1>0, <1>4 DEF TypeOK
<1>7. ASSUME NEW p \in ChainOrders PROVE \E u \in User : appr'[k][p][u] = "approved"
  <2>1. p \in Order /\ p \in Nat /\ o \in Nat /\ ~(p > o)
    BY <1>4 DEF NextOrders, ChainOrders, EngineAssumption
  <2>2. CASE p = o
    BY <1>6, <2>2
  <2>3. CASE p < o
    <3>1. \E u \in User : appr[k][p][u] = "approved"
      BY <1>3, <2>3 DEF EarlierApproved
    <3> QED
      BY <1>6, <2>1, <3>1
  <2> QED
    BY <2>1, <2>2, <2>3
<1>8. ASSUME NEW p \in Order, NEW u \in User PROVE appr'[k][p][u] \in {"none", "approved"}
  <2>1. \A x \in User \ {w} : appr[k][o][x] # "pending"
    BY <1>2, <1>3, Zenon DEF CountStands
  <2>2. /\ p > o => appr[k][p][u] = "none"
        /\ p < o => appr[k][p][u] \in {"none", "approved"}
        /\ appr[k][p][u] \notin {"rejected", "skipped"}
        /\ appr[k][p][u] \in RowStatus
    BY <1>0, <1>3, CurrentStep DEF TypeOK
  <2>3. p > o \/ p = o \/ p < o
    BY DEF EngineAssumption
  <2> QED
    BY <1>6, <2>1, <2>2, <2>3
<1> QED
  BY <1>5, <1>7, <1>8

(* With one editor of the rule an instance is approved only by its whole      *)
(* chain, as it stands at that moment, whatever the editor and the sessions   *)
(* do between its start and its approval.                                     *)
THEOREM ApprovalIsByTheWholeChain ==
  ASSUME OneEditor
  PROVE  Spec => ApprovedByWholeChain
<1>1. Init => EditsAlone /\ EarlierApproved
  BY IdleType DEF Init, EditsAlone, EarlierApproved, IsOpen
<1>2. ChainInvariant /\ [Next]_vars => EditsAlone' /\ EarlierApproved'
  BY ChainNext
<1>3. ChainInvariant /\ [Next]_vars =>
        [\A i \in Instance : status[i] # "approved" /\ status'[i] = "approved" =>
           /\ \A o \in ChainOrders : \E u \in User : appr'[i][o][u] = "approved"
           /\ \A o \in Order, u \in User : appr'[i][o][u] \in {"none", "approved"}]_vars
  BY WholeChain
<1>4. ChainInvariant <=> EngineInvariant /\ EditsAlone /\ EarlierApproved
  BY DEF ChainInvariant
<1> QED
  BY <1>1, <1>2, <1>3, <1>4, EngineInvariantHolds, PTL DEF Spec, ApprovedByWholeChain

------------------------------------------------------------------------------
(* The engine implements the abstract verdict.                                *)

(* The verdict an instance's status stands for.                               *)
verdict == [i \in Instance |-> IF IsOpen(i) THEN "open" ELSE status[i]]

(* Writing an open status where it was open is no step of the verdict.        *)
LEMMA VerdictStays ==
  ASSUME TypeOK, NEW i \in Instance, IsOpen(i), NEW v \in OpenStatus,
         status' = [status EXCEPT ![i] = v]
  PROVE  UNCHANGED verdict
<1>1. \A j \in Instance : status'[j] = IF j = i THEN v ELSE status[j]
  BY DEF TypeOK
<1>2. \A j \in Instance : (IF IsOpen(j) THEN "open" ELSE status[j])' =
                          IF IsOpen(j) THEN "open" ELSE status[j]
  BY <1>1 DEF IsOpen
<1> QED
  BY <1>2 DEF verdict

(* Closing an open instance decides it.                                       *)
LEMMA VerdictDecided ==
  ASSUME TypeOK, NEW i \in Instance, IsOpen(i), NEW d \in ClosedStatus,
         status' = [status EXCEPT ![i] = d]
  PROVE  Verdicts!VerdictNext
<1>1. \A j \in Instance : status'[j] = IF j = i THEN d ELSE status[j]
  BY DEF TypeOK
<1>2. \A j \in Instance : (IF IsOpen(j) THEN "open" ELSE status[j])' =
                          IF j = i THEN d ELSE IF IsOpen(j) THEN "open" ELSE status[j]
  BY <1>1 DEF IsOpen
<1>3. verdict' = [verdict EXCEPT ![i] = d]
  BY <1>2 DEF verdict
<1>4. verdict[i] = "open"
  BY DEF verdict
<1>5. Verdicts!Decided(i, d)
  BY <1>3, <1>4 DEF Verdicts!Decided, verdict
<1> QED
  BY <1>5 DEF Verdicts!VerdictNext, Verdicts!Decision

(* Starting opens an instance that was none.                                  *)
LEMMA VerdictOpened ==
  ASSUME TypeOK, NEW s \in Session, StartInsert(s)
  PROVE  Verdicts!VerdictNext
<1>1. PICK i \in Instance : status[i] = "none" /\ status' = [status EXCEPT ![i] = "pending"]
  BY DEF StartInsert
<1>2. \A j \in Instance : status'[j] = IF j = i THEN "pending" ELSE status[j]
  BY <1>1 DEF TypeOK
<1>3. \A j \in Instance : (IF IsOpen(j) THEN "open" ELSE status[j])' =
                          IF j = i THEN "open" ELSE IF IsOpen(j) THEN "open" ELSE status[j]
  BY <1>2 DEF IsOpen
<1>4. verdict' = [verdict EXCEPT ![i] = "open"]
  BY <1>3 DEF verdict
<1>5. verdict[i] = "none"
  BY <1>1 DEF verdict, IsOpen
<1>6. Verdicts!Opened(i)
  BY <1>4, <1>5 DEF Verdicts!Opened, verdict
<1> QED
  BY <1>6 DEF Verdicts!VerdictNext

(* To its callers the engine opens an instance once and decides it once.      *)
THEOREM EngineImplementsVerdict == Spec => DecidedOnce
<1>1. Init => Verdicts!VerdictInit
  BY DEF Init, Verdicts!VerdictInit, IsOpen
<1>2. EngineInvariant /\ [Next]_vars => [Verdicts!VerdictNext]_verdict
  <2> SUFFICES ASSUME EngineInvariant, [Next]_vars
               PROVE  Verdicts!VerdictNext \/ UNCHANGED verdict
    OBVIOUS
  <2>0. TypeOK /\ LockDiscipline /\ TablesOK
    BY DEF EngineInvariant, TablesOK
  <2>1. CASE UNCHANGED status
    BY <2>1 DEF verdict, IsOpen
  <2>2. ASSUME NEW s \in Session, StartInsert(s) PROVE Verdicts!VerdictNext
    BY <2>0, <2>2, VerdictOpened
  <2>3. ASSUME NEW s \in Session, ApproveWait(s) \/ ApproveAdvance(s) PROVE UNCHANGED verdict
    <3>1. tx[s].inst \in Instance /\ IsOpen(tx[s].inst)
      BY <2>0, <2>3, Counted DEF ApproveWait, ApproveAdvance
    <3>2. status' = [status EXCEPT ![tx[s].inst] = "in_progress"]
      BY <2>3 DEF ApproveWait, ApproveAdvance
    <3>3. PICK i \in Instance : i = tx[s].inst
      BY <3>1
    <3> QED
      BY <2>0, <3>1, <3>2, <3>3, VerdictStays
  <2>4. ASSUME NEW s \in Session, ApproveFinal(s) PROVE Verdicts!VerdictNext
    <3>1. tx[s].inst \in Instance /\ IsOpen(tx[s].inst)
      BY <2>0, <2>4, Counted DEF ApproveFinal
    <3>2. status' = [status EXCEPT ![tx[s].inst] = "approved"]
      BY <2>4 DEF ApproveFinal
    <3>3. PICK i \in Instance : i = tx[s].inst
      BY <3>1
    <3> QED
      BY <2>0, <3>1, <3>2, <3>3, VerdictDecided
  <2>5. ASSUME NEW s \in Session, Close(s) PROVE Verdicts!VerdictNext
    <3>1. /\ tx[s].inst \in Instance /\ IsOpen(tx[s].inst)
          /\ tx[s].goal \in ClosedStatus
      BY <2>0, <2>5 DEF Close, LockDiscipline, Locking, OwnRowPending, OwnInstanceOpen
    <3>2. status' = [status EXCEPT ![tx[s].inst] = tx[s].goal]
      BY <2>5 DEF Close
    <3>3. PICK i \in Instance, d \in ClosedStatus : i = tx[s].inst /\ d = tx[s].goal
      BY <3>1
    <3> QED
      BY <2>0, <3>1, <3>2, <3>3, VerdictDecided
  <2> QED
    BY <2>1, <2>2, <2>3, <2>4, <2>5, WritingSteps
<1> QED
  BY <1>1, <1>2, EngineInvariantHolds, PTL DEF Spec, DecidedOnce, Verdicts!VerdictSpec, verdict
==============================================================================
