----------------------- MODULE ReceiptsAndPaymentsProofs -----------------------
(* Proofs about InvoicePayments, for any number of sessions and payments, and *)
(* about GoodsReceipt, for any number of callers, receipts and lines.  Both   *)
(* add up the rows of a table.                                                *)
EXTENDS InvoicePayments, GoodsReceipt, FiniteSetTheorems, WellFoundedInduction, TLAPS

------------------------------------------------------------------------------
(* Sums over finite sets.  A fold is defined by recursion on the subsets of a *)
(* set, each of which gives up an element it chooses.  Induction over numbers *)
(* shows that such a function exists, and that it adds up whatever element is *)
(* taken out first; an induction takes a counterexample of the least size.    *)

(* A set of numbers that is not empty has a least one.                        *)
LEMMA LeastNumber ==
  ASSUME NEW T, T \subseteq Nat, T # {}
  PROVE  \E n \in T : \A m \in T : n <= m
<1>1. \E n \in T : \A m \in T : <<m, n>> \notin OpToRel(<, Nat)
  BY NatLessThanWellFounded, WFMin
<1>2. PICK n \in T : \A m \in T : <<m, n>> \notin OpToRel(<, Nat)
  BY <1>1
<1>3. \A m \in T : n <= m
  <2> SUFFICES ASSUME NEW m \in T PROVE n <= m
    OBVIOUS
  <2>1. m \in Nat /\ n \in Nat
    OBVIOUS
  <2>2. ~(m < n)
    BY <1>2, <2>1 DEF OpToRel
  <2> QED
    BY <2>1, <2>2
<1> QED
  BY <1>2, <1>3, Zenon

(* Among sets of elements of S there is a smallest one.                       *)
LEMMA SmallestSet ==
  ASSUME NEW S, IsFiniteSet(S), NEW B, B \subseteq SUBSET S, B # {}
  PROVE  \E s \in B : \A t \in SUBSET S : Cardinality(t) < Cardinality(s) => t \notin B
<1> DEFINE Sizes == {Cardinality(s) : s \in B}
<1>1. \A s \in SUBSET S : Cardinality(s) \in Nat
  BY FS_Subset, FS_CardinalityType
<1>2. Sizes \subseteq Nat /\ Sizes # {}
  BY <1>1
<1>3. PICK n \in Sizes : \A m \in Sizes : n <= m
  BY <1>2, LeastNumber
<1>4. PICK s \in B : n = Cardinality(s)
  BY <1>3
<1>5. ASSUME NEW t \in SUBSET S, Cardinality(t) < Cardinality(s) PROVE t \notin B
  <2>1. ~(n <= Cardinality(t))
    BY <1>1, <1>4, <1>5
  <2> QED
    BY <1>3, <2>1
<1> QED
  BY <1>5

(* Taking out an element makes a set smaller.                                 *)
LEMMA TakeOut ==
  ASSUME NEW S, IsFiniteSet(S)
  PROVE  \A s \in SUBSET S : \A x \in s :
           s \ {x} \in SUBSET S /\ Cardinality(s \ {x}) < Cardinality(s)
<1> SUFFICES ASSUME NEW s \in SUBSET S, NEW x \in s
             PROVE  Cardinality(s \ {x}) < Cardinality(s)
  OBVIOUS
<1>1. IsFiniteSet(s) /\ Cardinality(s) \in Nat
  BY FS_Subset, FS_CardinalityType
<1>2. Cardinality(s \ {x}) = Cardinality(s) - 1
  BY <1>1, FS_RemoveElement
<1> QED
  BY <1>1, <1>2

(* f is what a fold over the subsets of S that adds up g is defined by: each  *)
(* non-empty subset is the element it chooses and the rest.                   *)
Chosen(s) == CHOOSE x \in s : TRUE

Fold(f, g, s) == IF s = {} THEN 0 ELSE g[Chosen(s)] + f[s \ {Chosen(s)}]

(* f is the function that the fold defines.                                   *)
IsFold(f, g, S) == f = [s \in SUBSET S |-> Fold(f, g, s)]

(* f adds up g over the subsets of S.                                         *)
AddsUp(f, g, S) ==
  /\ f \in [SUBSET S -> Nat]
  /\ f[{}] = 0
  /\ \A s \in SUBSET S : \A x \in s : f[s] = g[x] + f[s \ {x}]

LEMMA ChosenIn == ASSUME NEW s, s # {} PROVE Chosen(s) \in s
  BY DEF Chosen

(* Such a function exists: one that is right up to a size exists for each.    *)
LEMMA FoldExists ==
  ASSUME NEW S, IsFiniteSet(S), NEW g \in [S -> Nat]
  PROVE  \E f \in [SUBSET S -> Nat] : IsFold(f, g, S)
<1> DEFINE Upto(f, n) == \A s \in SUBSET S : Cardinality(s) <= n => f[s] = Fold(f, g, s)
           Fails == {n \in Nat : \A f \in [SUBSET S -> Nat] : ~Upto(f, n)}
<1>a. \A s \in SUBSET S : IsFiniteSet(s) /\ Cardinality(s) \in Nat /\ Cardinality(s) <= Cardinality(S)
  BY FS_Subset, FS_CardinalityType
<1>b. \A s \in SUBSET S : s # {} =>
        /\ Chosen(s) \in s /\ s \ {Chosen(s)} \in SUBSET S
        /\ Cardinality(s \ {Chosen(s)}) = Cardinality(s) - 1
  BY <1>a, ChosenIn, FS_RemoveElement
<1>1. Fails = {}
  <2> SUFFICES ASSUME Fails # {} PROVE FALSE
    OBVIOUS
  <2>1. PICK n \in Fails : \A m \in Fails : n <= m
    BY LeastNumber
  <2>2. CASE n = 0
    <3> DEFINE f == [s \in SUBSET S |-> 0]
    <3>1. Upto(f, 0)
      BY <1>a, FS_EmptySet DEF Fold
    <3> QED
      BY <2>1, <2>2, <3>1
  <2>3. CASE n # 0
    <3>1. n - 1 \in Nat /\ n \in Nat /\ ~(n <= n - 1)
      BY <2>3
    <3>a. n - 1 \notin Fails
      BY <2>1, <3>1, Zenon
    <3>2. PICK f \in [SUBSET S -> Nat] : Upto(f, n - 1)
      BY <3>1, <3>a
    <3> DEFINE h == [s \in SUBSET S |-> IF Cardinality(s) <= n - 1 THEN f[s]
                                        ELSE IF s = {} THEN 0
                                        ELSE g[Chosen(s)] + f[s \ {Chosen(s)}]]
    <3>3. h \in [SUBSET S -> Nat]
      <4> SUFFICES ASSUME NEW s \in SUBSET S, s # {}
                   PROVE  g[Chosen(s)] + f[s \ {Chosen(s)}] \in Nat
        OBVIOUS
      <4>1. g[Chosen(s)] \in Nat /\ f[s \ {Chosen(s)}] \in Nat
        BY <1>b
      <4> QED
        BY <4>1
    <3>4. ASSUME NEW s \in SUBSET S, Cardinality(s) <= n PROVE h[s] = Fold(h, g, s)
      <4> DEFINE r == s \ {Chosen(s)}
      <4>1. CASE s = {}
        BY <1>a, <3>2, <4>1, FS_EmptySet, <2>3 DEF Fold
      <4>2. CASE s # {}
        <5>1. r \in SUBSET S /\ Cardinality(r) = Cardinality(s) - 1
          BY <1>b, <4>2
        <5>2. Cardinality(s) \in Nat /\ n \in Nat
          BY <1>a
        <5>3. h[r] = f[r]
          BY <3>4, <5>1, <5>2
        <5>4. h[s] = g[Chosen(s)] + f[r]
          BY <3>2, <4>2 DEF Fold
        <5> QED
          BY <4>2, <5>3, <5>4 DEF Fold
      <4> QED
        BY <4>1, <4>2
    <3>5. Upto(h, n)
      BY <3>4
    <3> QED
      BY <2>1, <3>3, <3>5
  <2> QED
    BY <2>2, <2>3
<1>2. PICK f \in [SUBSET S -> Nat] : Upto(f, Cardinality(S))
  BY <1>1, <1>a
<1>3. \A s \in SUBSET S : f[s] = Fold(f, g, s)
  BY <1>2, <1>a
<1> QED
  BY <1>3 DEF IsFold

(* It adds up g whatever element is taken out: take a smallest subset for     *)
(* which it does not.                                                         *)
LEMMA FoldAddsUp ==
  ASSUME NEW S, IsFiniteSet(S), NEW g \in [S -> Nat],
         NEW f, IsFold(f, g, S)
  PROVE  AddsUp(f, g, S)
<1> DEFINE Bad == {s \in SUBSET S : f[s] \notin Nat \/ \E x \in s : f[s] # g[x] + f[s \ {x}]}
<1>a. \A s \in SUBSET S : Cardinality(s) \in Nat
  BY FS_Subset, FS_CardinalityType
<1>b. \A s \in SUBSET S : \A x \in s :
        s \ {x} \in SUBSET S /\ Cardinality(s \ {x}) < Cardinality(s)
  BY TakeOut
<1>c. f = [s \in SUBSET S |-> Fold(f, g, s)] /\ \A s \in SUBSET S : f[s] = Fold(f, g, s)
  BY DEF IsFold
<1>1. Bad = {}
  <2> SUFFICES ASSUME Bad # {} PROVE FALSE
    OBVIOUS
  <2>2. PICK s \in Bad : \A t \in SUBSET S : Cardinality(t) < Cardinality(s) => t \notin Bad
    <3>1. Bad \subseteq SUBSET S
      OBVIOUS
    <3> HIDE DEF Bad
    <3> QED
      BY <3>1, SmallestSet
  <2>4. ASSUME NEW x \in s
        PROVE  /\ f[s \ {x}] \in Nat
               /\ \A y \in s \ {x} : /\ f[s \ {x}] = g[y] + f[(s \ {x}) \ {y}]
                                    /\ f[(s \ {x}) \ {y}] \in Nat
    <3>1. s \ {x} \notin Bad
      BY <1>b, <2>2
    <3>2. ASSUME NEW y \in s \ {x} PROVE (s \ {x}) \ {y} \notin Bad
      <4>1. /\ s \ {x} \in SUBSET S /\ Cardinality(s \ {x}) < Cardinality(s)
            /\ (s \ {x}) \ {y} \in SUBSET S
            /\ Cardinality((s \ {x}) \ {y}) < Cardinality(s \ {x})
        BY <1>b
      <4>2. Cardinality((s \ {x}) \ {y}) < Cardinality(s)
        BY <1>a, <4>1
      <4> QED
        BY <2>2, <4>1, <4>2
    <3>3. s \ {x} \in SUBSET S /\ \A y \in s \ {x} : (s \ {x}) \ {y} \in SUBSET S
      OBVIOUS
    <3> QED
      BY <3>1, <3>2, <3>3
  <2>5. CASE s = {}
    BY <1>c, <2>5 DEF Fold
  <2>6. CASE s # {}
    <3> DEFINE c == Chosen(s)
    <3>1. c \in s /\ f[s] = g[c] + f[s \ {c}]
      BY <1>c, <2>6, ChosenIn DEF Fold
    <3>2. f[s] \in Nat
      <4>1. g[c] \in Nat /\ f[s \ {c}] \in Nat
        BY <2>4, <3>1
      <4> QED
        BY <3>1, <4>1
    <3>3. ASSUME NEW x \in s, x # c PROVE f[s] = g[x] + f[s \ {x}]
      <4>1. f[s \ {c}] = g[x] + f[(s \ {c}) \ {x}]
        BY <2>4, <3>1, <3>3
      <4>2. f[s \ {x}] = g[c] + f[(s \ {x}) \ {c}]
        BY <2>4, <3>1, <3>3
      <4>3. f[(s \ {c}) \ {x}] = f[(s \ {x}) \ {c}]
        <5>1. (s \ {c}) \ {x} = (s \ {x}) \ {c}
          OBVIOUS
        <5> QED
          BY <5>1, Zenon
      <4>4. f[(s \ {c}) \ {x}] \in Nat /\ g[c] \in Nat /\ g[x] \in Nat
        BY <2>4, <3>1, <3>3
      <4>5. /\ f[s] = g[c] + (g[x] + f[(s \ {c}) \ {x}])
            /\ f[s \ {x}] = g[c] + f[(s \ {c}) \ {x}]
        BY <3>1, <4>1, <4>2, <4>3, Zenon
      <4> HIDE DEF c
      <4> QED
        BY <4>4, <4>5
    <3> QED
      BY <3>1, <3>2, <3>3
  <2> QED
    BY <2>5, <2>6
<1>2. f \in [SUBSET S -> Nat]
  BY <1>1, <1>c
<1>3. f[{}] = 0
  BY <1>c DEF Fold
<1> QED
  BY <1>1, <1>2, <1>3 DEF AddsUp

(* Where one of two functions is nowhere above the other, neither is its sum. *)
LEMMA SumsCompare ==
  ASSUME NEW S, NEW T, NEW g \in [S -> Nat], NEW h \in [T -> Nat],
         NEW f, AddsUp(f, g, S), NEW k, AddsUp(k, h, T),
         NEW s \in SUBSET S, s \in SUBSET T, IsFiniteSet(s), \A x \in s : g[x] <= h[x]
  PROVE  f[s] <= k[s]
<1> DEFINE Bad == {t \in SUBSET s : ~(f[t] <= k[t])}
<1>1. Bad = {}
  <2> SUFFICES ASSUME Bad # {} PROVE FALSE
    OBVIOUS
  <2>1. PICK t \in Bad : \A u \in SUBSET s : Cardinality(u) < Cardinality(t) => u \notin Bad
    <3>1. Bad \subseteq SUBSET s
      OBVIOUS
    <3> HIDE DEF Bad
    <3> QED
      BY <3>1, SmallestSet
  <2>2. t # {}
    <3>1. f[{}] = 0 /\ k[{}] = 0
      BY DEF AddsUp
    <3> QED
      BY <3>1
  <2>3. PICK x \in t : TRUE
    BY <2>2
  <2>4. t \ {x} \in SUBSET s /\ Cardinality(t \ {x}) < Cardinality(t)
    BY TakeOut
  <2>5. f[t \ {x}] <= k[t \ {x}]
    BY <2>1, <2>4
  <2>6. f[t] = g[x] + f[t \ {x}] /\ k[t] = h[x] + k[t \ {x}]
    BY DEF AddsUp
  <2>7. f[t \ {x}] \in Nat /\ k[t \ {x}] \in Nat /\ g[x] \in Nat /\ h[x] \in Nat /\ g[x] <= h[x]
    BY <2>4 DEF AddsUp
  <2>8. f[t] <= k[t]
    BY <2>5, <2>6, <2>7
  <2> QED
    BY <2>8
<1> QED
  BY <1>1

(* What each payment counts for.                                              *)
Worth(p) == [k \in Payment |-> IF p[k].state = "recorded" THEN p[k].amount ELSE 0]

(* A payment's row.                                                           *)
PayRow == [state : {"none", "recorded", "voided"}, amount : Nat, num : Nat]

(* The sum of the live payments adds up what they count for.                  *)
LEMMA LiveAddsUp ==
  ASSUME NEW p \in [Payment -> PayRow]
  PROVE  \E f : AddsUp(f, Worth(p), Payment) /\ Live(p) = f[Payment]
<1> DEFINE Body(f, s) == IF s = {} THEN 0
                         ELSE LET x == CHOOSE x \in s : TRUE
                              IN (IF p[x].state = "recorded" THEN p[x].amount ELSE 0) + f[s \ {x}]
           iter == CHOOSE f : f = [s \in SUBSET Payment |-> Body(f, s)]
<1>1. Live(p) = iter[Payment]
  BY DEF Live, MapThenSumSet, MapThenFoldSet
<1>2. ASSUME NEW f, NEW s \in SUBSET Payment PROVE Body(f, s) = Fold(f, Worth(p), s)
  <2>1. CASE s = {}
    BY <2>1 DEF Fold
  <2>2. CASE s # {}
    <3>1. Chosen(s) \in Payment
      BY <2>2, ChosenIn
    <3> QED
      BY <2>2, <3>1 DEF Fold, Worth, Chosen
  <2> QED
    BY <2>1, <2>2
<1> HIDE DEF Body
<1>3. PICK g \in [Payment -> Nat] : g = Worth(p)
  BY DEF Worth, PayRow
<1>4. PICK f : IsFold(f, g, Payment)
  <2>1. IsFiniteSet(Payment)
    BY LedgerAssumption
  <2> QED
    BY <2>1, FoldExists
<1>5. f = [s \in SUBSET Payment |-> Body(f, s)]
  BY <1>2, <1>3, <1>4 DEF IsFold
<1>6. iter = [s \in SUBSET Payment |-> Body(iter, s)]
  BY <1>5
<1> HIDE DEF iter
<1>7. IsFold(iter, g, Payment)
  BY <1>2, <1>3, <1>6 DEF IsFold
<1> QED
  BY <1>1, <1>3, <1>7, FoldAddsUp, LedgerAssumption

(* The sum of the live payments is a number, ...                              *)
LEMMA LiveIsNat ==
  ASSUME NEW p \in [Payment -> PayRow]
  PROVE  Live(p) \in Nat
<1>1. PICK f : AddsUp(f, Worth(p), Payment) /\ Live(p) = f[Payment]
  BY LiveAddsUp
<1>2. f \in [SUBSET Payment -> Nat]
  BY <1>1 DEF AddsUp
<1> QED
  BY <1>1, <1>2

(* ... which is 0 when there is none.                                         *)
LEMMA LiveOfNone ==
  ASSUME NEW p \in [Payment -> PayRow], \A k \in Payment : p[k].state = "none"
  PROVE  Live(p) = 0
<1>1. PICK f : AddsUp(f, Worth(p), Payment) /\ Live(p) = f[Payment]
  BY LiveAddsUp
<1>2. Worth(p) \in [Payment -> Nat] /\ \A k \in Payment : Worth(p)[k] <= 0
  BY DEF Worth, PayRow
<1> DEFINE z == [k \in Payment |-> 0]
           h == [s \in SUBSET Payment |-> 0]
<1>3. AddsUp(h, z, Payment)
  BY DEF AddsUp
<1>4. z \in [Payment -> Nat] /\ \A k \in Payment : z[k] = 0
  OBVIOUS
<1>5. h[Payment] = 0
  OBVIOUS
<1>6. f[Payment] \in Nat
  BY <1>1 DEF AddsUp
<1> HIDE DEF z, h
<1>7. f[Payment] <= h[Payment]
  BY <1>1, <1>2, <1>3, <1>4, SumsCompare, LedgerAssumption
<1> QED
  BY <1>1, <1>5, <1>6, <1>7

------------------------------------------------------------------------------
(* Calls and their locks.  Here the sum of the live payments stays unexpanded. *)

Record(pc, p, a, n, sum, st) ==
  [pc |-> pc, pay |-> p, amount |-> a, num |-> n, sum |-> sum, status |-> st]

Call(t) == Record(t.pc, t.pay, t.amount, t.num, t.sum, t.status)

Pcs == {"idle", "checked", "settle", "void", "status", "written", "locked", "summed"}

InTransaction == {"written", "locked", "summed"}

(* The shape of the calls: what each holds follows from how far it is.        *)
Shape ==
  /\ tx = [s \in Session |-> Call(tx[s])]
  /\ \A s \in Session : tx[s].pc \in Pcs
  /\ \A s \in Session : Inserting(s) => tx[s].pc \in InTransaction

OneInsert == \A s, t \in Session : Inserting(s) /\ Inserting(t) => s = t

OneHolder == \A s, t \in Session : HoldsInvoice(s) /\ HoldsInvoice(t) => s = t

(* What a transaction has summed up is still what it will leave behind.       *)
SumHolds == \A s \in Session : tx[s].pc = "summed" => tx[s].sum = Live(Written(s))

LockInv == Shape /\ OneInsert /\ OneHolder

InvoiceRow == inv = [status |-> inv.status, paid |-> inv.paid]

LedgerInv == LockInv /\ SumHolds /\ InvoiceRow /\ LedgerInStep

------------------------------------------------------------------------------
(* The updates of a call's fields: as operators of their own, so that the     *)
(* call they are applied to can be replaced by its record.                    *)
SetPc(c, x) == [c EXCEPT !.pc = x]

SetPay(c, x) == [c EXCEPT !.pay = x]

SetAmount(c, x) == [c EXCEPT !.amount = x]

SetNum(c, x) == [c EXCEPT !.num = x]

SetSum(c, x) == [c EXCEPT !.sum = x]

SetStatus(c, x) == [c EXCEPT !.status = x]

LEMMA FieldUpdates ==
  ASSUME NEW c, c = Call(c), NEW x
  PROVE  /\ SetPc(c, x) = Record(x, c.pay, c.amount, c.num, c.sum, c.status)
         /\ SetPay(c, x) = Record(c.pc, x, c.amount, c.num, c.sum, c.status)
         /\ SetAmount(c, x) = Record(c.pc, c.pay, x, c.num, c.sum, c.status)
         /\ SetNum(c, x) = Record(c.pc, c.pay, c.amount, x, c.sum, c.status)
         /\ SetSum(c, x) = Record(c.pc, c.pay, c.amount, c.num, x, c.status)
         /\ SetStatus(c, x) = Record(c.pc, c.pay, c.amount, c.num, c.sum, x)
<1>1. /\ SetPc(c, x) = SetPc(Call(c), x)
      /\ SetPay(c, x) = SetPay(Call(c), x)
      /\ SetAmount(c, x) = SetAmount(Call(c), x)
      /\ SetNum(c, x) = SetNum(Call(c), x)
      /\ SetSum(c, x) = SetSum(Call(c), x)
      /\ SetStatus(c, x) = SetStatus(Call(c), x)
  OBVIOUS
<1>2. SetPc(Call(c), x) = Record(x, c.pay, c.amount, c.num, c.sum, c.status)
  BY DEF SetPc, Call, Record
<1>3. SetPay(Call(c), x) = Record(c.pc, x, c.amount, c.num, c.sum, c.status)
  BY DEF SetPay, Call, Record
<1>4. SetAmount(Call(c), x) = Record(c.pc, c.pay, x, c.num, c.sum, c.status)
  BY DEF SetAmount, Call, Record
<1>5. SetNum(Call(c), x) = Record(c.pc, c.pay, c.amount, x, c.sum, c.status)
  BY DEF SetNum, Call, Record
<1>6. SetSum(Call(c), x) = Record(c.pc, c.pay, c.amount, c.num, x, c.status)
  BY DEF SetSum, Call, Record
<1>7. SetStatus(Call(c), x) = Record(c.pc, c.pay, c.amount, c.num, c.sum, x)
  BY DEF SetStatus, Call, Record
<1> QED
  BY <1>1, <1>2, <1>3, <1>4, <1>5, <1>6, <1>7

LEMMA RecordFields ==
  ASSUME NEW pc, NEW p, NEW a, NEW n, NEW sum, NEW st, NEW t,
         t = Record(pc, p, a, n, sum, st)
  PROVE  /\ t = Call(t) /\ t.pc = pc /\ t.pay = p /\ t.amount = a
         /\ t.num = n /\ t.sum = sum /\ t.status = st
BY DEF Record, Call

(* The updates the actions make, which begin with the pc.                     *)
LEMMA CallUpdates ==
  ASSUME NEW c, c = Call(c), NEW x, NEW y, NEW z
  PROVE  /\ SetPc(c, x) = Record(x, c.pay, c.amount, c.num, c.sum, c.status)
         /\ SetAmount(SetPc(c, x), y) = Record(x, c.pay, y, c.num, c.sum, c.status)
         /\ SetPay(SetPc(c, x), y) = Record(x, y, c.amount, c.num, c.sum, c.status)
         /\ SetSum(SetPc(c, x), y) = Record(x, c.pay, c.amount, c.num, y, c.status)
         /\ SetStatus(SetPc(c, x), y) = Record(x, c.pay, c.amount, c.num, c.sum, y)
         /\ SetNum(SetPay(SetPc(c, x), y), z) = Record(x, y, c.amount, z, c.sum, c.status)
<1>1. PICK d : d = SetPc(c, x)
  OBVIOUS
<1>2. d = Record(x, c.pay, c.amount, c.num, c.sum, c.status)
  BY <1>1, FieldUpdates
<1>3. /\ d = Call(d) /\ d.pc = x /\ d.pay = c.pay /\ d.amount = c.amount
      /\ d.num = c.num /\ d.sum = c.sum /\ d.status = c.status
  BY <1>2, RecordFields
<1>4. /\ SetAmount(d, y) = Record(x, c.pay, y, c.num, c.sum, c.status)
      /\ SetPay(d, y) = Record(x, y, c.amount, c.num, c.sum, c.status)
      /\ SetSum(d, y) = Record(x, c.pay, c.amount, c.num, y, c.status)
      /\ SetStatus(d, y) = Record(x, c.pay, c.amount, c.num, c.sum, y)
  BY <1>3, FieldUpdates
<1>5. PICK e : e = SetPay(d, y)
  OBVIOUS
<1>6. /\ e = Call(e) /\ e.pc = x /\ e.pay = y /\ e.amount = c.amount
      /\ e.num = c.num /\ e.sum = c.sum /\ e.status = c.status
  BY <1>4, <1>5, RecordFields
<1>7. SetNum(e, z) = Record(x, y, c.amount, z, c.sum, c.status)
  BY <1>6, FieldUpdates
<1> QED
  BY <1>1, <1>2, <1>4, <1>5, <1>7

(* A step of one session replaces its own call and no other.                  *)
LEMMA GotoChanges ==
  ASSUME Shape, NEW s \in Session, NEW t, Goto(s, t)
  PROVE  /\ tx'[s] = t
         /\ \A u \in Session \ {s} : tx'[u] = tx[u]
         /\ tx' = [u \in Session |-> IF u = s THEN t ELSE tx[u]]
BY DEF Shape, Goto

(* A step that moves one session to a well-formed call keeps the shape.       *)
LEMMA ShapeKept ==
  ASSUME Shape, NEW s \in Session, NEW t, Goto(s, t), t = Call(t), t.pc \in Pcs,
         t.num # 0 => t.pc \in InTransaction
  PROVE  Shape'
<1>1. /\ tx'[s] = t
      /\ \A u \in Session \ {s} : tx'[u] = tx[u]
      /\ tx' = [u \in Session |-> IF u = s THEN t ELSE tx[u]]
  BY GotoChanges
<1>2. \A u \in Session : tx[u] = Call(tx[u])
  BY DEF Shape
<1>3. \A u \in Session : tx'[u] = Call(tx'[u])
  BY <1>1, <1>2, Zenon
<1>4. tx' = [u \in Session |-> Call(tx'[u])]
  BY <1>1, <1>3
<1>5. \A u \in Session : tx'[u].pc \in Pcs
  BY <1>1 DEF Shape
<1>6. \A u \in Session : tx'[u].num # 0 => tx'[u].pc \in InTransaction
  BY <1>1 DEF Shape, Inserting
<1> QED
  BY <1>4, <1>5, <1>6 DEF Shape, Inserting

(* Ending a call keeps the shape, and gives up every lock.                    *)
LEMMA EndKeeps ==
  ASSUME LockInv, NEW s \in Session, End(s)
  PROVE  LockInv'
<1>1. Goto(s, Idle)
  BY DEF End
<1>2. Idle = Call(Idle) /\ Idle.pc = "idle" /\ Idle.num = 0
  BY DEF Idle, Call, Record
<1>3. Idle.pc \in Pcs /\ (Idle.num # 0 => Idle.pc \in InTransaction)
  BY <1>2 DEF Pcs
<1>4. Shape'
  BY <1>1, <1>2, <1>3, ShapeKept DEF LockInv
<1>5. tx'[s] = Idle /\ \A u \in Session \ {s} : tx'[u] = tx[u]
  BY <1>1, GotoChanges DEF LockInv
<1>6. OneInsert'
  BY <1>2, <1>5 DEF LockInv, OneInsert, Inserting
<1>7. OneHolder'
  BY <1>2, <1>5 DEF LockInv, OneHolder, HoldsInvoice
<1> QED
  BY <1>4, <1>6, <1>7 DEF LockInv

(* A step that neither inserts nor locks keeps the locks exclusive.           *)
LEMMA QuietKeeps ==
  ASSUME LockInv, NEW s \in Session, NEW t, Goto(s, t), t = Call(t), t.pc \in Pcs,
         t.num # 0 => t.pc \in InTransaction,
         t.num # 0 => Inserting(s),
         t.pc \in {"locked", "summed"} => HoldsInvoice(s)
  PROVE  LockInv'
<1>1. Shape'
  BY ShapeKept DEF LockInv
<1>2. tx'[s] = t /\ \A u \in Session \ {s} : tx'[u] = tx[u]
  BY GotoChanges DEF LockInv
<1>3. OneInsert'
  BY <1>2 DEF LockInv, OneInsert, Inserting
<1>4. OneHolder'
  BY <1>2 DEF LockInv, OneHolder, HoldsInvoice
<1> QED
  BY <1>1, <1>3, <1>4 DEF LockInv

------------------------------------------------------------------------------
LEMMA LockInvInit ==
  ASSUME Init
  PROVE  LockInv
<1>1. \A s \in Session : tx[s] = Idle
  BY DEF Init
<1>2. Idle = Call(Idle) /\ Idle.pc = "idle" /\ Idle.num = 0
  BY DEF Idle, Call, Record
<1>3. tx = [s \in Session |-> Call(tx[s])]
  BY <1>1, <1>2 DEF Init
<1>4. Shape
  BY <1>1, <1>2, <1>3 DEF Shape, Pcs, Inserting
<1>5. OneInsert /\ OneHolder
  BY <1>1, <1>2 DEF OneInsert, OneHolder, Inserting, HoldsInvoice
<1> QED
  BY <1>4, <1>5 DEF LockInv

(* What each step makes of the call of its session.                           *)
LEMMA LoadMoves ==
  ASSUME NEW s \in Session, Load(s)
  PROVE  \E t : /\ Goto(s, t) /\ t = Call(t) /\ t.num = 0
                /\ t.pc \in {"checked", "settle", "void", "status"}
                /\ t.amount \in Nat
                /\ t.pay \in Payment \cup {NoPayment}
                /\ t.pay \in Payment => pay[t.pay].state = "recorded"
                /\ t.pc = "status" => t.status \in {"approved", "sent"}
<1>1. /\ Idle = Call(Idle) /\ Idle.num = 0 /\ Idle.amount = 0 /\ Idle.pay = NoPayment
  BY DEF Idle, Call, Record
<1>a. NoPayment \notin Payment /\ Amounts \subseteq Nat
  BY LedgerAssumption
<1>2. CASE \E a \in Amounts : LoadRecord(s, a)
  <2>1. PICK a \in Amounts : LoadRecord(s, a)
    BY <1>2
  <2>2. PICK t : t = SetAmount(SetPc(Idle, "checked"), a)
    OBVIOUS
  <2>3. t = Record("checked", Idle.pay, a, Idle.num, Idle.sum, Idle.status)
    BY <1>1, <2>2, CallUpdates
  <2>4. /\ t = Call(t) /\ t.pc = "checked" /\ t.num = 0
        /\ t.amount \in Nat /\ t.pay = NoPayment
    BY <1>1, <1>a, <2>3, RecordFields
  <2>5. Goto(s, t)
    BY <2>1, <2>2, Zenon DEF LoadRecord, SetPc, SetAmount
  <2> QED
    BY <1>a, <2>4, <2>5
<1>3. CASE LoadSettle(s)
  <2>2. PICK t : t = SetPc(Idle, "settle")
    OBVIOUS
  <2>3. t = Record("settle", Idle.pay, Idle.amount, Idle.num, Idle.sum, Idle.status)
    BY <1>1, <2>2, CallUpdates
  <2>4. t = Call(t) /\ t.pc = "settle" /\ t.num = 0 /\ t.amount = 0 /\ t.pay = NoPayment
    BY <1>1, <2>3, RecordFields
  <2>5. Goto(s, t)
    BY <1>3, <2>2, Zenon DEF LoadSettle, SetPc
  <2> QED
    BY <1>a, <2>4, <2>5
<1>4. CASE \E p \in Payment : LoadVoid(s, p)
  <2>1. PICK p \in Payment : LoadVoid(s, p)
    BY <1>4
  <2>2. PICK t : t = SetPay(SetPc(Idle, "void"), p)
    OBVIOUS
  <2>3. t = Record("void", p, Idle.amount, Idle.num, Idle.sum, Idle.status)
    BY <1>1, <2>2, CallUpdates
  <2>4. t = Call(t) /\ t.pc = "void" /\ t.num = 0 /\ t.amount = 0 /\ t.pay = p
    BY <1>1, <2>3, RecordFields
  <2>5. Goto(s, t)
    BY <2>1, <2>2, Zenon DEF LoadVoid, SetPc, SetPay
  <2>6. pay[p].state = "recorded"
    BY <2>1 DEF LoadVoid
  <2> QED
    BY <2>4, <2>5, <2>6
<1>5. CASE \E to \in {"approved", "sent"} : LoadStatus(s, to)
  <2>1. PICK to \in {"approved", "sent"} : LoadStatus(s, to)
    BY <1>5
  <2>2. PICK t : t = SetStatus(SetPc(Idle, "status"), to)
    OBVIOUS
  <2>3. t = Record("status", Idle.pay, Idle.amount, Idle.num, Idle.sum, to)
    BY <1>1, <2>2, CallUpdates
  <2>4. /\ t = Call(t) /\ t.pc = "status" /\ t.num = 0 /\ t.amount = 0
        /\ t.pay = NoPayment /\ t.status = to
    BY <1>1, <2>3, RecordFields
  <2>5. Goto(s, t)
    BY <2>1, <2>2, Zenon DEF LoadStatus, SetPc, SetStatus
  <2> QED
    BY <1>a, <2>4, <2>5
<1> QED
  BY <1>2, <1>3, <1>4, <1>5 DEF Load

LEMMA VoidMoves ==
  ASSUME Shape, NEW s \in Session, Void(s)
  PROVE  \E t : /\ Goto(s, t) /\ t = Call(t) /\ t.num = tx[s].num
                /\ t.pc = "written" /\ t.pay = tx[s].pay /\ t.amount = tx[s].amount
<1>1. PICK t : t = SetPc(tx[s], "written")
  OBVIOUS
<1>2. /\ t = Call(t) /\ t.pc = "written" /\ t.num = tx[s].num
      /\ t.pay = tx[s].pay /\ t.amount = tx[s].amount
  BY <1>1, CallUpdates, RecordFields DEF Shape
<1>3. Goto(s, t)
  BY <1>1, Zenon DEF Void, SetPc
<1> QED
  BY <1>2, <1>3

LEMMA LockMoves ==
  ASSUME Shape, NEW s \in Session, Lock(s)
  PROVE  \E t : /\ Goto(s, t) /\ t = Call(t) /\ t.num = tx[s].num
                /\ t.pc = "locked" /\ t.pay = tx[s].pay /\ t.amount = tx[s].amount
                /\ t.status = inv.status
<1>1. PICK t : t = SetStatus(SetPc(tx[s], "locked"), inv.status)
  OBVIOUS
<1>2. /\ t = Call(t) /\ t.pc = "locked" /\ t.num = tx[s].num /\ t.pay = tx[s].pay
      /\ t.amount = tx[s].amount /\ t.status = inv.status
  BY <1>1, CallUpdates, RecordFields DEF Shape
<1>3. Goto(s, t)
  BY <1>1, Zenon DEF Lock, SetPc, SetStatus
<1> QED
  BY <1>2, <1>3

LEMMA SumUpMoves ==
  ASSUME Shape, NEW s \in Session, SumUp(s)
  PROVE  \E t : /\ Goto(s, t) /\ t = Call(t) /\ t.num = tx[s].num
                /\ t.pc = "summed" /\ t.pay = tx[s].pay /\ t.amount = tx[s].amount
                /\ t.sum = Live(Written(s)) /\ t.status = tx[s].status
<1>1. PICK t : t = SetSum(SetPc(tx[s], "summed"), Live(Written(s)))
  OBVIOUS
<1>2. /\ t = Call(t) /\ t.pc = "summed" /\ t.num = tx[s].num /\ t.pay = tx[s].pay
      /\ t.amount = tx[s].amount /\ t.sum = Live(Written(s)) /\ t.status = tx[s].status
  BY <1>1, CallUpdates, RecordFields DEF Shape
<1>3. Goto(s, t)
  BY <1>1, Zenon DEF SumUp, SetPc, SetSum
<1> QED
  BY <1>2, <1>3

LEMMA InsertMoves ==
  ASSUME Shape, NEW s \in Session, NEW p \in Payment, Insert(s, p)
  PROVE  \E t : /\ Goto(s, t) /\ t = Call(t) /\ t.num = counter + 1
                /\ t.pc = "written" /\ t.pay = p /\ t.amount = tx[s].amount
<1>1. PICK t : t = SetNum(SetPay(SetPc(tx[s], "written"), p), counter + 1)
  OBVIOUS
<1>2. /\ t = Call(t) /\ t.pc = "written" /\ t.num = counter + 1 /\ t.pay = p
      /\ t.amount = tx[s].amount
  BY <1>1, CallUpdates, RecordFields DEF Shape
<1>3. Goto(s, t)
  BY <1>1, Zenon DEF Insert, SetPc, SetPay, SetNum
<1> QED
  BY <1>2, <1>3

LEMMA SettleMoves ==
  ASSUME Shape, NEW s \in Session, Settle(s)
  PROVE  \E t : /\ Goto(s, t) /\ t = Call(t) /\ t.num = tx[s].num
                /\ t.pay = tx[s].pay /\ t.pc \in {"checked", "written"}
                /\ \/ t.amount = tx[s].amount
                   \/ inv.paid < Total /\ t.amount = Total - inv.paid
<1>1. CASE inv.paid < Total
  <2>1. PICK t : t = SetAmount(SetPc(tx[s], "checked"), Total - inv.paid)
    OBVIOUS
  <2>2. /\ t = Call(t) /\ t.pc = "checked" /\ t.num = tx[s].num /\ t.pay = tx[s].pay
        /\ t.amount = Total - inv.paid
    BY <2>1, CallUpdates, RecordFields DEF Shape
  <2>3. Goto(s, t)
    BY <1>1, <2>1, Zenon DEF Settle, SetPc, SetAmount
  <2> QED
    BY <1>1, <2>2, <2>3
<1>2. CASE ~(inv.paid < Total)
  <2>1. PICK t : t = SetPc(tx[s], "written")
    OBVIOUS
  <2>2. /\ t = Call(t) /\ t.pc = "written" /\ t.num = tx[s].num /\ t.pay = tx[s].pay
        /\ t.amount = tx[s].amount
    BY <2>1, CallUpdates, RecordFields DEF Shape
  <2>3. Goto(s, t)
    BY <1>2, <2>1, Zenon DEF Settle, SetPc
  <2> QED
    BY <2>2, <2>3
<1> QED
  BY <1>1, <1>2

(* Every call of the application keeps the locks exclusive: its reads, ...    *)
LEMMA LockInvLoad ==
  ASSUME LockInv, NEW s \in Session, Load(s)
  PROVE  LockInv'
<1>1. PICK t : /\ Goto(s, t) /\ t = Call(t) /\ t.num = 0
               /\ t.pc \in {"checked", "settle", "void", "status"}
  BY LoadMoves
<1> QED
  BY <1>1, QuietKeeps DEF Pcs

(* ... and its writes.                                                        *)
LEMMA LockInvWrite ==
  ASSUME LockInv, NEW s \in Session, Write(s)
  PROVE  LockInv'
<1> USE DEF LockInv
<1>1. Inserting(s) => tx[s].pc \in InTransaction
  BY DEF Shape
<1>2. CASE Settle(s)
  <2>1. tx[s].num = 0
    BY <1>1, <1>2 DEF Settle, Inserting, InTransaction
  <2> QED
    BY <1>2, <2>1, SettleMoves, QuietKeeps DEF Pcs
<1>3. CASE Void(s)
  <2>1. tx[s].num = 0
    BY <1>1, <1>3 DEF Void, Inserting, InTransaction
  <2> QED
    BY <1>3, <2>1, VoidMoves, QuietKeeps DEF Pcs
<1>4. CASE \E p \in Payment : Insert(s, p)
  <2>1. PICK t : Goto(s, t) /\ t = Call(t) /\ t.pc = "written"
    BY <1>4, InsertMoves
  <2>2. \A u \in Session : ~Inserting(u)
    BY <1>4 DEF Insert, Free, WaitsFor
  <2>3. Shape'
    BY <2>1, ShapeKept DEF Pcs, InTransaction
  <2>4. tx'[s] = t /\ \A u \in Session \ {s} : tx'[u] = tx[u]
    BY <2>1, GotoChanges
  <2>5. OneInsert'
    BY <2>2, <2>4 DEF OneInsert, Inserting
  <2>6. OneHolder'
    BY <2>1, <2>4 DEF OneHolder, HoldsInvoice
  <2> QED
    BY <2>3, <2>5, <2>6
<1>5. CASE Lock(s)
  <2>1. PICK t : Goto(s, t) /\ t = Call(t) /\ t.pc = "locked" /\ t.num = tx[s].num
    BY <1>5, LockMoves
  <2>2. \A u \in Session \ {s} : ~HoldsInvoice(u)
    BY <1>5 DEF Lock, Free, WaitsFor
  <2>3. Shape'
    BY <2>1, ShapeKept DEF Pcs, InTransaction
  <2>4. tx'[s] = t /\ \A u \in Session \ {s} : tx'[u] = tx[u]
    BY <2>1, GotoChanges
  <2>5. OneInsert'
    BY <2>1, <2>4 DEF OneInsert, Inserting
  <2>6. OneHolder'
    BY <2>2, <2>4 DEF OneHolder, HoldsInvoice
  <2> QED
    BY <2>3, <2>5, <2>6
<1>6. CASE SumUp(s)
  <2>1. PICK t : Goto(s, t) /\ t = Call(t) /\ t.pc = "summed" /\ t.num = tx[s].num
    BY <1>6, SumUpMoves
  <2>2. HoldsInvoice(s)
    BY <1>6 DEF SumUp, HoldsInvoice
  <2>3. t.pc \in Pcs /\ (t.num # 0 => t.pc \in InTransaction) /\ (t.num # 0 => Inserting(s))
    BY <2>1 DEF Pcs, InTransaction, Inserting
  <2> QED
    BY <2>1, <2>2, <2>3, QuietKeeps
<1>7. CASE Overpaid(s) \/ Commit(s) \/ WriteStatus(s)
  BY <1>7, EndKeeps DEF Overpaid, Commit, WriteStatus
<1> QED
  BY <1>2, <1>3, <1>4, <1>5, <1>6, <1>7 DEF Write

LEMMA LockInvNext ==
  ASSUME LockInv, [Next]_vars
  PROVE  LockInv'
<1>1. CASE Next
  <2>1. PICK s \in Session : Load(s) \/ Write(s) \/ Disconnect(s)
    BY <1>1 DEF Next
  <2>2. CASE Disconnect(s)
    BY <2>2, EndKeeps DEF Disconnect
  <2> QED
    BY <2>1, <2>2, LockInvLoad, LockInvWrite
<1>2. CASE UNCHANGED vars
  BY <1>2 DEF vars, LockInv, Shape, OneInsert, OneHolder, Inserting, HoldsInvoice, Call
<1> QED
  BY <1>1, <1>2

(* How far a transaction is with its locks: whoever waits is behind whoever   *)
(* it waits for.                                                              *)
Rank(s) ==
  IF HoldsInvoice(s) THEN 3
  ELSE IF tx[s].pc = "written" THEN IF Inserting(s) THEN 2 ELSE 1
  ELSE 0

LEMMA WaitsUpwards ==
  ASSUME LockInv, NEW s \in Session, NEW t \in Session, WaitsFor(s, t)
  PROVE  Rank(s) < Rank(t)
<1>1. Inserting(t) => tx[t].pc \in InTransaction
  BY DEF LockInv, Shape
<1>2. Inserting(t) => Rank(t) \in {2, 3}
  BY <1>1 DEF Rank, InTransaction, HoldsInvoice
<1>3. HoldsInvoice(t) => Rank(t) = 3
  BY DEF Rank
<1>4. CASE tx[s].pc \in {"checked", "void", "status"}
  <2>1. Rank(s) = 0
    BY <1>4 DEF Rank, HoldsInvoice
  <2>2. Rank(t) \in {1, 2, 3}
    BY <1>2, <1>3, <1>4 DEF WaitsFor, HoldsPayment, Rank, HoldsInvoice
  <2> QED
    BY <2>1, <2>2
<1>5. CASE tx[s].pc = "written"
  <2>1. s # t /\ (HoldsInvoice(t) \/ Inserting(t))
    BY <1>5 DEF WaitsFor
  <2>2. CASE HoldsInvoice(t)
    BY <1>3, <1>5, <2>2 DEF Rank, HoldsInvoice
  <2>3. CASE Inserting(t)
    <3>1. ~Inserting(s)
      BY <2>1, <2>3 DEF LockInv, OneInsert
    <3> QED
      BY <1>2, <1>5, <2>3, <3>1 DEF Rank, HoldsInvoice
  <2> QED
    BY <2>1, <2>2, <2>3
<1> QED
  BY <1>4, <1>5 DEF WaitsFor

(* In any set of calls, one that is furthest with its locks waits for none.   *)
LEMMA NoCycle ==
  ASSUME LockInv
  PROVE  NoLockCycle
<1> SUFFICES ASSUME NEW S \in SUBSET Session, S # {}
             PROVE  \E s \in S : \A t \in S : ~WaitsFor(s, t)
  BY DEF NoLockCycle
<1>1. \A s \in S : Rank(s) \in 0..3
  BY DEF Rank
<1>2. PICK s \in S : \A t \in S : Rank(t) <= Rank(s)
  BY <1>1
<1>3. \A t \in S : ~WaitsFor(s, t)
  BY <1>1, <1>2, WaitsUpwards
<1> QED
  BY <1>3

(* Recorded payments, voids, settlements and status changes never lock each   *)
(* other up: the payment's number is drawn before its foreign key shares the  *)
(* invoice, so that a second payment waits for the first without holding it.  *)
THEOREM InvoiceNeverLocksUp == Spec => []NoLockCycle
<1>1. Init => LockInv
  BY LockInvInit
<1>2. LockInv /\ [Next]_vars => LockInv'
  BY LockInvNext
<1>3. LockInv => NoLockCycle
  BY NoCycle
<1> QED
  BY <1>1, <1>2, <1>3, PTL DEF Spec

------------------------------------------------------------------------------
(* A step that leaves the payments alone and does not sum up anew keeps what  *)
(* the others have summed up.                                                 *)
LEMMA SumKept ==
  ASSUME Shape, SumHolds, NEW s \in Session, NEW t, Goto(s, t), t.pc # "summed", pay' = pay
  PROVE  SumHolds'
<1>1. tx'[s] = t /\ \A u \in Session \ {s} : tx'[u] = tx[u]
  BY GotoChanges
<1>2. ASSUME NEW u \in Session, tx'[u].pc = "summed"
      PROVE  tx'[u].sum = Live(Written(u))'
  <2>1. tx'[u] = tx[u]
    BY <1>1, <1>2
  <2>2. Written(u)' = Written(u)
    BY <2>1 DEF Written, Inserting
  <2>3. tx[u].sum = Live(Written(u))
    BY <1>2, <2>1 DEF SumHolds
  <2> QED
    BY <2>1, <2>2, <2>3
<1> QED
  BY <1>2 DEF SumHolds

LEMMA IdleNotSummed == Idle.pc # "summed"
BY DEF Idle

(* Every step but the summing and the commit is such a step.                  *)
LEMMA SumHoldsOther ==
  ASSUME LockInv, SumHolds, NEW s \in Session,
         \/ Load(s) \/ Settle(s) \/ Void(s) \/ \E p \in Payment : Insert(s, p)
         \/ Lock(s) \/ Overpaid(s) \/ WriteStatus(s) \/ Disconnect(s)
  PROVE  SumHolds'
<1> USE DEF LockInv
<1>1. CASE Load(s)
  <2>1. pay' = pay
    BY <1>1 DEF Load, LoadRecord, LoadSettle, LoadVoid, LoadStatus
  <2> QED
    BY <1>1, <2>1, LoadMoves, SumKept
<1>2. CASE Settle(s)
  BY <1>2, SettleMoves, SumKept DEF Settle
<1>3. CASE Void(s)
  BY <1>3, VoidMoves, SumKept DEF Void
<1>4. CASE \E p \in Payment : Insert(s, p)
  BY <1>4, InsertMoves, SumKept DEF Insert
<1>5. CASE Lock(s)
  BY <1>5, LockMoves, SumKept DEF Lock
<1>6. CASE Overpaid(s) \/ WriteStatus(s) \/ Disconnect(s)
  <2>1. Goto(s, Idle) /\ pay' = pay
    BY <1>6 DEF Overpaid, WriteStatus, Disconnect, End
  <2> QED
    BY <2>1, IdleNotSummed, SumKept
<1> QED
  BY <1>1, <1>2, <1>3, <1>4, <1>5, <1>6

(* The sum is taken under the invoice's lock, from what the transaction will  *)
(* leave behind, ...                                                          *)
LEMMA SumHoldsSumUp ==
  ASSUME LockInv, SumHolds, NEW s \in Session, SumUp(s)
  PROVE  SumHolds'
<1> USE DEF LockInv
<1>1. PICK t : /\ Goto(s, t) /\ t.num = tx[s].num /\ t.pay = tx[s].pay
               /\ t.amount = tx[s].amount /\ t.sum = Live(Written(s))
  BY SumUpMoves
<1>2. tx'[s] = t /\ \A u \in Session \ {s} : tx'[u] = tx[u]
  BY <1>1, GotoChanges
<1>3. pay' = pay
  BY DEF SumUp
<1>4. \A u \in Session : Written(u)' = Written(u)
  BY <1>1, <1>2, <1>3 DEF Written, Inserting
<1>5. ASSUME NEW u \in Session, tx'[u].pc = "summed"
      PROVE  tx'[u].sum = Live(Written(u))'
  <2>1. CASE u = s
    BY <1>1, <1>2, <1>4, <2>1
  <2>2. CASE u # s
    <3>1. tx[u].sum = Live(Written(u))
      BY <1>2, <1>5, <2>2 DEF SumHolds
    <3> QED
      BY <1>2, <1>4, <2>2, <3>1
  <2> QED
    BY <2>1, <2>2
<1> QED
  BY <1>5 DEF SumHolds

(* ... and no other transaction has a sum when it commits.                    *)
LEMMA SumHoldsCommit ==
  ASSUME LockInv, NEW s \in Session, Commit(s)
  PROVE  SumHolds'
<1> USE DEF LockInv
<1>1. Goto(s, Idle) /\ HoldsInvoice(s)
  BY DEF Commit, End, HoldsInvoice
<1>2. tx'[s] = Idle /\ \A u \in Session \ {s} : tx'[u] = tx[u]
  BY <1>1, GotoChanges
<1>3. \A u \in Session : tx'[u].pc # "summed"
  BY <1>1, <1>2, IdleNotSummed DEF OneHolder, HoldsInvoice
<1> QED
  BY <1>3 DEF SumHolds

(* A status write leaves the rest of the invoice's row alone.                 *)
LEMMA WriteStatusRow ==
  ASSUME InvoiceRow, NEW s \in Session, WriteStatus(s)
  PROVE  inv' = inv \/ inv' = [status |-> tx[s].status, paid |-> inv.paid]
<1>1. inv' = inv \/ inv' = SetStatus(inv, tx[s].status)
  BY Zenon DEF WriteStatus, SetStatus
<1>2. inv = [status |-> inv.status, paid |-> inv.paid]
  BY DEF InvoiceRow
<1>3. SetStatus(inv, tx[s].status)
        = SetStatus([status |-> inv.status, paid |-> inv.paid], tx[s].status)
  BY <1>2
<1>4. SetStatus([status |-> inv.status, paid |-> inv.paid], tx[s].status)
        = [status |-> tx[s].status, paid |-> inv.paid]
  BY DEF SetStatus
<1> QED
  BY <1>1, <1>3, <1>4

(* A commit writes the sum it leaves behind; no other step touches either.    *)
LEMMA LedgerKept ==
  ASSUME LockInv, SumHolds, InvoiceRow, LedgerInStep, NEW s \in Session,
         Load(s) \/ Write(s) \/ Disconnect(s)
  PROVE  InvoiceRow' /\ LedgerInStep'
<1>1. CASE Commit(s)
  <2>1. inv'.paid = tx[s].sum /\ pay' = Written(s) /\ tx[s].pc = "summed"
    BY <1>1 DEF Commit
  <2>2. tx[s].sum = Live(Written(s))
    BY <2>1 DEF SumHolds
  <2>3. InvoiceRow'
    BY <1>1 DEF Commit, InvoiceRow
  <2> QED
    BY <2>1, <2>2, <2>3 DEF LedgerInStep
<1>2. CASE WriteStatus(s)
  <2>1. pay' = pay
    BY <1>2 DEF WriteStatus
  <2>2. inv' = inv \/ inv' = [status |-> tx[s].status, paid |-> inv.paid]
    BY <1>2, WriteStatusRow
  <2> QED
    BY <2>1, <2>2 DEF LedgerInStep, InvoiceRow
<1>3. CASE \/ Load(s) \/ Settle(s) \/ Void(s) \/ \E p \in Payment : Insert(s, p)
           \/ Lock(s) \/ SumUp(s) \/ Overpaid(s) \/ Disconnect(s)
  <2>1. UNCHANGED <<inv, pay>>
    BY <1>3 DEF Load, LoadRecord, LoadSettle, LoadVoid, LoadStatus, Settle, Void, Insert,
                Lock, SumUp, Overpaid, Disconnect
  <2> QED
    BY <2>1 DEF LedgerInStep, InvoiceRow
<1> QED
  BY <1>1, <1>2, <1>3 DEF Write

LEMMA LedgerInvNext ==
  ASSUME LedgerInv, [Next]_vars
  PROVE  LedgerInv'
<1> USE DEF LedgerInv
<1>1. LockInv'
  BY LockInvNext
<1>2. CASE Next
  <2>1. PICK s \in Session : Load(s) \/ Write(s) \/ Disconnect(s)
    BY <1>2 DEF Next
  <2>2. SumHolds'
    <3>1. CASE SumUp(s)
      BY <3>1, SumHoldsSumUp
    <3>2. CASE Commit(s)
      BY <3>2, SumHoldsCommit
    <3>3. CASE ~SumUp(s) /\ ~Commit(s)
      <4>1. \/ Load(s) \/ Settle(s) \/ Void(s) \/ \E p \in Payment : Insert(s, p)
            \/ Lock(s) \/ Overpaid(s) \/ WriteStatus(s) \/ Disconnect(s)
        BY <2>1, <3>3 DEF Write
      <4> QED
        BY <4>1, SumHoldsOther
    <3> QED
      BY <3>1, <3>2, <3>3
  <2> QED
    BY <1>1, <2>1, <2>2, LedgerKept
<1>3. CASE UNCHANGED vars
  BY <1>1, <1>3 DEF vars, SumHolds, InvoiceRow, LedgerInStep, Written, Inserting
<1> QED
  BY <1>2, <1>3

LEMMA LedgerInvInit ==
  ASSUME Init
  PROVE  LedgerInv
<1>1. \A s \in Session : tx[s].pc # "summed"
  BY IdleNotSummed DEF Init
<1>2. inv.paid = Live(pay) /\ InvoiceRow
  BY DEF Init, InvoiceRow
<1> QED
  BY <1>1, <1>2, LockInvInit DEF LedgerInv, SumHolds, LedgerInStep

(* The invoice's paid_amount is the sum of its live payments, whatever is     *)
(* recorded, voided and settled at once: the recompute locks the invoice      *)
(* before it sums up, so its sum is still right when it is written.           *)
THEOREM LedgerStaysInStep == Spec => []LedgerInStep
<1>1. Init => LedgerInv
  BY LedgerInvInit
<1>2. LedgerInv /\ [Next]_vars => LedgerInv'
  BY LedgerInvNext
<1>3. LedgerInv => LedgerInStep
  BY DEF LedgerInv
<1> QED
  BY <1>1, <1>2, <1>3, PTL DEF Spec
------------------------------------------------------------------------------
(* The payments and their numbers, and how far the invoice is paid.           *)

PayType == pay \in [Payment -> PayRow]

(* What a call knows is still so: the payment it inserts is new and has the   *)
(* next number, the one it voids is on record, and the status it has read     *)
(* under the invoice's lock is the invoice's.                                 *)
Knows(t) ==
  /\ t.pay \in Payment \cup {NoPayment} /\ t.amount \in Nat
  /\ t.pay \in Payment => (t.num # 0 <=> pay[t.pay].state = "none")
  /\ t.num # 0 => t.pay \in Payment /\ t.num = counter + 1
  /\ t.pc \in {"locked", "summed"} => t.status = inv.status
  /\ t.pc = "status" => t.status \in {"approved", "sent"}

CallsKnow == \A s \in Session : Knows(tx[s])

(* The payments on record, voided or not, have a number each, up to the       *)
(* counter.                                                                   *)
Made == {p \in Payment : pay[p].state # "none"}

Numbered ==
  /\ counter \in Nat
  /\ \A p, q \in Made : pay[p].num = pay[q].num => p = q
  /\ \A p \in Made : pay[p].num \in 1..counter
  /\ \A n \in 1..counter : \E p \in Made : pay[p].num = n

(* The invoice's amount is within the total, and its status says how far.     *)
Money ==
  /\ inv.paid \in Nat /\ inv.paid <= Total
  /\ inv.status = "paid" => inv.paid = Total
  /\ inv.status = "partially_paid" => inv.paid \in 1..Total - 1

BookInv == PayType /\ CallsKnow /\ Numbered /\ Money

LEMMA BookInit ==
  ASSUME Init
  PROVE  BookInv
<1> USE LedgerAssumption
<1>1. PayType /\ \A p \in Payment : pay[p].state = "none"
  BY DEF Init, PayType, PayRow
<1>2. Numbered
  BY <1>1 DEF Init, Numbered, Made
<1>3. Knows(Idle)
  BY DEF Knows, Idle
<1>4. CallsKnow
  BY <1>3 DEF Init, CallsKnow
<1>5. Live(pay) = 0
  BY <1>1, LiveOfNone DEF PayType
<1>6. Money
  BY <1>5 DEF Init, Money
<1> QED
  BY <1>1, <1>2, <1>4, <1>6 DEF BookInv

(* A step of one call that leaves the tables alone.                           *)
LEMMA BookKept ==
  ASSUME Shape, BookInv, UNCHANGED <<inv, pay, counter>>, NEW s \in Session, NEW t, Goto(s, t),
         Knows(t)
  PROVE  BookInv'
<1>1. tx'[s] = t /\ \A u \in Session \ {s} : tx'[u] = tx[u]
  BY GotoChanges
<1>2. CallsKnow'
  BY <1>1 DEF BookInv, CallsKnow, Knows
<1> QED
  BY <1>2 DEF BookInv, PayType, Numbered, Made, Money

LEMMA KnowsIdle == Knows(Idle)
BY LedgerAssumption DEF Knows, Idle

(* Every step but the commit and the status write is such a step.             *)
LEMMA BookOther ==
  ASSUME LockInv, BookInv, NEW s \in Session,
         \/ Load(s) \/ Settle(s) \/ Void(s) \/ \E p \in Payment : Insert(s, p)
         \/ Lock(s) \/ SumUp(s) \/ Overpaid(s) \/ Disconnect(s)
  PROVE  BookInv'
<1> USE DEF LockInv
<1>a. Knows(tx[s])
  BY DEF BookInv, CallsKnow
<1>b. Inserting(s) => tx[s].pc \in InTransaction
  BY DEF Shape
<1>1. CASE Load(s)
  <2>1. PICK t : /\ Goto(s, t) /\ t.num = 0
                 /\ t.pc \in {"checked", "settle", "void", "status"}
                 /\ t.amount \in Nat
                 /\ t.pay \in Payment \cup {NoPayment}
                 /\ t.pay \in Payment => pay[t.pay].state = "recorded"
                 /\ t.pc = "status" => t.status \in {"approved", "sent"}
    BY <1>1, LoadMoves
  <2>2. UNCHANGED <<inv, pay, counter>>
    BY <1>1 DEF Load, LoadRecord, LoadSettle, LoadVoid, LoadStatus
  <2>3. Knows(t)
    BY <2>1 DEF Knows
  <2> QED
    BY <2>1, <2>2, <2>3, BookKept
<1>2. CASE Settle(s)
  <2>1. PICK t : /\ Goto(s, t) /\ t.num = tx[s].num
                 /\ t.pay = tx[s].pay /\ t.pc \in {"checked", "written"}
                 /\ \/ t.amount = tx[s].amount
                    \/ inv.paid < Total /\ t.amount = Total - inv.paid
    BY <1>2, SettleMoves
  <2>2. t.amount \in Nat
    BY <1>a, <2>1, LedgerAssumption DEF Knows, BookInv, Money
  <2>3. Knows(t)
    BY <1>a, <2>1, <2>2 DEF Knows
  <2> QED
    BY <1>2, <2>1, <2>3, BookKept DEF Settle
<1>3. CASE Void(s)
  <2>1. PICK t : /\ Goto(s, t) /\ t.num = tx[s].num /\ t.pc = "written"
                 /\ t.pay = tx[s].pay /\ t.amount = tx[s].amount
    BY <1>3, VoidMoves
  <2>2. Knows(t)
    BY <1>a, <2>1 DEF Knows
  <2> QED
    BY <1>3, <2>1, <2>2, BookKept DEF Void
<1>4. CASE \E p \in Payment : Insert(s, p)
  <2>1. PICK p \in Payment : Insert(s, p)
    BY <1>4
  <2>2. PICK t : /\ Goto(s, t) /\ t.num = counter + 1
                 /\ t.pc = "written" /\ t.pay = p /\ t.amount = tx[s].amount
    BY <2>1, InsertMoves
  <2>3. pay[p].state = "none" /\ UNCHANGED <<inv, pay, counter>>
    BY <2>1 DEF Insert
  <2>4. counter + 1 # 0
    BY DEF BookInv, Numbered
  <2>5. Knows(t)
    BY <1>a, <2>2, <2>3, <2>4 DEF Knows
  <2> QED
    BY <2>2, <2>3, <2>5, BookKept
<1>5. CASE Lock(s)
  <2>1. PICK t : /\ Goto(s, t) /\ t.num = tx[s].num /\ t.pc = "locked"
                 /\ t.pay = tx[s].pay /\ t.amount = tx[s].amount /\ t.status = inv.status
    BY <1>5, LockMoves
  <2>2. Knows(t)
    BY <1>a, <2>1 DEF Knows
  <2> QED
    BY <1>5, <2>1, <2>2, BookKept DEF Lock
<1>6. CASE SumUp(s)
  <2>1. PICK t : /\ Goto(s, t) /\ t.num = tx[s].num /\ t.pc = "summed"
                 /\ t.pay = tx[s].pay /\ t.amount = tx[s].amount /\ t.status = tx[s].status
    BY <1>6, SumUpMoves
  <2>2. tx[s].pc = "locked"
    BY <1>6 DEF SumUp
  <2>3. Knows(t)
    BY <1>a, <2>1, <2>2 DEF Knows
  <2> QED
    BY <1>6, <2>1, <2>3, BookKept DEF SumUp
<1>7. CASE Overpaid(s) \/ Disconnect(s)
  BY <1>7, KnowsIdle, BookKept DEF Overpaid, Disconnect, End
<1> QED
  BY <1>1, <1>2, <1>3, <1>4, <1>5, <1>6, <1>7

(* A status that is approved or sent by hand is never a derived one, and no   *)
(* transaction holds the invoice while it is written.                         *)
LEMMA BookWriteStatus ==
  ASSUME LockInv, InvoiceRow, BookInv, NEW s \in Session, WriteStatus(s)
  PROVE  BookInv'
<1> USE DEF LockInv
<1>1. tx'[s] = Idle /\ \A u \in Session \ {s} : tx'[u] = tx[u]
  BY GotoChanges DEF WriteStatus, End
<1>2. tx[s].pc = "status" /\ UNCHANGED <<pay, counter>>
  BY DEF WriteStatus
<1>3. inv' = inv \/ inv' = [status |-> tx[s].status, paid |-> inv.paid]
  BY WriteStatusRow
<1>4. tx[s].status \in {"approved", "sent"}
  BY <1>2 DEF BookInv, CallsKnow, Knows
<1>5. Money'
  BY <1>3, <1>4 DEF BookInv, Money
<1>6. \A u \in Session : ~HoldsInvoice(u)
  BY <1>2 DEF WriteStatus, Free, WaitsFor
<1>7. ASSUME NEW u \in Session PROVE Knows(tx[u])'
  <2>1. CASE u = s
    BY <1>1, <2>1, LedgerAssumption DEF Knows, Idle
  <2>2. CASE u # s
    <3>1. tx'[u] = tx[u] /\ tx[u].pc \notin {"locked", "summed"} /\ Knows(tx[u])
      BY <1>1, <1>6, <2>2 DEF HoldsInvoice, BookInv, CallsKnow
    <3> QED
      BY <1>2, <3>1 DEF Knows
  <2> QED
    BY <2>1, <2>2
<1> QED
  BY <1>2, <1>5, <1>7 DEF BookInv, PayType, CallsKnow, Numbered, Made

(* What a commit leaves behind in the payments: the new one with the next     *)
(* number, or the one it names voided.                                        *)
LEMMA CommitPays ==
  ASSUME BookInv, NEW s \in Session, Commit(s)
  PROVE  \/ /\ tx[s].pay = NoPayment /\ ~Inserting(s)
            /\ pay' = pay /\ counter' = counter
         \/ \E p \in Payment :
              /\ tx[s].pay = p /\ Inserting(s) /\ pay[p].state = "none"
              /\ pay' = [pay EXCEPT ![p] = [state |-> "recorded", amount |-> tx[s].amount,
                                            num |-> counter + 1]]
              /\ tx[s].amount \in Nat /\ counter' = counter + 1
         \/ \E p \in Payment :
              /\ tx[s].pay = p /\ ~Inserting(s) /\ pay[p].state # "none"
              /\ pay' = [pay EXCEPT ![p].state = "voided"] /\ counter' = counter
<1>1. Knows(tx[s])
  BY DEF BookInv, CallsKnow
<1>2. pay' = Written(s) /\ counter' = IF Inserting(s) THEN tx[s].num ELSE counter
  BY DEF Commit
<1>3. CASE tx[s].pay = NoPayment
  BY <1>1, <1>2, <1>3, LedgerAssumption DEF Written, Knows, Inserting
<1>4. CASE tx[s].pay # NoPayment /\ Inserting(s)
  BY <1>1, <1>2, <1>4 DEF Written, Knows, Inserting
<1>5. CASE tx[s].pay # NoPayment /\ ~Inserting(s)
  BY <1>1, <1>2, <1>5 DEF Written, Knows, Inserting
<1> QED
  BY <1>3, <1>4, <1>5

(* The numbers stay consecutive.                                              *)
LEMMA CommitNumbers ==
  ASSUME BookInv, NEW s \in Session, Commit(s)
  PROVE  PayType' /\ Numbered'
<1> USE DEF BookInv
<1>a. pay \in [Payment -> PayRow] /\ counter \in Nat
  BY DEF PayType, Numbered
<1>1. CASE pay' = pay /\ counter' = counter
  BY <1>1 DEF PayType, Numbered, Made
<1>2. ASSUME NEW p \in Payment, pay[p].state = "none", tx[s].amount \in Nat,
             pay' = [pay EXCEPT ![p] = [state |-> "recorded", amount |-> tx[s].amount,
                                        num |-> counter + 1]],
             counter' = counter + 1
      PROVE  PayType' /\ Numbered'
  <2>1. /\ pay'[p] = [state |-> "recorded", amount |-> tx[s].amount, num |-> counter + 1]
        /\ \A q \in Payment \ {p} : pay'[q] = pay[q]
        /\ pay'[p] \in PayRow
    BY <1>a, <1>2 DEF PayRow
  <2>2. PayType'
    BY <1>a, <1>2, <2>1 DEF PayType
  <2>3. Made' = Made \cup {p} /\ p \notin Made /\ \A q \in Made : pay'[q].num = pay[q].num
    BY <1>2, <2>1 DEF Made
  <2>4. pay'[p].num = counter + 1
    BY <2>1
  <2>5. \A q \in Made : pay[q].num \in 1..counter
    BY DEF Numbered
  <2>6. \A q, r \in Made' : pay'[q].num = pay'[r].num => q = r
    BY <1>a, <2>3, <2>4, <2>5 DEF Numbered
  <2>7. \A q \in Made' : pay'[q].num \in 1..counter'
    BY <1>a, <1>2, <2>3, <2>4, <2>5
  <2>8. \A n \in 1..counter' : \E q \in Made' : pay'[q].num = n
    <3> SUFFICES ASSUME NEW n \in 1..counter' PROVE \E q \in Made' : pay'[q].num = n
      OBVIOUS
    <3>1. CASE n = counter + 1
      BY <2>3, <2>4, <3>1
    <3>2. CASE n # counter + 1
      <4>1. n \in 1..counter
        BY <1>a, <1>2, <3>2
      <4> QED
        BY <2>3, <4>1 DEF Numbered
    <3> QED
      BY <3>1, <3>2
  <2> QED
    BY <1>a, <1>2, <2>2, <2>6, <2>7, <2>8 DEF Numbered
<1>3. ASSUME NEW p \in Payment, pay[p].state # "none",
             pay' = [pay EXCEPT ![p].state = "voided"], counter' = counter
      PROVE  PayType' /\ Numbered'
  <2>1. /\ pay'[p] = [pay[p] EXCEPT !.state = "voided"]
        /\ \A q \in Payment \ {p} : pay'[q] = pay[q]
    BY <1>a, <1>3
  <2>2. pay[p] \in PayRow
    BY <1>a
  <2>3. pay'[p] \in PayRow /\ pay'[p].state = "voided" /\ pay'[p].num = pay[p].num
    BY <2>1, <2>2 DEF PayRow
  <2>4. PayType'
    BY <1>a, <1>3, <2>3 DEF PayType
  <2>5. Made' = Made /\ \A q \in Made : pay'[q].num = pay[q].num
    BY <1>3, <2>1, <2>3 DEF Made
  <2> QED
    BY <1>3, <2>4, <2>5 DEF Numbered
<1> QED
  BY <1>1, <1>2, <1>3, CommitPays

(* The other calls still know what they did.                                  *)
LEMMA CommitKnows ==
  ASSUME LockInv, BookInv, NEW s \in Session, Commit(s)
  PROVE  CallsKnow'
<1> USE DEF LockInv
<1>1. tx'[s] = Idle /\ \A u \in Session \ {s} : tx'[u] = tx[u]
  BY GotoChanges DEF Commit, End
<1>2. HoldsInvoice(s)
  BY DEF Commit, HoldsInvoice
<1>3. pay \in [Payment -> PayRow]
  BY DEF BookInv, PayType
<1>4. Knows(tx[s])'
  BY <1>1, LedgerAssumption DEF Knows, Idle
<1>5. ASSUME NEW u \in Session, u # s PROVE Knows(tx[u])'
  <2>1. tx'[u] = tx[u] /\ Knows(tx[u])
    BY <1>1, <1>5 DEF BookInv, CallsKnow
  <2>2. tx[u].pc \notin {"locked", "summed"}
    BY <1>2, <1>5 DEF OneHolder, HoldsInvoice
  <2>3. Inserting(s) => tx[u].num = 0
    BY <1>5 DEF OneInsert, Inserting
  <2>4. CASE pay' = pay /\ counter' = counter
    BY <2>1, <2>2, <2>4 DEF Knows
  <2>5. ASSUME NEW p \in Payment, pay[p].state = "none", Inserting(s),
               pay' = [pay EXCEPT ![p] = [state |-> "recorded", amount |-> tx[s].amount,
                                          num |-> counter + 1]]
        PROVE  Knows(tx[u])'
    <3>1. tx[u].pay # p
      BY <2>1, <2>3, <2>5 DEF Knows
    <3> QED
      BY <1>3, <2>1, <2>2, <2>3, <2>5, <3>1 DEF Knows
  <2>6. ASSUME NEW p \in Payment, pay[p].state # "none",
               pay' = [pay EXCEPT ![p].state = "voided"], counter' = counter
        PROVE  Knows(tx[u])'
    <3>1. \A q \in Payment : pay'[q].state = "none" <=> pay[q].state = "none"
      BY <1>3, <2>6 DEF PayRow
    <3> QED
      BY <2>1, <2>2, <2>6, <3>1 DEF Knows
  <2> QED
    BY <2>4, <2>5, <2>6, CommitPays
<1> QED
  BY <1>4, <1>5 DEF CallsKnow

(* The status a commit derives says how far the invoice is paid.              *)
LEMMA CommitMoney ==
  ASSUME LockInv, SumHolds, BookInv, NEW s \in Session, Commit(s)
  PROVE  /\ Money'
         /\ inv.status = "paid" /\ inv'.status # "paid" => inv'.paid < inv.paid
<1>1. tx[s].pc = "summed" /\ tx[s].sum <= Total /\ pay' = Written(s)
  BY DEF Commit, Fits
<1>2. PayType'
  BY CommitNumbers
<1>3. tx[s].sum \in Nat
  BY <1>1, <1>2, LiveIsNat DEF SumHolds, PayType
<1>4. tx[s].status = inv.status
  BY <1>1 DEF BookInv, CallsKnow, Knows
<1>5. inv'.paid = tx[s].sum /\ inv'.status = DerivedStatus(inv.status, tx[s].sum)
  BY <1>4 DEF Commit
<1>6. Money'
  BY <1>1, <1>3, <1>5, LedgerAssumption DEF Money, DerivedStatus, Derived
<1>7. ASSUME inv.status = "paid", inv'.status # "paid" PROVE inv'.paid < inv.paid
  <2>1. inv.paid = Total
    BY <1>7 DEF BookInv, Money
  <2>2. tx[s].sum < Total
    BY <1>3, <1>5, <1>7, LedgerAssumption DEF DerivedStatus, Derived
  <2> QED
    BY <1>5, <2>1, <2>2
<1> QED
  BY <1>6, <1>7

LEMMA BookNext ==
  ASSUME LedgerInv, BookInv, [Next]_vars
  PROVE  BookInv'
<1> USE DEF LedgerInv
<1>1. CASE Next
  <2>1. PICK s \in Session : Load(s) \/ Write(s) \/ Disconnect(s)
    BY <1>1 DEF Next
  <2>2. CASE Commit(s)
    BY <2>2, CommitNumbers, CommitKnows, CommitMoney DEF BookInv
  <2>3. CASE WriteStatus(s)
    BY <2>3, BookWriteStatus
  <2>4. CASE ~Commit(s) /\ ~WriteStatus(s)
    <3>1. \/ Load(s) \/ Settle(s) \/ Void(s) \/ \E p \in Payment : Insert(s, p)
          \/ Lock(s) \/ SumUp(s) \/ Overpaid(s) \/ Disconnect(s)
      BY <2>1, <2>4 DEF Write
    <3> QED
      BY <3>1, BookOther
  <2> QED
    BY <2>2, <2>3, <2>4
<1>2. CASE UNCHANGED vars
  BY <1>2 DEF vars, BookInv, PayType, CallsKnow, Knows, Numbered, Made, Money
<1> QED
  BY <1>1, <1>2

LEMMA BookAlways == Spec => [](LedgerInv /\ BookInv)
<1>1. Init => LedgerInv /\ BookInv
  BY LedgerInvInit, BookInit
<1>2. LedgerInv /\ BookInv /\ [Next]_vars => (LedgerInv /\ BookInv)'
  BY LedgerInvNext, BookNext
<1> QED
  BY <1>1, <1>2, PTL DEF Spec

(* Concurrent payments that each fit the balance they read never exceed the   *)
(* invoice together: the trigger sums up under the invoice's lock.            *)
THEOREM LedgerNeverOverpaid == Spec => []NeverOverpaid
<1>1. LedgerInv /\ BookInv => NeverOverpaid
  BY DEF LedgerInv, LedgerInStep, BookInv, Money, NeverOverpaid
<1> QED
  BY <1>1, BookAlways, PTL

(* An invoice says it is paid, or partly paid, only when its ledger does.     *)
THEOREM LedgerBacksPaid == Spec => []PaidIsBacked
<1>1. LedgerInv /\ BookInv => PaidIsBacked
  BY DEF LedgerInv, LedgerInStep, BookInv, Money, PaidIsBacked
<1> QED
  BY <1>1, BookAlways, PTL

(* Payment numbers have neither duplicates nor gaps, whatever transactions    *)
(* are rolled back: a number is drawn for good by the commit alone.           *)
THEOREM LedgerNumbersConsecutive == Spec => []NumbersConsecutive
<1>1. BookInv => NumbersConsecutive
  <2> SUFFICES ASSUME BookInv PROVE NumbersConsecutive
    OBVIOUS
  <2> USE DEF BookInv, Numbered
  <2> DEFINE f == [p \in Made |-> pay[p].num]
  <2>1. f \in Injection(Made, 1..counter)
    BY DEF Injection, IsInjective
  <2>2. f \in Surjection(Made, 1..counter)
    BY DEF Surjection
  <2>3. IsFiniteSet(1..counter) /\ Cardinality(1..counter) = counter
    BY FS_Interval
  <2> HIDE DEF f
  <2>4. Cardinality(Made) = counter
    BY <2>1, <2>2, <2>3, FS_Injection
  <2>5. {pay[p].num : p \in Made} = 1..counter
    OBVIOUS
  <2> QED
    BY <2>4, <2>5 DEF NumbersConsecutive, Made
<1> QED
  BY <1>1, BookAlways, PTL

(* A paid invoice stops being paid only when a payment is voided: approvals   *)
(* and sendings that read it earlier do not overwrite the status.             *)
THEOREM LedgerPaidUntilVoided == Spec => PaidUntilVoided
<1>1. LedgerInv /\ BookInv /\ LedgerInStep' /\ [Next]_vars =>
        (inv.status = "paid" /\ inv'.status # "paid" => Live(pay') < Live(pay))
  <2> SUFFICES ASSUME LedgerInv, BookInv, LedgerInStep', Next,
                      inv.status = "paid", inv'.status # "paid"
               PROVE  inv'.paid < inv.paid
    BY DEF vars, LedgerInv, LedgerInStep
  <2>1. PICK s \in Session : Load(s) \/ Write(s) \/ Disconnect(s)
    BY DEF Next
  <2>2. CASE Commit(s)
    BY <2>2, CommitMoney DEF LedgerInv
  <2>3. CASE ~Commit(s)
    <3>1. inv' = inv
      BY <2>1, <2>3 DEF Load, LoadRecord, LoadSettle, LoadVoid, LoadStatus, Write, Settle, Void,
         Insert, Lock, SumUp, Overpaid, WriteStatus, Derived, Disconnect
    <3> QED
      BY <3>1
  <2> QED
    BY <2>2, <2>3
<1>2. LedgerInv => LedgerInStep
  BY DEF LedgerInv
<1> QED
  BY <1>1, <1>2, BookAlways, PTL DEF PaidUntilVoided, Spec

------------------------------------------------------------------------------
(* Goods receipts.                                                            *)
GrnRow == [status : {"none", "draft"} \cup ConfirmedStatus, lines : Payloads \cup {<<>>},
           num : Nat]

OrderStatus == Receivable \cup {"received"}

GrnCall ==
  [pc : {"idle", "save", "confirm", "saveChecked", "confirmChecked", "numbered", "saved"},
   grn : Receipt \cup {0}, lines : Payloads \cup {<<>>},
   po : OrderStatus, got : [Line -> Nat], num : Nat, tries : Nat]

(* What a receipt's lines bring to an order's line is a number.               *)
LEMMA QtyIsNat ==
  ASSUME NEW lines \in Payloads \cup {<<>>}, NEW l \in Line
  PROVE  Qty(lines, l) \in Nat
<1> DEFINE D == DOMAIN lines
           g == [k \in D |-> IF lines[k].line = l THEN lines[k].qty ELSE 0]
           Body(f, s) == IF s = {} THEN 0
                         ELSE LET x == CHOOSE x \in s : TRUE
                              IN IF lines[x].line = l THEN f[s \ {x}] + lines[x].qty ELSE f[s \ {x}]
           iter == CHOOSE f : f = [s \in SUBSET D |-> Body(f, s)]
<1>1. Qty(lines, l) = iter[D]
  BY DEF Qty, FoldSeq, FoldFunction, FoldFunctionOnSet, MapThenFoldSet
<1> DEFINE Item == [line : Line, qty : Nat, ok : BOOLEAN]
<1>a. lines \in Seq(Item)
  <2>1. Payloads \subseteq Seq(Item)
    BY ReceiptAssumption
  <2> HIDE DEF Item
  <2>2. <<>> \in Seq(Item)
    OBVIOUS
  <2> QED
    BY <2>1, <2>2
<1>b. IsFiniteSet(D)
  <2> HIDE DEF Item
  <2> QED
    BY <1>a, FS_Interval
<1>c. \A k \in D : lines[k].qty \in Nat
  <2>1. \A k \in D : lines[k] \in Item
    <3> HIDE DEF Item
    <3> QED
      BY <1>a
  <2> QED
    BY <2>1
<1>2. g \in [D -> Nat]
  BY <1>c
<1>3. PICK f \in [SUBSET D -> Nat] : IsFold(f, g, D)
  <2> HIDE DEF g, D
  <2> QED
    BY <1>b, <1>2, FoldExists
<1>4. ASSUME NEW s \in SUBSET D PROVE f[s] = Body(f, s)
  <2>1. f[s] = Fold(f, g, s)
    BY <1>3 DEF IsFold
  <2>2. CASE s = {}
    BY <2>1, <2>2 DEF Fold
  <2>3. CASE s # {}
    <3>1. Chosen(s) \in s /\ f[s \ {Chosen(s)}] \in Nat
      BY <2>3, ChosenIn
    <3>2. g[Chosen(s)] = IF lines[Chosen(s)].line = l THEN lines[Chosen(s)].qty ELSE 0
      BY <3>1
    <3>3. lines[Chosen(s)].qty \in Nat
      BY <1>c, <3>1
    <3>4. f[s] = g[Chosen(s)] + f[s \ {Chosen(s)}]
      BY <2>1, <2>3 DEF Fold
    <3> HIDE DEF g
    <3>5. f[s] = IF lines[Chosen(s)].line = l THEN f[s \ {Chosen(s)}] + lines[Chosen(s)].qty
                 ELSE f[s \ {Chosen(s)}]
      BY <3>1, <3>2, <3>3, <3>4
    <3> QED
      BY <2>3, <3>5 DEF Chosen
  <2> QED
    BY <2>2, <2>3
<1> HIDE DEF g
<1>5. f = [s \in SUBSET D |-> Body(f, s)]
  <2> HIDE DEF Body
  <2> QED
    BY <1>4
<1>6. iter = [s \in SUBSET D |-> Body(iter, s)]
  <2> HIDE DEF Body
  <2> QED
    BY <1>5
<1> HIDE DEF iter
<1> DEFINE Bad == {s \in SUBSET D : iter[s] \notin Nat}
<1>7. Bad = {}
  <2> SUFFICES ASSUME Bad # {} PROVE FALSE
    OBVIOUS
  <2>1. PICK s \in Bad : \A t \in SUBSET D : Cardinality(t) < Cardinality(s) => t \notin Bad
    <3>1. Bad \subseteq SUBSET D
      OBVIOUS
    <3> HIDE DEF Bad
    <3> QED
      BY <1>b, <3>1, SmallestSet
  <2>2. iter[s] = Body(iter, s) /\ s \in SUBSET D
    <3> HIDE DEF Body
    <3> QED
      BY <1>6
  <2>3. CASE s = {}
    BY <2>1, <2>2, <2>3
  <2>4. CASE s # {}
    <3> DEFINE x == Chosen(s)
    <3>1. x \in s /\ x \in D
      BY <2>4, ChosenIn
    <3>2. s \ {x} \in SUBSET D /\ Cardinality(s \ {x}) < Cardinality(s)
      <4> HIDE DEF x, D
      <4> QED
        BY <1>b, <3>1, TakeOut
    <3>3. iter[s \ {x}] \in Nat
      BY <2>1, <3>2
    <3>4. iter[s] = IF lines[x].line = l THEN iter[s \ {x}] + lines[x].qty ELSE iter[s \ {x}]
      BY <2>2, <2>4 DEF Chosen
    <3>5. lines[x].qty \in Nat
      BY <1>c, <3>1
    <3> HIDE DEF x
    <3>6. iter[s] \in Nat
      BY <3>3, <3>4, <3>5
    <3> QED
      BY <3>6
  <2> QED
    BY <2>3, <2>4
<1> QED
  BY <1>1, <1>7

Entered(x, C) == \A r \in C : x[r].lines \in Payloads \cup {<<>>}

(* Functions that agree on a set add up to the same on it.                    *)
Agree(g, h, s) == \A x \in s : g[x] = h[x]

Totals(f, g, S) == g \in [S -> Nat] /\ AddsUp(f, g, S)

LEMMA SumsAgree ==
  ASSUME NEW s, NEW S, NEW f, NEW g, Totals(f, g, s), NEW k, NEW h, Totals(k, h, S),
         s \in SUBSET S, IsFiniteSet(s), Agree(g, h, s)
  PROVE  f[s] = k[s]
<1>0. g \in [s -> Nat] /\ h \in [S -> Nat] /\ AddsUp(f, g, s) /\ AddsUp(k, h, S)
  BY DEF Totals
<1>1. \A x \in s : g[x] <= h[x] /\ h[x] <= g[x]
  <2> TAKE x \in s
  <2>1. g[x] = h[x] /\ g[x] \in Nat
    BY <1>0 DEF Agree
  <2> QED
    BY <2>1
<1>2. f[s] <= k[s]
  BY <1>0, <1>1, SumsCompare
<1>3. k[s] <= f[s]
  BY <1>0, <1>1, SumsCompare
<1>4. f[s] \in Nat /\ k[s] \in Nat
  BY <1>0 DEF AddsUp
<1> QED
  BY <1>2, <1>3, <1>4

(* What the receipts of a set bring to a line, with the lines they have in x. *)
Brings(x, C, l) == [r \in C |-> Qty(x[r].lines, l)]

Brought(x, C, l) == MapThenSumSet(LAMBDA r : Qty(x[r].lines, l), C)

LEMMA BroughtAddsUp ==
  ASSUME NEW C, IsFiniteSet(C), NEW l \in Line,
         NEW x, Entered(x, C)
  PROVE  /\ Brings(x, C, l) \in [C -> Nat]
         /\ \E f : AddsUp(f, Brings(x, C, l), C) /\ Brought(x, C, l) = f[C]
<1> DEFINE Body(f, s) == IF s = {} THEN 0
                         ELSE LET r == CHOOSE r \in s : TRUE
                              IN Qty(x[r].lines, l) + f[s \ {r}]
           iter == CHOOSE f : f = [s \in SUBSET C |-> Body(f, s)]
<1>1. Brought(x, C, l) = iter[C]
  BY DEF Brought, MapThenSumSet, MapThenFoldSet
<1>2. ASSUME NEW f, NEW s \in SUBSET C PROVE Body(f, s) = Fold(f, Brings(x, C, l), s)
  <2>1. CASE s = {}
    BY <2>1 DEF Fold
  <2>2. CASE s # {}
    <3>1. Chosen(s) \in C
      BY <2>2, ChosenIn
    <3> QED
      BY <2>2, <3>1 DEF Fold, Brings, Chosen
  <2> QED
    BY <2>1, <2>2
<1> HIDE DEF Body
<1>3. Brings(x, C, l) \in [C -> Nat]
  BY QtyIsNat DEF Brings, Entered
<1>4. PICK g \in [C -> Nat] : g = Brings(x, C, l)
  BY <1>3
<1>5. PICK f : IsFold(f, g, C)
  <2>1. \E f \in [SUBSET C -> Nat] : IsFold(f, g, C)
    BY FoldExists
  <2> QED
    BY <2>1
<1>6. f = [s \in SUBSET C |-> Body(f, s)]
  BY <1>2, <1>4, <1>5 DEF IsFold
<1>7. iter = [s \in SUBSET C |-> Body(iter, s)]
  BY <1>6
<1> HIDE DEF iter
<1>8. IsFold(iter, g, C)
  BY <1>2, <1>4, <1>7 DEF IsFold
<1> QED
  BY <1>1, <1>3, <1>4, <1>8, FoldAddsUp

(* It is a number, ...                                                        *)
LEMMA BroughtIsNat ==
  ASSUME NEW C, IsFiniteSet(C), NEW l \in Line,
         NEW x, Entered(x, C)
  PROVE  Brought(x, C, l) \in Nat
<1>1. PICK f : AddsUp(f, Brings(x, C, l), C) /\ Brought(x, C, l) = f[C]
  BY BroughtAddsUp
<1>2. f \in [SUBSET C -> Nat]
  BY <1>1 DEF AddsUp
<1> QED
  BY <1>1, <1>2

SameLines(x, y, C) == \A r \in C : y[r].lines = x[r].lines

(* ... that depends on the lines of these receipts alone, ...                 *)
LEMMA BroughtSame ==
  ASSUME NEW C, IsFiniteSet(C), NEW l \in Line,
         NEW x, Entered(x, C),
         NEW y, SameLines(x, y, C)
  PROVE  Brought(y, C, l) = Brought(x, C, l)
<1>0. Entered(y, C)
  BY DEF Entered, SameLines
<1>1. PICK f : AddsUp(f, Brings(x, C, l), C) /\ Brought(x, C, l) = f[C]
  BY BroughtAddsUp
<1>2. PICK h : AddsUp(h, Brings(y, C, l), C) /\ Brought(y, C, l) = h[C]
  BY <1>0, BroughtAddsUp
<1>3. Brings(y, C, l) = Brings(x, C, l)
  BY DEF Brings, SameLines
<1>4. Brings(x, C, l) \in [C -> Nat] /\ Brings(y, C, l) \in [C -> Nat]
  BY <1>3, BroughtAddsUp
<1>5. Agree(Brings(y, C, l), Brings(x, C, l), C)
  BY <1>3 DEF Agree
<1>6. h[C] = f[C]
  <2>1. Totals(f, Brings(x, C, l), C) /\ Totals(h, Brings(y, C, l), C)
    BY <1>1, <1>2, <1>4 DEF Totals
  <2>2. C \in SUBSET C
    OBVIOUS
  <2> QED
    BY <2>1, <2>2, <1>5, SumsAgree
<1> QED
  BY <1>1, <1>2, <1>6

Adds(x, C, y, D, q, l) == Brought(y, D, l) = Brought(x, C, l) + Qty(y[q].lines, l)

OneMore(C, q, D) == q \notin C /\ D = C \cup {q}

(* ... and to which one more receipt adds what it brings.                     *)
LEMMA BroughtMore ==
  ASSUME NEW C, IsFiniteSet(C), NEW l \in Line,
         NEW x, Entered(x, C),
         NEW y, SameLines(x, y, C),
         NEW q, NEW D, OneMore(C, q, D), Entered(y, D)
  PROVE  Adds(x, C, y, D, q, l)
<1>1. IsFiniteSet(D) /\ Entered(y, D)
  BY FS_AddElement DEF OneMore
<1>2. PICK f : AddsUp(f, Brings(x, C, l), C) /\ Brought(x, C, l) = f[C]
  BY BroughtAddsUp
<1>3. PICK h : AddsUp(h, Brings(y, D, l), D) /\ Brought(y, D, l) = h[D]
  BY <1>1, BroughtAddsUp
<1>4. Brings(x, C, l) \in [C -> Nat] /\ Brings(y, D, l) \in [D -> Nat]
  BY <1>1, BroughtAddsUp
<1>5. Agree(Brings(x, C, l), Brings(y, D, l), C)
  BY DEF Brings, Agree, SameLines, OneMore
<1>6. Brings(y, D, l)[q] = Qty(y[q].lines, l)
  BY DEF Brings, OneMore
<1>7. C \in SUBSET D /\ D \in SUBSET D /\ q \in D /\ D \ {q} = C
  BY DEF OneMore
<1>8. h[D] = Qty(y[q].lines, l) + h[C]
  <2>1. h[D] = Brings(y, D, l)[q] + h[D \ {q}]
    BY <1>3, <1>7 DEF AddsUp
  <2> QED
    BY <2>1, <1>6, <1>7
<1>9. h[C] = f[C] /\ f[C] \in Nat
  <2>1. h[C] = f[C]
    <3>1. Totals(f, Brings(x, C, l), C) /\ Totals(h, Brings(y, D, l), D)
      BY <1>2, <1>3, <1>4 DEF Totals
    <3> QED
      BY <3>1, <1>5, <1>7, SumsAgree
  <2>2. f[C] \in Nat
    BY <1>2 DEF AddsUp
  <2> QED
    BY <2>1, <2>2
<1>10. Qty(y[q].lines, l) \in Nat
  <2>1. y[q].lines \in Payloads \cup {<<>>}
    BY <1>7 DEF Entered
  <2> QED
    BY <2>1, QtyIsNat
<1> QED
  BY <1>2, <1>3, <1>8, <1>9, <1>10 DEF Adds

(* What the confirmed receipts among rows x bring to a line.                  *)
ConfirmedIn(x) == {r \in Receipt : x[r].status \in ConfirmedStatus}

ReceivedIn(x, l) == Brought(x, ConfirmedIn(x), l)

LEMMA ReceivedNow ==
  ASSUME NEW l \in Line
  PROVE  Received[l] = ReceivedIn(grn, l) /\ Received'[l] = ReceivedIn(grn', l)
<1>1. Received = [k \in Line |-> Brought(grn, Confirmed, k)]
  BY DEF Received, Brought
<1>2. Received' = [k \in Line |-> Brought(grn', Confirmed', k)]
  <2>1. (Received = [k \in Line |-> Brought(grn, Confirmed, k)])'
    BY <1>1, PTL
  <2> QED
    BY <2>1
<1>3. Confirmed = ConfirmedIn(grn) /\ Confirmed' = ConfirmedIn(grn')
  BY DEF Confirmed, ConfirmedIn, ConfirmedStatus
<1> QED
  BY <1>1, <1>2, <1>3 DEF ReceivedIn

GrnRows == [Receipt -> GrnRow]

LEMMA ConfirmedEntered ==
  ASSUME NEW x \in GrnRows
  PROVE  IsFiniteSet(ConfirmedIn(x)) /\ Entered(x, ConfirmedIn(x))
<1>1. ConfirmedIn(x) \in SUBSET Receipt /\ IsFiniteSet(Receipt)
  BY ReceiptAssumption DEF ConfirmedIn
<1>2. Entered(x, ConfirmedIn(x))
  <2>1. \A r \in Receipt : x[r].lines \in Payloads \cup {<<>>}
    BY DEF GrnRows, GrnRow
  <2> QED
    BY <1>1, <2>1 DEF Entered
<1> QED
  BY <1>1, <1>2, FS_Subset

LEMMA ReceivedIsNat ==
  ASSUME NEW x \in GrnRows, NEW l \in Line
  PROVE  ReceivedIn(x, l) \in Nat
BY ConfirmedEntered, BroughtIsNat DEF ReceivedIn

(* Rows of the same confirmed receipts, with the same lines, bring the same.  *)
LEMMA ReceivedSame ==
  ASSUME NEW x \in GrnRows, NEW y, ConfirmedIn(y) = ConfirmedIn(x),
         SameLines(x, y, ConfirmedIn(x)), NEW l \in Line
  PROVE  ReceivedIn(y, l) = ReceivedIn(x, l)
BY ConfirmedEntered, BroughtSame DEF ReceivedIn

Elsewhere(x, y, q) == \A r \in Receipt \ {q} : y[r] = x[r]

(* A draft that is confirmed adds what its lines bring.                       *)
LEMMA ReceivedMore ==
  ASSUME NEW x \in GrnRows, NEW y \in GrnRows,
         NEW q \in Receipt, x[q].status = "draft", y[q].status \in ConfirmedStatus,
         Elsewhere(x, y, q), NEW l \in Line
  PROVE  Adds(x, ConfirmedIn(x), y, ConfirmedIn(y), q, l)
<1>0. \A r \in Receipt \ {q} : y[r] = x[r]
  BY DEF Elsewhere
<1>1. OneMore(ConfirmedIn(x), q, ConfirmedIn(y))
  BY <1>0 DEF OneMore, ConfirmedIn, ConfirmedStatus
<1>2. SameLines(x, y, ConfirmedIn(x))
  <2>1. \A r \in ConfirmedIn(x) : r \in Receipt \ {q}
    BY DEF ConfirmedIn, ConfirmedStatus
  <2> QED
    BY <1>0, <2>1 DEF SameLines
<1>3. Entered(y, ConfirmedIn(y))
  BY ConfirmedEntered
<1>4. IsFiniteSet(ConfirmedIn(x)) /\ Entered(x, ConfirmedIn(x))
  BY ConfirmedEntered
<1> QED
  BY <1>1, <1>2, <1>3, <1>4, BroughtMore

(* A finite set of numbers that is not empty has a greatest one.              *)
LEMMA GreatestNumber ==
  ASSUME NEW S, S \subseteq Nat, IsFiniteSet(S), S # {}
  PROVE  \E n \in S : \A m \in S : n >= m
<1> DEFINE Bad == {t \in SUBSET S : t # {} /\ ~ \E n \in t : \A m \in t : n >= m}
<1>1. Bad = {}
  <2> SUFFICES ASSUME Bad # {} PROVE FALSE
    OBVIOUS
  <2>1. PICK t \in Bad : \A u \in SUBSET S : Cardinality(u) < Cardinality(t) => u \notin Bad
    <3>1. Bad \subseteq SUBSET S
      OBVIOUS
    <3> HIDE DEF Bad
    <3> QED
      BY <3>1, SmallestSet
  <2>2. PICK x \in t : TRUE
    OBVIOUS
  <2> DEFINE u == t \ {x}
  <2>3. u \in SUBSET S /\ u \notin Bad
    BY <2>1, TakeOut
  <2>4. CASE u = {}
    <3>1. \A m \in t : x >= m
      BY <2>4
    <3> QED
      BY <2>1, <3>1
  <2>5. CASE u # {}
    <3>1. PICK n \in u : \A m \in u : n >= m
      BY <2>3, <2>5
    <3>2. x \in Nat /\ n \in Nat /\ n \in t
      BY <2>1
    <3>3. CASE n >= x
      BY <2>1, <3>1, <3>2, <3>3
    <3>4. CASE ~(n >= x)
      <4>1. \A m \in t : x >= m
        BY <2>1, <3>1, <3>2, <3>4
      <4> QED
        BY <2>1, <4>1
    <3> QED
      BY <3>3, <3>4
  <2> QED
    BY <2>4, <2>5
<1> QED
  BY <1>1

LEMMA HighestNumber ==
  ASSUME grn \in GrnRows, Receipt # {}
  PROVE  Max(Numbers) \in Nat
<1> DEFINE f == [r \in Receipt |-> grn[r].num]
<1>1. Numbers \subseteq Nat /\ Numbers # {}
  BY DEF Numbers, GrnRows, GrnRow
<1>2. f \in Surjection(Receipt, Numbers)
  BY DEF Surjection, Numbers
<1>3. IsFiniteSet(Numbers)
  <2> HIDE DEF f
  <2>1. IsFiniteSet(Receipt)
    BY ReceiptAssumption
  <2> QED
    BY <1>2, <2>1, FS_Surjection
<1>4. \E n \in Numbers : \A m \in Numbers : n >= m
  BY <1>1, <1>3, GreatestNumber
<1> QED
  BY <1>1, <1>4 DEF Max

(* The rows and the calls are of their types, a call that is under way has a  *)
(* receipt, and numbers are not used twice.                                   *)
GrnType ==
  /\ po \in OrderStatus
  /\ grn \in GrnRows
  /\ call \in [Caller -> GrnCall]
  /\ \A s \in Caller : call[s].pc # "idle" => call[s].grn \in Receipt
  /\ rewritten \subseteq Receipt
  /\ DistinctNumbers

(* What a call has counted, with its own receipt once that is confirmed, the  *)
(* confirmed receipts do bring, and an order that is received they cover.     *)
Counted(c, l) == IF c.pc = "saved" THEN c.got[l] + Qty(c.lines, l) ELSE c.got[l]

Backed ==
  /\ \A s \in Caller : \A l \in Line : Counted(call[s], l) <= ReceivedIn(grn, l)
  /\ po = "received" => \A l \in Line : ReceivedIn(grn, l) >= Ordered[l]

LEMMA GrnIdle ==
  NoCall \in GrnCall /\ NoCall.pc = "idle" /\ \A l \in Line : NoCall.got[l] = 0
BY DEF NoCall, GrnCall, OrderStatus, Receivable

LEMMA GrnMoves ==
  ASSUME GrnType, NEW s \in Caller, NEW c \in GrnCall, GrnGoto(s, c)
  PROVE  /\ call' \in [Caller -> GrnCall] /\ call'[s] = c
         /\ \A t \in Caller \ {s} : call'[t] = call[t]
BY DEF GrnType, GrnGoto

LEMMA GrnInvInit ==
  ASSUME GrnInit
  PROVE  GrnType /\ Backed
<1>1. grn \in GrnRows /\ \A r \in Receipt : grn[r].status = "none"
  BY DEF GrnInit, GrnRows, GrnRow
<1>2. call \in [Caller -> GrnCall] /\ \A s \in Caller : call[s] = NoCall
  BY GrnIdle DEF GrnInit
<1>3. Confirmed = {}
  BY <1>1 DEF Confirmed, ConfirmedStatus
<1>4. GrnType
  <2>1. po \in OrderStatus /\ rewritten \subseteq Receipt
    BY DEF GrnInit, OrderStatus, Receivable
  <2> QED
    BY <1>1, <1>2, <1>3, <2>1, GrnIdle DEF GrnType, DistinctNumbers
<1>6. ASSUME NEW s \in Caller, NEW l \in Line PROVE Counted(call[s], l) <= ReceivedIn(grn, l)
  <2>1. Counted(call[s], l) = 0
    BY <1>2, GrnIdle DEF Counted
  <2>2. ReceivedIn(grn, l) \in Nat
    BY <1>1, ReceivedIsNat
  <2> QED
    BY <2>1, <2>2
<1>7. po # "received"
  BY DEF GrnInit
<1> QED
  BY <1>4, <1>6, <1>7 DEF Backed

LEMMA CountedIsNat ==
  ASSUME NEW c \in GrnCall, NEW l \in Line
  PROVE  Counted(c, l) \in Nat
<1>1. c.got \in [Line -> Nat] /\ c.lines \in Payloads \cup {<<>>}
  BY DEF GrnCall
<1>2. Qty(c.lines, l) \in Nat
  BY <1>1, QtyIsNat
<1> QED
  BY <1>1, <1>2 DEF Counted

(* A step after which the confirmed receipts bring no less backs what it      *)
(* backed.                                                                    *)
LEMMA BackedKept ==
  ASSUME GrnType, GrnType', Backed, NEW s \in Caller, NEW c \in GrnCall,
         GrnGoto(s, c),
         \A l \in Line : ReceivedIn(grn, l) <= ReceivedIn(grn', l),
         \A l \in Line : Counted(c, l) <= ReceivedIn(grn', l),
         po' = "received" => po = "received" \/ \A l \in Line : ReceivedIn(grn', l) >= Ordered[l]
  PROVE  Backed'
<1>1. call'[s] = c /\ \A t \in Caller \ {s} : call'[t] = call[t]
  BY GrnMoves
<1>2. \A l \in Line : ReceivedIn(grn, l) \in Nat /\ ReceivedIn(grn', l) \in Nat
  BY ReceivedIsNat DEF GrnType
<1>3. ASSUME NEW t \in Caller, NEW l \in Line
      PROVE  Counted(call'[t], l) <= ReceivedIn(grn', l)
  <2>1. CASE t = s
    BY <1>1, <2>1
  <2>2. CASE t # s
    <3>1. Counted(call'[t], l) <= ReceivedIn(grn, l)
      BY <1>1, <2>2 DEF Backed
    <3>2. Counted(call'[t], l) \in Nat
      BY CountedIsNat DEF GrnType
    <3>3. ReceivedIn(grn, l) <= ReceivedIn(grn', l)
      OBVIOUS
    <3> QED
      BY <1>2, <3>1, <3>2, <3>3
  <2> QED
    BY <2>1, <2>2
<1>4. ASSUME po' = "received", NEW l \in Line
      PROVE  ReceivedIn(grn', l) >= Ordered[l]
  <2>1. CASE po = "received"
    <3>1. ReceivedIn(grn, l) >= Ordered[l] /\ ReceivedIn(grn, l) <= ReceivedIn(grn', l)
      BY <2>1 DEF Backed
    <3>2. Ordered[l] \in Nat
      BY ReceiptAssumption
    <3> QED
      BY <1>2, <3>1, <3>2
  <2>2. CASE po # "received"
    BY <1>4, <2>2
  <2> QED
    BY <2>1, <2>2
<1> QED
  BY <1>3, <1>4 DEF Backed

(* What a rewritten receipt takes away nobody takes off the order again.      *)
GrnInv == GrnType /\ (rewritten = {} => Backed)

(* A step of a call that changes no row and stays with its receipt.           *)
LEMMA QuietStep ==
  ASSUME GrnInv, NEW s \in Caller, NEW c \in GrnCall, GrnGoto(s, c),
         grn' = grn, rewritten' = rewritten, po' \in OrderStatus,
         c.pc # "idle" => c.grn \in Receipt,
         Backed => \A l \in Line : Counted(c, l) <= ReceivedIn(grn, l),
         Backed /\ po' = "received" =>
           po = "received" \/ \A l \in Line : ReceivedIn(grn', l) >= Ordered[l]
  PROVE  GrnInv'
<1> USE DEF GrnInv
<1>1. call'[s] = c /\ \A t \in Caller \ {s} : call'[t] = call[t]
  BY GrnMoves
<1>2. GrnType'
  <2>1. DistinctNumbers'
    BY DEF GrnType, DistinctNumbers, Confirmed
  <2>2. \A t \in Caller : call'[t].pc # "idle" => call'[t].grn \in Receipt
    BY <1>1 DEF GrnType
  <2>3. grn' \in GrnRows /\ call' \in [Caller -> GrnCall]
    BY GrnMoves DEF GrnType
  <2> QED
    BY <2>1, <2>2, <2>3 DEF GrnType
<1>3. ASSUME rewritten' = {} PROVE Backed'
  <2>2. \A l \in Line : ReceivedIn(grn, l) \in Nat
    BY ReceivedIsNat DEF GrnType
  <2>3. \A l \in Line : ReceivedIn(grn, l) <= ReceivedIn(grn', l)
    BY <2>2
  <2>4. \A l \in Line : Counted(c, l) <= ReceivedIn(grn', l)
    BY <1>3
  <2> QED
    BY <1>2, <1>3, <2>3, <2>4, BackedKept
<1> QED
  BY <1>2, <1>3

(* A call has at most counted what the confirmed receipts bring, or nothing.  *)
LEMMA CountedNow ==
  ASSUME GrnType, NEW s \in Caller
  PROVE  /\ \A l \in Line : Counted(NoCall, l) <= ReceivedIn(grn, l)
         /\ Backed => \A l \in Line : Counted(call[s], l) <= ReceivedIn(grn, l)
<1>1. \A l \in Line : ReceivedIn(grn, l) \in Nat
  BY ReceivedIsNat DEF GrnType
<1>2. \A l \in Line : Counted(NoCall, l) = 0
  BY GrnIdle DEF Counted
<1>3. \A l \in Line : Counted(NoCall, l) <= ReceivedIn(grn, l)
  BY <1>1, <1>2
<1> QED
  BY <1>3 DEF Backed

(* A call that ends without a write leaves everything as it is.               *)
LEMMA EndStep ==
  ASSUME GrnInv, NEW s \in Caller, GrnGoto(s, NoCall),
         grn' = grn, po' = po, rewritten' = rewritten
  PROVE  GrnInv'
<1>1. GrnType /\ po' \in OrderStatus
  BY DEF GrnInv, GrnType
<1>2. \A l \in Line : Counted(NoCall, l) <= ReceivedIn(grn, l)
  BY <1>1, CountedNow
<1> QED
  BY <1>1, <1>2, GrnIdle, QuietStep

LEMMA CheckStep ==
  ASSUME GrnInv, NEW s \in Caller, NEW op, NEW next,
         \/ op = "save" /\ next = "saveChecked"
         \/ op = "confirm" /\ next = "confirmChecked",
         Check(s, op, next)
  PROVE  GrnInv'
<1> DEFINE c == [call[s] EXCEPT !.pc = next, !.got = Received]
<1>1. /\ GrnType /\ call[s] \in GrnCall /\ po' \in OrderStatus
      /\ call[s].grn \in Receipt
  BY DEF GrnInv, GrnType, Check
<1>2. \A l \in Line : Received[l] = ReceivedIn(grn, l) /\ ReceivedIn(grn, l) \in Nat
  BY <1>1, ReceivedNow, ReceivedIsNat DEF GrnType
<1>3. Received \in [Line -> Nat]
  BY <1>2 DEF Received
<1>4. /\ c \in GrnCall /\ c.pc = next /\ c.grn = call[s].grn /\ c.got = Received
  BY <1>1, <1>3 DEF GrnCall
<1>5. GrnGoto(s, c) /\ grn' = grn /\ po' = po /\ rewritten' = rewritten
  BY DEF Check
<1> HIDE DEF c
<1>6. \A l \in Line : Counted(c, l) <= ReceivedIn(grn, l)
  BY <1>2, <1>4 DEF Counted
<1> QED
  BY <1>1, <1>4, <1>5, <1>6, QuietStep

LEMMA PickNumberStep ==
  ASSUME GrnInv, NEW s \in Caller, PickNumber(s)
  PROVE  GrnInv'
<1> DEFINE c == [call[s] EXCEPT !.pc = "numbered", !.num = Max(Numbers) + 1]
<1>1. GrnType /\ call[s] \in GrnCall /\ po' \in OrderStatus /\ call[s].grn \in Receipt
  BY DEF GrnInv, GrnType, PickNumber
<1>2. Max(Numbers) \in Nat
  BY <1>1, HighestNumber DEF GrnType
<1>3. Max(Numbers) + 1 \in Nat
  BY <1>2
<1>4. /\ c \in GrnCall /\ c.pc = "numbered" /\ c.grn = call[s].grn /\ c.got = call[s].got
  BY <1>1, <1>3 DEF GrnCall
<1>5. /\ GrnGoto(s, c) /\ call[s].pc = "confirmChecked"
      /\ grn' = grn /\ po' = po /\ rewritten' = rewritten
  BY DEF PickNumber
<1> HIDE DEF c
<1>6. \A l \in Line : Counted(c, l) = Counted(call[s], l)
  BY <1>4, <1>5 DEF Counted
<1>7. Backed => \A l \in Line : Counted(c, l) <= ReceivedIn(grn, l)
  BY <1>1, <1>6, CountedNow
<1> QED
  BY <1>1, <1>4, <1>5, <1>7, QuietStep

LEMMA ConfirmFailsStep ==
  ASSUME GrnInv, NEW s \in Caller, ConfirmFails(s)
  PROVE  GrnInv'
<1> DEFINE c == [call[s] EXCEPT !.num = @ + 1, !.tries = @ + 1]
<1>1. /\ GrnType /\ call[s] \in GrnCall /\ po' \in OrderStatus
      /\ grn' = grn /\ po' = po /\ rewritten' = rewritten
      /\ call[s].pc = "numbered" /\ call[s].grn \in Receipt
  BY DEF GrnInv, GrnType, ConfirmFails
<1>2. CASE GrnGoto(s, NoCall)
  BY <1>1, <1>2, EndStep
<1>3. CASE GrnGoto(s, c)
  <2>1. /\ c \in GrnCall /\ c.pc = "numbered" /\ c.grn = call[s].grn /\ c.got = call[s].got
    <3>1. call[s].num + 1 \in Nat /\ call[s].tries + 1 \in Nat
      BY <1>1 DEF GrnCall
    <3>2. PICK n \in Nat, m \in Nat : n = call[s].num + 1 /\ m = call[s].tries + 1
      BY <3>1
    <3>3. c = [call[s] EXCEPT !.num = n, !.tries = m]
      BY <3>2
    <3> HIDE DEF c
    <3> QED
      BY <1>1, <3>3 DEF GrnCall
  <2> HIDE DEF c
  <2>2. \A l \in Line : Counted(c, l) = Counted(call[s], l)
    BY <1>1, <2>1 DEF Counted
  <2>3. Backed => \A l \in Line : Counted(c, l) <= ReceivedIn(grn, l)
    BY <1>1, <2>2, CountedNow
  <2> QED
    BY <1>1, <1>3, <2>1, <2>3, QuietStep
<1>4. GrnGoto(s, NoCall) \/ GrnGoto(s, c)
  BY DEF ConfirmFails, GrnGoto
<1> QED
  BY <1>2, <1>3, <1>4

(* The order's status is judged by what the call has counted, which the       *)
(* confirmed receipts bring at least.                                         *)
LEMMA WritePoStep ==
  ASSUME GrnInv, NEW s \in Caller, WritePo(s)
  PROVE  GrnInv'
<1>1. /\ GrnType /\ grn' = grn /\ call[s].pc = "saved" /\ GrnGoto(s, NoCall)
      /\ call[s] \in GrnCall /\ rewritten' = rewritten
  BY DEF GrnInv, GrnType, WritePo
<1>2. po' = po \/ po' = PoStatusAfter(call[s])
  BY DEF WritePo
<1>3. /\ po' \in OrderStatus
      /\ po' = "received" => po = "received" \/ \A l \in Line : Counted(call[s], l) >= Ordered[l]
  BY <1>1, <1>2 DEF PoStatusAfter, Counted, GrnType, OrderStatus, Receivable
<1>4. ASSUME Backed, po' = "received", po # "received", NEW l \in Line
      PROVE  ReceivedIn(grn', l) >= Ordered[l]
  <2>1. Counted(call[s], l) <= ReceivedIn(grn', l) /\ Counted(call[s], l) >= Ordered[l]
    BY <1>1, <1>3, <1>4 DEF Backed
  <2>2. Counted(call[s], l) \in Nat /\ ReceivedIn(grn', l) \in Nat /\ Ordered[l] \in Nat
    BY <1>1, CountedIsNat, ReceivedIsNat, ReceiptAssumption DEF GrnType
  <2> QED
    BY <2>1, <2>2
<1>5. \A l \in Line : Counted(NoCall, l) <= ReceivedIn(grn, l)
  BY <1>1, CountedNow
<1> QED
  BY <1>1, <1>3, <1>4, <1>5, GrnIdle, QuietStep

(* A call that takes up a draft has counted nothing yet.                      *)
LEMMA ReadStep ==
  ASSUME GrnInv, NEW s \in Caller, NEW op \in {"save", "confirm"},
         NEW r \in Receipt, NEW lines \in Payloads, Read(s, op, r, lines)
  PROVE  GrnInv'
<1> DEFINE c == [NoCall EXCEPT !.pc = op, !.grn = r, !.lines = lines, !.po = po]
<1>1. /\ GrnType /\ grn' = grn /\ po' = po /\ rewritten' = rewritten
      /\ po \in OrderStatus /\ GrnGoto(s, c)
  BY DEF GrnInv, GrnType, Read
<1>2. c \in GrnCall /\ c.pc = op /\ c.grn = r /\ c.got = NoCall.got
  <2>1. NoCall \in GrnCall
    BY GrnIdle
  <2> QED
    BY <1>1, <2>1 DEF GrnCall
<1> HIDE DEF c
<1>3. \A l \in Line : Counted(c, l) <= ReceivedIn(grn, l)
  <2>1. \A l \in Line : Counted(NoCall, l) <= ReceivedIn(grn, l)
    BY <1>1, CountedNow
  <2>2. \A l \in Line : Counted(c, l) = Counted(NoCall, l)
    BY <1>2, GrnIdle DEF Counted
  <2> QED
    BY <2>1, <2>2
<1> QED
  BY <1>1, <1>2, <1>3, QuietStep

(* The rows a step leaves: one receipt's row is replaced.                     *)
LEMMA RowReplaced ==
  ASSUME GrnType, NEW r \in Receipt, NEW row \in GrnRow, grn' = [grn EXCEPT ![r] = row]
  PROVE  grn' \in GrnRows /\ grn'[r] = row /\ \A q \in Receipt \ {r} : grn'[q] = grn[q]
BY DEF GrnType, GrnRows

(* Rows in which the same receipts are confirmed, unchanged, keep what is     *)
(* said of them.                                                              *)
LEMMA ConfirmedKept ==
  ASSUME GrnType, grn' \in GrnRows, NEW r \in Receipt,
         grn[r].status \notin ConfirmedStatus, grn'[r].status \notin ConfirmedStatus,
         \A q \in Receipt \ {r} : grn'[q] = grn[q]
  PROVE  /\ DistinctNumbers'
         /\ \A l \in Line : ReceivedIn(grn', l) = ReceivedIn(grn, l) /\ ReceivedIn(grn, l) \in Nat
<1>1. ConfirmedIn(grn') = ConfirmedIn(grn) /\ \A q \in ConfirmedIn(grn) : grn'[q] = grn[q]
  BY DEF ConfirmedIn
<1>2. DistinctNumbers'
  BY <1>1 DEF GrnType, DistinctNumbers, Confirmed, ConfirmedIn, ConfirmedStatus
<1>3. SameLines(grn, grn', ConfirmedIn(grn)) /\ grn \in GrnRows
  BY <1>1 DEF SameLines, GrnType
<1>4. \A l \in Line : ReceivedIn(grn', l) = ReceivedIn(grn, l)
  BY <1>1, <1>3, ReceivedSame
<1> QED
  BY <1>2, <1>3, <1>4, ReceivedIsNat

LEMMA CreateDraftStep ==
  ASSUME GrnInv, NEW r \in Receipt, CreateDraft(r)
  PROVE  GrnInv'
<1> DEFINE row == [grn[r] EXCEPT !.status = "draft"]
<1>1. /\ GrnType /\ grn[r] \in GrnRow /\ grn[r].status = "none" /\ po' = po /\ call' = call
      /\ rewritten' = rewritten /\ grn' = [grn EXCEPT ![r] = row]
  BY DEF GrnInv, GrnType, GrnRows, CreateDraft
<1>2. row \in GrnRow /\ row.status = "draft"
  BY <1>1 DEF GrnRow
<1> HIDE DEF row
<1>3. grn' \in GrnRows /\ grn'[r] = row /\ \A q \in Receipt \ {r} : grn'[q] = grn[q]
  BY <1>1, <1>2, RowReplaced
<1>4. /\ DistinctNumbers'
      /\ \A l \in Line : ReceivedIn(grn', l) = ReceivedIn(grn, l) /\ ReceivedIn(grn, l) \in Nat
  <2>1. grn[r].status \notin ConfirmedStatus /\ grn'[r].status \notin ConfirmedStatus
    BY <1>1, <1>2, <1>3 DEF ConfirmedStatus
  <2> QED
    BY <1>1, <1>3, <2>1, ConfirmedKept
<1>5. GrnType'
  BY <1>1, <1>3, <1>4 DEF GrnType
<1>6. ASSUME rewritten' = {} PROVE Backed'
  BY <1>1, <1>4, <1>6 DEF GrnInv, Backed
<1> QED
  BY <1>5, <1>6 DEF GrnInv

(* What a step leaves of the confirmed receipts (ReceiptStands).              *)
Stands ==
  \A r \in Confirmed :
    /\ grn'[r].status = grn[r].status /\ grn'[r].num = grn[r].num
    /\ grn'[r].lines # grn[r].lines => Saving(r)

(* Only the lines of a row are saved.  That takes nothing from the order      *)
(* unless the receipt has been confirmed, which rewritten records.            *)
LEMMA SaveStep ==
  ASSUME GrnInv, NEW s \in Caller, Save(s)
  PROVE  GrnInv' /\ Stands
<1> DEFINE r == call[s].grn
           row == [grn[r] EXCEPT !.lines = call[s].lines]
<1>1. /\ GrnType /\ call[s].pc = "saveChecked" /\ GrnGoto(s, NoCall) /\ po' = po
      /\ call[s] \in GrnCall /\ r \in Receipt /\ grn[r] \in GrnRow
      /\ grn' = [grn EXCEPT ![r] = row]
      /\ rewritten' = rewritten \cup ({r} \cap Confirmed) /\ rewritten' \subseteq Receipt
  BY DEF GrnInv, GrnType, GrnRows, Save, Confirmed
<1>2. row \in GrnRow /\ row.status = grn[r].status /\ row.num = grn[r].num
  BY <1>1 DEF GrnRow, GrnCall
<1> HIDE DEF row
<1>3. grn' \in GrnRows /\ grn'[r] = row /\ \A q \in Receipt \ {r} : grn'[q] = grn[q]
  <2> HIDE DEF r
  <2> QED
    BY <1>1, <1>2, RowReplaced
<1>4. \A q \in Receipt : grn'[q].status = grn[q].status /\ grn'[q].num = grn[q].num
  BY <1>2, <1>3
<1>5. GrnType'
  <2>1. DistinctNumbers'
    BY <1>1, <1>4 DEF GrnType, DistinctNumbers, Confirmed
  <2>2. /\ call' \in [Caller -> GrnCall] /\ call'[s] = NoCall
        /\ \A t \in Caller \ {s} : call'[t] = call[t]
    BY <1>1, GrnIdle, GrnMoves
  <2>3. \A t \in Caller : call'[t].pc # "idle" => call'[t].grn \in Receipt
    BY <1>1, <2>2, GrnIdle DEF GrnType
  <2> QED
    BY <1>1, <1>3, <2>1, <2>2, <2>3 DEF GrnType
<1>6. ASSUME rewritten' = {} PROVE Backed'
  <2>1. Backed /\ r \notin Confirmed
    BY <1>1, <1>6 DEF GrnInv
  <2>2. \A l \in Line : ReceivedIn(grn', l) = ReceivedIn(grn, l) /\ ReceivedIn(grn, l) \in Nat
    <3>1. grn[r].status \notin ConfirmedStatus /\ grn'[r].status \notin ConfirmedStatus
      BY <1>1, <1>2, <1>3, <2>1 DEF Confirmed
    <3> HIDE DEF r
    <3> QED
      BY <1>1, <1>3, <3>1, ConfirmedKept
  <2>3. \A l \in Line : /\ ReceivedIn(grn, l) <= ReceivedIn(grn', l)
                        /\ Counted(NoCall, l) <= ReceivedIn(grn', l)
    <3>1. \A l \in Line : Counted(NoCall, l) <= ReceivedIn(grn, l)
      BY <1>1, CountedNow
    <3> TAKE l \in Line
    <3>2. ReceivedIn(grn', l) = ReceivedIn(grn, l) /\ ReceivedIn(grn, l) \in Nat
      BY <2>2
    <3>3. Counted(NoCall, l) <= ReceivedIn(grn, l)
      BY <3>1
    <3> QED
      BY <3>2, <3>3
  <2>4. po' = "received" => po = "received"
    BY <1>1
  <2> QED
    BY <1>1, <1>5, <2>1, <2>3, <2>4, GrnIdle, BackedKept
<1>7. Stands
  <2>1. Saving(r)
    BY <1>1 DEF Saving
  <2>2. \A q \in Receipt : grn'[q].lines # grn[q].lines => q = r
    BY <1>3
  <2> QED
    BY <1>4, <2>1, <2>2 DEF Stands, Confirmed
<1> QED
  BY <1>5, <1>6, <1>7 DEF GrnInv

(* A draft that is confirmed gets a number nobody has, and brings what its    *)
(* lines say, which its call has not counted yet.                             *)
LEMMA ConfirmStep ==
  ASSUME GrnInv, NEW s \in Caller, Confirm(s)
  PROVE  GrnInv' /\ \A r \in Confirmed : grn'[r] = grn[r]
<1> DEFINE r == call[s].grn
           row == [status |-> GrnStatus(call[s].lines), lines |-> call[s].lines,
                   num |-> call[s].num]
           c == [call[s] EXCEPT !.pc = "saved"]
<1>1. /\ GrnType /\ call[s].pc = "numbered" /\ GrnGoto(s, c) /\ po' = po
      /\ call[s] \in GrnCall /\ r \in Receipt /\ grn[r].status = "draft"
      /\ call[s].num \notin Numbers /\ grn' = [grn EXCEPT ![r] = row]
      /\ rewritten' = rewritten
  BY DEF GrnInv, GrnType, Confirm
<1>2. /\ row \in GrnRow /\ row.status \in ConfirmedStatus /\ row.lines = call[s].lines
      /\ row.num = call[s].num
  <2>1. GrnStatus(call[s].lines) \in ConfirmedStatus
    BY DEF GrnStatus, ConfirmedStatus
  <2> QED
    BY <1>1, <2>1 DEF GrnRow, GrnCall
<1>3. /\ c \in GrnCall /\ c.pc = "saved" /\ c.grn = r /\ c.got = call[s].got
      /\ c.lines = call[s].lines
  BY <1>1 DEF GrnCall
<1> HIDE DEF row, c
<1>4. grn' \in GrnRows /\ grn'[r] = row /\ \A q \in Receipt \ {r} : grn'[q] = grn[q]
  <2> HIDE DEF r
  <2> QED
    BY <1>1, <1>2, RowReplaced
<1>5. GrnType'
  <2>1. DistinctNumbers'
    <3> SUFFICES ASSUME NEW p \in Receipt, NEW q \in Receipt,
                        grn'[p].status \in ConfirmedStatus,
                        grn'[q].status \in ConfirmedStatus, grn'[p].num = grn'[q].num
                 PROVE  p = q
      BY DEF DistinctNumbers, Confirmed, ConfirmedStatus
    <3>1. \A x \in Receipt : grn[x].num # call[s].num
      BY <1>1 DEF Numbers
    <3>2. CASE p # r /\ q # r
      BY <1>1, <1>4, <3>2 DEF GrnType, DistinctNumbers, Confirmed
    <3>3. CASE p = r \/ q = r
      BY <1>2, <1>4, <3>1, <3>3
    <3> QED
      BY <3>2, <3>3
  <2>2. /\ call' \in [Caller -> GrnCall] /\ call'[s] = c
        /\ \A t \in Caller \ {s} : call'[t] = call[t]
    BY <1>1, <1>3, GrnMoves
  <2>3. \A t \in Caller : call'[t].pc # "idle" => call'[t].grn \in Receipt
    BY <1>1, <1>3, <2>2 DEF GrnType
  <2> QED
    BY <1>1, <1>4, <2>1, <2>2, <2>3 DEF GrnType
<1>6. ASSUME rewritten' = {} PROVE Backed'
  <2>1. Backed
    BY <1>1, <1>6 DEF GrnInv
  <2>3. ASSUME NEW l \in Line
        PROVE  /\ ReceivedIn(grn, l) <= ReceivedIn(grn', l)
               /\ Counted(c, l) <= ReceivedIn(grn', l)
    <3>1. ReceivedIn(grn', l) = ReceivedIn(grn, l) + Qty(call[s].lines, l)
      <4>1. grn \in GrnRows /\ grn'[r].status \in ConfirmedStatus
            /\ grn'[r].lines = call[s].lines
        BY <1>1, <1>2, <1>4 DEF GrnType
      <4>2. Elsewhere(grn, grn', r)
        BY <1>4 DEF Elsewhere
      <4>3. Adds(grn, ConfirmedIn(grn), grn', ConfirmedIn(grn'), r, l)
        <5> HIDE DEF r
        <5> QED
          BY <1>1, <1>4, <4>1, <4>2, ReceivedMore
      <4> QED
        BY <4>1, <4>3 DEF Adds, ReceivedIn
    <3>2. Qty(call[s].lines, l) \in Nat /\ ReceivedIn(grn, l) \in Nat
      <4>1. call[s].lines \in Payloads \cup {<<>>}
        BY <1>1 DEF GrnCall
      <4> QED
        BY <1>1, <4>1, QtyIsNat, ReceivedIsNat DEF GrnType
    <3>3. call[s].got[l] <= ReceivedIn(grn, l) /\ call[s].got[l] \in Nat
      BY <1>1, <2>1 DEF Backed, Counted, GrnCall
    <3>4. Counted(c, l) = call[s].got[l] + Qty(call[s].lines, l)
      BY <1>3 DEF Counted
    <3> QED
      BY <3>1, <3>2, <3>3, <3>4
  <2>4. po' = "received" => po = "received"
    BY <1>1
  <2> QED
    BY <1>1, <1>3, <1>5, <2>1, <2>3, <2>4, BackedKept
<1>7. \A q \in Confirmed : q # r /\ q \in Receipt
  BY <1>1 DEF Confirmed, ConfirmedStatus
<1> QED
  BY <1>4, <1>5, <1>6, <1>7 DEF GrnInv

LEMMA GrnStep ==
  ASSUME GrnInv, [GrnNext]_grnVars
  PROVE  GrnInv' /\ Stands
<1>0. (\A r \in Confirmed : grn'[r] = grn[r]) => Stands
  BY DEF Stands
<1>1. ASSUME NEW r \in Receipt, CreateDraft(r) PROVE GrnInv' /\ Stands
  <2>1. \A q \in Confirmed : grn'[q] = grn[q]
    BY <1>1 DEF CreateDraft, GrnInv, GrnType, GrnRows, Confirmed, ConfirmedStatus
  <2> QED
    BY <1>0, <1>1, <2>1, CreateDraftStep
<1>2. ASSUME NEW s \in Caller, NEW op \in {"save", "confirm"}, NEW r \in Receipt,
             NEW lines \in Payloads, Read(s, op, r, lines)
      PROVE  GrnInv' /\ Stands
  <2>1. grn' = grn
    BY <1>2 DEF Read
  <2> QED
    BY <1>0, <1>2, <2>1, ReadStep
<1>3. ASSUME NEW s \in Caller,
             Check(s, "save", "saveChecked") \/ Check(s, "confirm", "confirmChecked")
      PROVE  GrnInv' /\ Stands
  <2>1. grn' = grn
    BY <1>3 DEF Check
  <2>2. GrnInv'
    BY <1>3, CheckStep
  <2> QED
    BY <1>0, <2>1, <2>2
<1>4. ASSUME NEW s \in Caller, Refuse(s) \/ Stop(s) PROVE GrnInv' /\ Stands
  <2>1. grn' = grn /\ po' = po /\ rewritten' = rewritten /\ GrnGoto(s, NoCall)
    BY <1>4 DEF Refuse, Stop
  <2> QED
    BY <1>0, <2>1, EndStep
<1>5. ASSUME NEW s \in Caller, PickNumber(s) PROVE GrnInv' /\ Stands
  <2>1. grn' = grn
    BY <1>5 DEF PickNumber
  <2> QED
    BY <1>0, <1>5, <2>1, PickNumberStep
<1>6. ASSUME NEW s \in Caller, Confirm(s) PROVE GrnInv' /\ Stands
  BY <1>0, <1>6, ConfirmStep
<1>7. ASSUME NEW s \in Caller, ConfirmFails(s) PROVE GrnInv' /\ Stands
  <2>1. grn' = grn
    BY <1>7 DEF ConfirmFails
  <2> QED
    BY <1>0, <1>7, <2>1, ConfirmFailsStep
<1>8. ASSUME NEW s \in Caller, WritePo(s) PROVE GrnInv' /\ Stands
  <2>1. grn' = grn
    BY <1>8 DEF WritePo
  <2> QED
    BY <1>0, <1>8, <2>1, WritePoStep
<1>9. CASE UNCHANGED grnVars
  <2>1. grn' = grn /\ call' = call /\ po' = po /\ rewritten' = rewritten
    BY <1>9 DEF grnVars
  <2>2. GrnInv'
    BY <2>1 DEF GrnInv, GrnType, Backed, DistinctNumbers, Confirmed
  <2> QED
    BY <1>0, <2>1, <2>2
<1>10. CASE GrnNext
  <2>1. Failing \subseteq Caller
    BY ReceiptAssumption
  <2> QED
    BY <1>1, <1>2, <1>3, <1>4, <1>5, <1>6, <1>7, <1>8, <1>10, <2>1, SaveStep DEF GrnNext
<1> QED
  BY <1>9, <1>10

LEMMA GrnAlways == GrnSpec => []GrnInv
<1>1. GrnInit => GrnInv
  BY GrnInvInit DEF GrnInv
<1>2. GrnInv /\ [GrnNext]_grnVars => GrnInv'
  BY GrnStep
<1> QED
  BY <1>1, <1>2, PTL DEF GrnSpec

(* An order that says received is covered by its confirmed receipts on every  *)
(* line, however many calls count, save and confirm at once                   *)
(* (computePoStatusAfterGrn, over receipts read earlier), as long as no       *)
(* confirmed receipt has been rewritten.                                      *)
THEOREM ReceivedOrdersCovered == GrnSpec => []ReceivedIsBacked
<1>1. GrnInv => ReceivedIsBacked
  <2> SUFFICES ASSUME GrnInv, po = "received", rewritten = {}, NEW l \in Line
               PROVE  Received[l] >= Ordered[l]
    BY DEF ReceivedIsBacked
  <2>1. ReceivedIn(grn, l) >= Ordered[l]
    BY DEF GrnInv, Backed
  <2> QED
    BY <2>1, ReceivedNow
<1> QED
  BY <1>1, GrnAlways, PTL

(* Confirmed receipts have different numbers, although confirmGrn picks each  *)
(* from an earlier read: whatever overlaps, and however often it tries.       *)
THEOREM ReceiptNumbersDistinct == GrnSpec => []DistinctNumbers
<1>1. GrnInv => DistinctNumbers
  BY DEF GrnInv, GrnType
<1> QED
  BY <1>1, GrnAlways, PTL

(* A confirmed receipt keeps its status and number: confirmGrn's update asks  *)
(* for a draft.  Its lines change only at the hands of a save that had found  *)
(* it a draft before (saveGrnDraft, by id), whatever overlaps or stops.       *)
THEOREM ConfirmedReceiptsStand == GrnSpec => ReceiptStands
<1>1. GrnInv /\ [GrnNext]_grnVars => [Stands]_grnVars
  BY GrnStep
<1> QED
  BY <1>1, GrnAlways, PTL DEF GrnSpec, ReceiptStands, Stands
=============================================================================
