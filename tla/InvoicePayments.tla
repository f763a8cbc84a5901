--------------------------- MODULE InvoicePayments ---------------------------
(* The payments ledger of one invoice: recordPayment, voidPayment,            *)
(* approveInvoice and markInvoiceSent (payments.functions.ts), markInvoicePaid *)
(* (invoices.functions.ts), and the triggers that derive the invoice's        *)
(* paid_amount and status from its live payments (migration 20260728152236).  *)
(*                                                                            *)
(* A call reads the invoice in requests of their own; its write is one        *)
(* transaction, whose statements, those of the triggers included, each see    *)
(* what is committed when they start.  The locks a transaction holds follow   *)
(* from how far it is.  The inserted payment's foreign key takes a key-share  *)
(* lock on the invoice, which conflicts with the FOR UPDATE of the triggers.  *)
(*                                                                            *)
(* Amounts are whole units (cents), so the tolerance of half a cent is none.  *)
(* Currency, the open-period and three-way-match guards, which only refuse    *)
(* calls, and reconciliation marks are left out.  No code of the application  *)
(* cancels or disputes an invoice.                                            *)
EXTENDS Integers, FiniteSetsExt

CONSTANTS Session,
          Payment,      \* payments that may be recorded
          Amounts,      \* amounts a user may enter
          Total,        \* amount + tax_amount
          FirstStatus,  \* "draft" (a billed milestone), "submitted" (a pay application)
          NoPayment

ASSUME LedgerAssumption ==
  /\ Total \in Nat \ {0} /\ Amounts \subseteq Nat \ {0}
  /\ FirstStatus \subseteq {"draft", "submitted"}
  /\ IsFiniteSet(Payment) /\ NoPayment \notin Payment

VARIABLES inv,      \* the invoice: status and paid_amount
          pay,      \* payments: state, amount and number
          counter,  \* payment_counters.last_number
          tx        \* the call each session is running

vars == <<inv, pay, counter, tx>>

InvoiceStatus == {"draft", "submitted", "approved", "sent", "partially_paid", "paid"}

Derived == {"paid", "partially_paid"}

Idle == [pc |-> "idle", pay |-> NoPayment, amount |-> 0, num |-> 0, sum |-> 0,
         status |-> "draft"]

TypeOK ==
  /\ inv \in [status: InvoiceStatus, paid: Nat]
  /\ pay \in [Payment -> [state: {"none", "recorded", "voided"}, amount: Nat,
                          num: 0..Cardinality(Payment)]]
  /\ counter \in 0..Cardinality(Payment)
  /\ tx \in [Session ->
       [pc: {"idle", "checked", "settle", "void", "status", "written", "locked", "summed"},
        pay: Payment \cup {NoPayment}, amount: Nat, num: 0..Cardinality(Payment),
        sum: Nat, status: InvoiceStatus]]

------------------------------------------------------------------------------
(* The sum of the payments p that are not voided.                             *)
Live(p) == MapThenSumSet(LAMBDA k : IF p[k].state = "recorded" THEN p[k].amount ELSE 0, Payment)

(* A transaction that inserts a payment has drawn its number, and holds the   *)
(* counter's row and a key share of the invoice.                              *)
Inserting(s) == tx[s].num # 0

HoldsInvoice(s) == tx[s].pc \in {"locked", "summed"}

HoldsPayment(s, p) == tx[s].pc \in {"written", "locked", "summed"} /\ tx[s].pay = p

(* The next statement of s wants a row that the transaction of t has locked:  *)
(* the counter for its number, the payment to void, the invoice for update,   *)
(* or the invoice to write its status.                                        *)
WaitsFor(s, t) ==
  \/ tx[s].pc = "checked" /\ Inserting(t)
  \/ tx[s].pc = "void" /\ HoldsPayment(t, tx[s].pay)
  \/ tx[s].pc = "written" /\ s # t /\ (HoldsInvoice(t) \/ Inserting(t))
  \/ tx[s].pc = "status" /\ HoldsInvoice(t)

Free(s) == \A t \in Session : ~WaitsFor(s, t)

(* The payments as the transaction of s leaves them.                          *)
Written(s) ==
  LET t == tx[s] IN
  IF t.pay = NoPayment THEN pay
  ELSE IF Inserting(s)
       THEN [pay EXCEPT ![t.pay] = [state |-> "recorded", amount |-> t.amount, num |-> t.num]]
       ELSE [pay EXCEPT ![t.pay].state = "voided"]

Goto(s, t) == tx' = [tx EXCEPT ![s] = t]

End(s) == Goto(s, Idle)

Init ==
  /\ pay = [p \in Payment |-> [state |-> "none", amount |-> 0, num |-> 0]]
  /\ \E st \in FirstStatus : inv = [status |-> st, paid |-> Live(pay)]
  /\ counter = 0
  /\ tx = [s \in Session |-> Idle]

------------------------------------------------------------------------------
(* recordPayment reads the invoice and holds the amount against its balance.  *)
LoadRecord(s, a) ==
  /\ tx[s] = Idle
  /\ inv.status \in {"approved", "sent", "partially_paid"}
  /\ inv.paid + a <= Total
  /\ Goto(s, [Idle EXCEPT !.pc = "checked", !.amount = a])
  /\ UNCHANGED <<inv, pay, counter>>

(* markInvoicePaid only asks that the invoice is not paid; ...                *)
LoadSettle(s) ==
  /\ tx[s] = Idle
  /\ inv.status # "paid"
  /\ Goto(s, [Idle EXCEPT !.pc = "settle"])
  /\ UNCHANGED <<inv, pay, counter>>

(* ... invoice_settle_manual records the balance it reads, if there is one,   *)
(* and recomputes the invoice in any case.                                    *)
Settle(s) ==
  /\ tx[s].pc = "settle"
  /\ Goto(s, IF inv.paid < Total
             THEN [tx[s] EXCEPT !.pc = "checked", !.amount = Total - inv.paid]
             ELSE [tx[s] EXCEPT !.pc = "written"])
  /\ UNCHANGED <<inv, pay, counter>>

LoadVoid(s, p) ==
  /\ tx[s] = Idle
  /\ pay[p].state = "recorded"
  /\ Goto(s, [Idle EXCEPT !.pc = "void", !.pay = p])
  /\ UNCHANGED <<inv, pay, counter>>

(* Mutants: the number is drawn for good, as from a sequence; it is the       *)
(* highest one plus one, and no row is locked for it.                         *)
InsertSequence(s, p) ==
  /\ tx[s].pc = "checked"
  /\ pay[p].state = "none" /\ \A t \in Session : tx[t].pay # p
  /\ Free(s)
  /\ counter < Cardinality(Payment)
  /\ counter' = counter + 1
  /\ Goto(s, [tx[s] EXCEPT !.pc = "written", !.pay = p, !.num = counter + 1])
  /\ UNCHANGED <<inv, pay>>

InsertHighest(s, p) ==
  /\ tx[s].pc = "checked"
  /\ pay[p].state = "none" /\ \A t \in Session : tx[t].pay # p
  /\ Goto(s, [tx[s] EXCEPT !.pc = "written", !.pay = p, !.num = counter + 1])
  /\ UNCHANGED <<inv, pay, counter>>

(* The insert draws the number with an upsert of the counter, whose row stays *)
(* locked until the transaction ends, before it shares the invoice.           *)
Insert(s, p) ==
  /\ tx[s].pc = "checked"
  /\ pay[p].state = "none" /\ \A t \in Session : tx[t].pay # p
  /\ Free(s)
  /\ Goto(s, [tx[s] EXCEPT !.pc = "written", !.pay = p, !.num = counter + 1])
  /\ UNCHANGED <<inv, pay, counter>>

(* The update that voids a payment names it by id alone.                      *)
Void(s) ==
  /\ tx[s].pc = "void"
  /\ Free(s)
  /\ Goto(s, [tx[s] EXCEPT !.pc = "written"])
  /\ UNCHANGED <<inv, pay, counter>>

(* Mutant: the invoice is read without FOR UPDATE.                            *)
LockNothing(s) ==
  /\ tx[s].pc = "written"
  /\ Goto(s, [tx[s] EXCEPT !.pc = "locked", !.status = inv.status])
  /\ UNCHANGED <<inv, pay, counter>>

(* recompute_invoice_payment_state locks the invoice FOR UPDATE, ...          *)
Lock(s) ==
  /\ tx[s].pc = "written"
  /\ Free(s)
  /\ Goto(s, [tx[s] EXCEPT !.pc = "locked", !.status = inv.status])
  /\ UNCHANGED <<inv, pay, counter>>

(* ... sums the live payments, ...                                            *)
SumUp(s) ==
  /\ tx[s].pc = "locked"
  /\ Goto(s, [tx[s] EXCEPT !.pc = "summed", !.sum = Live(Written(s))])
  /\ UNCHANGED <<inv, pay, counter>>

(* Mutant: the sum is not held against the total.                             *)
FitsAlways(sum) == sum >= 0

Fits(sum) == sum <= Total

(* ... raises overpayment_blocked, which undoes the payment and its number,   *)
Overpaid(s) ==
  /\ tx[s].pc = "summed" /\ ~Fits(tx[s].sum)
  /\ End(s)
  /\ UNCHANGED <<inv, pay, counter>>

(* Mutant: without payments the status stays what it was.                     *)
DerivedKept(status, sum) ==
  IF status = "draft" \/ sum = 0 THEN status
  ELSE IF sum >= Total THEN "paid" ELSE "partially_paid"

DerivedStatus(status, sum) ==
  IF status = "draft" THEN status
  ELSE IF sum = 0 THEN IF status \in Derived THEN "sent" ELSE status
  ELSE IF sum >= Total THEN "paid" ELSE "partially_paid"

(* ... or writes the invoice; then the transaction commits.                   *)
Commit(s) ==
  LET t == tx[s] IN
  /\ t.pc = "summed" /\ Fits(t.sum)
  /\ pay' = Written(s)
  /\ inv' = [status |-> DerivedStatus(t.status, t.sum), paid |-> t.sum]
  /\ counter' = IF Inserting(s) THEN t.num ELSE counter
  /\ End(s)

------------------------------------------------------------------------------
(* approveInvoice and markInvoiceSent read the status, then write it by id.   *)
LoadStatus(s, to) ==
  /\ tx[s] = Idle
  /\ inv.status \in (IF to = "approved" THEN {"draft", "submitted"} ELSE {"approved"})
  /\ Goto(s, [Idle EXCEPT !.pc = "status", !.status = to])
  /\ UNCHANGED <<inv, pay, counter>>

(* Mutant: no trigger guards the derived status.                              *)
WriteStatusUnguarded(s) ==
  /\ tx[s].pc = "status"
  /\ Free(s)
  /\ inv' = [inv EXCEPT !.status = tx[s].status]
  /\ End(s)
  /\ UNCHANGED <<pay, counter>>

(* The trigger invoices_guard_payment_state refuses to overwrite a derived    *)
(* status.                                                                    *)
WriteStatus(s) ==
  /\ tx[s].pc = "status"
  /\ Free(s)
  /\ inv' = IF inv.status \in Derived THEN inv ELSE [inv EXCEPT !.status = tx[s].status]
  /\ End(s)
  /\ UNCHANGED <<pay, counter>>

(* The call stops before its transaction commits.                             *)
Disconnect(s) ==
  /\ tx[s] # Idle
  /\ End(s)
  /\ UNCHANGED <<inv, pay, counter>>

Load(s) ==
  \/ \E a \in Amounts : LoadRecord(s, a)
  \/ LoadSettle(s)
  \/ \E p \in Payment : LoadVoid(s, p)
  \/ \E to \in {"approved", "sent"} : LoadStatus(s, to)

Write(s) ==
  \/ Settle(s) \/ Void(s) \/ \E p \in Payment : Insert(s, p)
  \/ Lock(s) \/ SumUp(s) \/ Overpaid(s) \/ Commit(s)
  \/ WriteStatus(s)

Next == \E s \in Session : Load(s) \/ Write(s) \/ Disconnect(s)

Spec == Init /\ [][Next]_vars

------------------------------------------------------------------------------
(* The invoice's paid_amount is the sum of its live payments, whatever        *)
(* payments and voids are recorded at the same time (the consistency audit's  *)
(* class C6b, status-consistency.test.ts:278).                                *)
LedgerInStep == inv.paid = Live(pay)

(* Concurrent payments that each fit the balance they read never exceed the   *)
(* invoice together.                                                          *)
NeverOverpaid == Live(pay) <= Total

(* An invoice says it is paid, or partly paid, only when its ledger does.     *)
PaidIsBacked ==
  /\ inv.status = "paid" => Live(pay) = Total
  /\ inv.status = "partially_paid" => Live(pay) \in 1..Total - 1

(* Payment numbers have neither duplicates nor gaps, whatever transactions    *)
(* are rolled back.                                                           *)
NumbersConsecutive ==
  LET Made == {p \in Payment : pay[p].state # "none"} IN
  /\ \A p, q \in Made : pay[p].num = pay[q].num => p = q
  /\ {pay[p].num : p \in Made} = 1..Cardinality(Made)

(* No set of calls is locked up, each waiting for another of them: a second   *)
(* payment waits for the counter before its foreign key shares the invoice    *)
(* that its trigger then wants for update.                                    *)
NoLockCycle ==
  \A S \in (SUBSET Session) \ {{}} : \E s \in S : \A t \in S : ~WaitsFor(s, t)

(* A paid invoice stops being paid only when a payment is voided: an approval *)
(* or a sending that read it earlier does not overwrite the status.           *)
PaidUntilVoided ==
  [][inv.status = "paid" /\ inv'.status # "paid" => Live(pay') < Live(pay)]_vars

(* status-consistency.test.ts:277, "C6 invoices.status <=> payments ledger":  *)
(* an invoice out of draft whose payments cover it is paid.                   *)
StatusFollowsLedger ==
  inv.status # "draft" =>
    /\ Live(pay) = Total => inv.status = "paid"
    /\ Live(pay) \in 1..Total - 1 => inv.status = "partially_paid"
==============================================================================
