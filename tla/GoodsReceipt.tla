----------------------------- MODULE GoodsReceipt -----------------------------
(* Goods receipts against one issued purchase order: createDraftGrn,          *)
(* saveGrnDraft and confirmGrn of grn.functions.ts.                           *)
(*                                                                            *)
(* A server function is a sequence of separate database requests, so other    *)
(* calls run between any two of them.  Reads that only serve to answer 404 or *)
(* 403 are left out; photos, notes and geo-tags are too.                      *)
(*                                                                            *)
(* Nothing in the code keeps a draft from being saved while it is confirmed:  *)
(* a save by id may rewrite a receipt that has been confirmed since it read   *)
(* a draft.  The history variable rewritten records where that happened.      *)
EXTENDS Integers, FiniteSetsExt, SequencesExt

CONSTANTS Caller,    \* server function calls that may run at the same time
          PoWriter,  \* callers whose user passes the pos_write policy
          Failing,   \* callers whose calls may stop half-way
          Receipt,   \* goods_receipts ids
          Line,      \* line numbers of the purchase order
          Ordered,   \* Ordered[l]: purchase_orders.lines[].qty
          Payloads,  \* the lines a user may enter: sequences of [line, qty, ok]
          MaxTries   \* 3

ASSUME ReceiptAssumption ==
  /\ PoWriter \subseteq Caller /\ Failing \subseteq Caller /\ IsFiniteSet(Receipt)
  /\ Ordered \in [Line -> Nat \ {0}]
  /\ Payloads \subseteq Seq([line: Line, qty: Nat, ok: BOOLEAN])
  /\ MaxTries \in Nat \ {0}

VARIABLES po,    \* purchase_orders.status
          grn,   \* goods_receipts: status, lines and number (0: DRAFT-...)
          call,  \* the server function each caller is running
          rewritten  \* history: receipts whose lines were saved after they were confirmed

grnVars == <<po, grn, call, rewritten>>

Receivable == {"issued", "partially_received"}
ConfirmedStatus == {"confirmed", "has_defects"}

NoCall == [pc |-> "idle", grn |-> 0, lines |-> <<>>, po |-> "issued",
           got |-> [l \in Line |-> 0], num |-> 0, tries |-> 0]

GrnTypeOK ==
  /\ po \in Receivable \cup {"received"}
  /\ \A r \in Receipt :
       /\ grn[r].status \in {"none", "draft"} \cup ConfirmedStatus
       /\ grn[r].lines \in Payloads \cup {<<>>}
       /\ grn[r].num \in 0..Cardinality(Receipt)
       /\ grn[r].status \in ConfirmedStatus <=> grn[r].num # 0
  /\ rewritten \subseteq Receipt

------------------------------------------------------------------------------
(* The quantity a receipt's lines bring to purchase order line l; one receipt *)
(* may name a line more than once.                                            *)
Qty(lines, l) == FoldSeq(LAMBDA x, sum : IF x.line = l THEN sum + x.qty ELSE sum, 0, lines)

Confirmed == {r \in Receipt : grn[r].status \in ConfirmedStatus}

Received == [l \in Line |-> MapThenSumSet(LAMBDA r : Qty(grn[r].lines, l), Confirmed)]

(* overReceivedLines: each entered line alone is held against what is due.    *)
OverReceived(lines, got) ==
  \E k \in DOMAIN lines : lines[k].qty > Max({0, Ordered[lines[k].line] - got[lines[k].line]})

(* deriveGrnStatus *)
GrnStatus(lines) ==
  IF \E k \in DOMAIN lines : ~lines[k].ok THEN "has_defects" ELSE "confirmed"

(* Mutant: one full line makes the order received.                            *)
PoStatusAfterAnyLine(c) ==
  LET got == [l \in Line |-> c.got[l] + Qty(c.lines, l)] IN
  IF \A l \in Line : got[l] = 0 THEN po
  ELSE IF \E l \in Line : got[l] >= Ordered[l] THEN "received" ELSE "partially_received"

(* computePoStatusAfterGrn, over the receipts the call has read and its own:  *)
(* the status is written only if it differs from the one the call has read.   *)
PoStatusAfter(c) ==
  LET got == [l \in Line |-> c.got[l] + Qty(c.lines, l)]
      next == IF \A l \in Line : got[l] >= Ordered[l] THEN "received" ELSE "partially_received"
  IN IF (\A l \in Line : got[l] = 0) \/ next = c.po THEN po ELSE next

Numbers == {grn[r].num : r \in Receipt}

GrnGoto(s, c) == call' = [call EXCEPT ![s] = c]
------------------------------------------------------------------------------
GrnInit ==
  /\ po = "issued"
  /\ grn = [r \in Receipt |-> [status |-> "none", lines |-> <<>>, num |-> 0]]
  /\ call = [s \in Caller |-> NoCall]
  /\ rewritten = {}

CreateDraft(r) ==
  /\ grn[r].status = "none"
  /\ po \in Receivable
  /\ grn' = [grn EXCEPT ![r].status = "draft"]
  /\ UNCHANGED <<po, call, rewritten>>

(* saveGrnDraft and confirmGrn read the receipt, then the order, ...          *)
Read(s, op, r, lines) ==
  /\ call[s] = NoCall
  /\ grn[r].status = "draft"
  /\ op = "confirm" => po \in Receivable
  /\ GrnGoto(s, [NoCall EXCEPT !.pc = op, !.grn = r, !.lines = lines, !.po = po])
  /\ UNCHANGED <<po, grn, rewritten>>

(* ... then its confirmed receipts, against which the entered lines are held. *)
Check(s, op, next) ==
  /\ call[s].pc = op
  /\ ~OverReceived(call[s].lines, Received)
  /\ GrnGoto(s, [call[s] EXCEPT !.pc = next, !.got = Received])
  /\ UNCHANGED <<po, grn, rewritten>>

Refuse(s) ==
  /\ call[s].pc \in {"save", "confirm"}
  /\ OverReceived(call[s].lines, Received)
  /\ GrnGoto(s, NoCall)
  /\ UNCHANGED <<po, grn, rewritten>>

(* The lines are written by id alone, whatever has become of the draft.       *)
Save(s) ==
  /\ call[s].pc = "saveChecked"
  /\ grn' = [grn EXCEPT ![call[s].grn].lines = call[s].lines]
  /\ rewritten' = rewritten \cup ({call[s].grn} \cap Confirmed)
  /\ GrnGoto(s, NoCall)
  /\ UNCHANGED po

(* confirmGrn picks the number after the highest one in use.                  *)
PickNumber(s) ==
  /\ call[s].pc = "confirmChecked"
  /\ GrnGoto(s, [call[s] EXCEPT !.pc = "numbered", !.num = Max(Numbers) + 1])
  /\ UNCHANGED <<po, grn, rewritten>>

(* Mutants: the update is by id alone; the number is not unique.              *)
ConfirmById(s) ==
  LET c == call[s] IN
  /\ c.pc = "numbered"
  /\ c.num \notin Numbers
  /\ grn' = [grn EXCEPT ![c.grn] = [status |-> GrnStatus(c.lines), lines |-> c.lines,
                                    num |-> c.num]]
  /\ GrnGoto(s, [c EXCEPT !.pc = "saved"])
  /\ UNCHANGED <<po, rewritten>>

ConfirmSameNumber(s) ==
  LET c == call[s] IN
  /\ c.pc = "numbered"
  /\ grn[c.grn].status = "draft"
  /\ grn' = [grn EXCEPT ![c.grn] = [status |-> GrnStatus(c.lines), lines |-> c.lines,
                                    num |-> c.num]]
  /\ GrnGoto(s, [c EXCEPT !.pc = "saved"])
  /\ UNCHANGED <<po, rewritten>>

(* One update confirms the receipt if it still is a draft and the number is   *)
(* free, (company_id, grn_number) being unique; ...                           *)
Confirm(s) ==
  LET c == call[s] IN
  /\ c.pc = "numbered"
  /\ grn[c.grn].status = "draft"
  /\ c.num \notin Numbers
  /\ grn' = [grn EXCEPT ![c.grn] = [status |-> GrnStatus(c.lines), lines |-> c.lines,
                                    num |-> c.num]]
  /\ GrnGoto(s, [c EXCEPT !.pc = "saved"])
  /\ UNCHANGED <<po, rewritten>>

(* ... otherwise the call gives up, or tries the next number.                 *)
ConfirmFails(s) ==
  LET c == call[s] IN
  /\ c.pc = "numbered"
  /\ grn[c.grn].status # "draft" \/ c.num \in Numbers
  /\ GrnGoto(s, IF grn[c.grn].status # "draft" \/ c.tries + 1 = MaxTries THEN NoCall
             ELSE [c EXCEPT !.num = @ + 1, !.tries = @ + 1])
  /\ UNCHANGED <<po, grn, rewritten>>

(* The last request writes the order's status.  A user outside pos_write      *)
(* updates no row and gets no error.                                          *)
WritePo(s) ==
  /\ call[s].pc = "saved"
  /\ po' = IF s \in PoWriter THEN PoStatusAfter(call[s]) ELSE po
  /\ GrnGoto(s, NoCall)
  /\ UNCHANGED <<grn, rewritten>>

(* The call stops between two requests: a lost connection, a failed insert of *)
(* serial numbers.                                                            *)
Stop(s) ==
  /\ call[s] # NoCall
  /\ GrnGoto(s, NoCall)
  /\ UNCHANGED <<po, grn, rewritten>>

GrnNext ==
  \/ \E r \in Receipt : CreateDraft(r)
  \/ \E s \in Caller :
       \/ \E op \in {"save", "confirm"}, r \in Receipt, lines \in Payloads :
            Read(s, op, r, lines)
       \/ Check(s, "save", "saveChecked") \/ Check(s, "confirm", "confirmChecked")
       \/ Refuse(s) \/ Save(s)
       \/ PickNumber(s) \/ Confirm(s) \/ ConfirmFails(s) \/ WritePo(s)
  \/ \E s \in Failing : Stop(s)

GrnSpec == GrnInit /\ [][GrnNext]_grnVars

------------------------------------------------------------------------------
(* An order counts as received only when confirmed receipts cover every line, *)
(* although each call computes the status from receipts it read earlier, as   *)
(* long as no confirmed receipt has been rewritten by a save beside it.       *)
ReceivedIsBacked ==
  po = "received" /\ rewritten = {} => \A l \in Line : Received[l] >= Ordered[l]

(* A save that found the receipt a draft is still under way.                  *)
Saving(r) == \E s \in Caller : call[s].grn = r /\ call[s].pc = "saveChecked"

(* Two users who confirm the same draft, or a confirmation sent twice, count  *)
(* once: a confirmed receipt keeps its status and its number for good, and    *)
(* its lines from then on, but for a save that read it while it was a draft   *)
(* and has not ended yet.                                                     *)
ReceiptStands ==
  [][\A r \in Confirmed :
       /\ grn'[r].status = grn[r].status /\ grn'[r].num = grn[r].num
       /\ grn'[r].lines # grn[r].lines => Saving(r)]_grnVars

(* Concurrent confirmations that read the same numbers still get different    *)
(* ones, whatever becomes of the drafts.                                      *)
DistinctNumbers ==
  \A r, q \in Confirmed : grn[r].num = grn[q].num => r = q

(* grn.functions.ts:341: "Only draft GRNs can be edited."                     *)
OnlyDraftsEdited == rewritten = {}

(* grn-rules.ts:140: no line receives more than what is still due.            *)
NoOverReceipt == \A l \in Line : Received[l] <= Ordered[l]

(* grn.functions.ts:552: the order's status is projected from all confirmed   *)
(* receipts; so once no call is running it says "received" if they cover it.  *)
FullyReceivedIsReceived ==
  (\A s \in Caller : call[s] = NoCall) /\ (\A l \in Line : Received[l] >= Ordered[l])
    => po = "received"
==============================================================================
