------------------------------- MODULE RfqAwards -------------------------------
(* The award of one issued RFQ: bids are submitted and revised (submitBid),   *)
(* lines are awarded and taken back (awardRfqLine, rfq_unaward_line) and the  *)
(* awards become purchase orders, one for each vendor (generatePosFromAwards). *)
(* The status of a bid is derived from its awards by the triggers of the      *)
(* award table.                                                               *)
(*                                                                            *)
(* A call is a sequence of separate database requests.  An award or unaward   *)
(* request is a transaction at READ COMMITTED: each statement, those of the   *)
(* triggers included, reads what is committed when it begins, an update waits *)
(* for the row it changes, and the rows change for the others at the commit.  *)
(* Every bid is from a vendor of its own; vendors' bids are named by the bid. *)
EXTENDS Naturals, FiniteSets, FiniteSetsExt

CONSTANTS Session,   \* server function calls that may run at the same time
          Line,      \* rfqs.lines
          Bid,       \* rfq_bids
          Price,     \* the unit price of a bid's lines
          MaxOrders, \* cap on the purchase orders generated
          NoBid, NoPrice, NoLine

ASSUME AwardAssumption ==
  /\ NoBid \notin Bid /\ NoPrice \notin Price /\ NoLine \notin Line
  /\ MaxOrders \in Nat

VARIABLES bid,    \* rfq_bids: status and unit price
          award,  \* rfq_line_awards by line: bid and price
          orders, \* purchase_orders by number: bid and the prices of its lines
          serial, \* history: no two calls overlapped so far
          call    \* the server function each session is running

vars == <<bid, award, orders, serial, call>>

NoAward == [bid |-> NoBid, price |-> NoPrice]
NoOrder == [bid |-> NoBid, lines |-> {}]

Award == {NoAward} \cup [bid : Bid, price : Price]
Order == {NoOrder} \cup [bid : Bid, lines : SUBSET (Line \X Price)]
Number == 1 .. MaxOrders

Pc == {"idle", "bid", "award", "sync", "kept", "flipped", "unaward", "count", "reverting",
       "reverted", "deleted", "orders", "numbers", "insert", "refresh"}

Call == [pc : Pc, line : Line \cup {NoLine}, bid : Bid \cup {NoBid}, price : Price \cup {NoPrice},
         gone : BOOLEAN, plan : [Line -> Award], todo : SUBSET Bid, seed : 0 .. MaxOrders,
         again : BOOLEAN]

Idle == [pc |-> "idle", line |-> NoLine, bid |-> NoBid, price |-> NoPrice, gone |-> FALSE,
         plan |-> [l \in Line |-> NoAward], todo |-> {}, seed |-> 0, again |-> FALSE]

TypeOK ==
  /\ bid \in [Bid -> [status : {"invited", "submitted", "awarded"}, price : Price \cup {NoPrice}]]
  /\ award \in [Line -> Award]
  /\ orders \in [Number -> Order]
  /\ serial \in BOOLEAN
  /\ call \in [Session -> Call]

------------------------------------------------------------------------------
Goto(s, c) == call' = [call EXCEPT ![s] = c] /\ UNCHANGED serial

Begin(s, c) ==
  /\ call[s] = Idle
  /\ call' = [call EXCEPT ![s] = c]
  /\ serial' = (serial /\ \A t \in Session : call[t] = Idle)

End(s) == Goto(s, Idle)

(* The transactions that hold a bid's row, and an award row or its line's key. *)
Locked(b) == \E t \in Session : call[t].pc \in {"flipped", "reverted"} /\ call[t].bid = b

Held(l) ==
  \E t \in Session :
    /\ call[t].pc \in {"sync", "kept", "flipped", "count", "reverting", "reverted", "deleted"}
    /\ call[t].line = l

AwardsOf(b) == {l \in Line : award[l].bid = b}

OrderedBids == {orders[n].bid : n \in Number} \ {NoBid}

LastNumber == Max({0} \cup {n \in Number : orders[n] # NoOrder})

Init ==
  /\ bid = [b \in Bid |-> [status |-> "invited", price |-> NoPrice]]
  /\ award = [l \in Line |-> NoAward]
  /\ orders = [n \in Number |-> NoOrder]
  /\ serial = TRUE
  /\ call = [s \in Session |-> Idle]

------------------------------------------------------------------------------
(* submitBid refuses an awarded bid, ...                                      *)
SubmitRead(s, b, p) ==
  /\ bid[b].status # "awarded"
  /\ Begin(s, [Idle EXCEPT !.pc = "bid", !.bid = b, !.price = p])
  /\ UNCHANGED <<bid, award, orders>>

(* Mutant: without the guard trigger the bid is written whatever it is.       *)
SubmitUnguarded(s) ==
  /\ call[s].pc = "bid" /\ ~Locked(call[s].bid)
  /\ bid' = [bid EXCEPT ![call[s].bid] = [status |-> "submitted", price |-> call[s].price]]
  /\ End(s)
  /\ UNCHANGED <<award, orders>>

(* ... writes it by its id, ...                                               *)
SubmitWrite(s) ==
  /\ call[s].pc = "bid" /\ ~Locked(call[s].bid)
  /\ bid[call[s].bid].status # "awarded"
  /\ bid' = [bid EXCEPT ![call[s].bid] = [status |-> "submitted", price |-> call[s].price]]
  /\ End(s)
  /\ UNCHANGED <<award, orders>>

(* ... and is refused by rfq_bids_guard_award_status if it was awarded since. *)
SubmitRefused(s) ==
  /\ call[s].pc = "bid" /\ ~Locked(call[s].bid)
  /\ bid[call[s].bid].status = "awarded"
  /\ End(s)
  /\ UNCHANGED <<bid, award, orders>>

------------------------------------------------------------------------------
(* awardRfqLine reads the bid and its price, ...                              *)
AwardRead(s, l, b) ==
  /\ bid[b].status \in {"submitted", "awarded"}
  /\ Begin(s, [Idle EXCEPT !.pc = "award", !.line = l, !.bid = b, !.price = bid[b].price])
  /\ UNCHANGED <<bid, award, orders>>

(* ... inserts the award, unless the line has one (its unique key), ...       *)
AwardTaken(s) ==
  /\ call[s].pc = "award" /\ ~Held(call[s].line)
  /\ award[call[s].line] # NoAward
  /\ End(s)
  /\ UNCHANGED <<bid, award, orders>>

AwardInsert(s) ==
  /\ call[s].pc = "award" /\ ~Held(call[s].line)
  /\ award[call[s].line] = NoAward
  /\ Goto(s, [call[s] EXCEPT !.pc = "sync"])
  /\ UNCHANGED <<bid, award, orders>>

(* ... whose trigger, seeing the bid awarded already, leaves it alone, ...    *)
AwardKeep(s) ==
  /\ call[s].pc = "sync"
  /\ bid[call[s].bid].status = "awarded"
  /\ Goto(s, [call[s] EXCEPT !.pc = "kept"])
  /\ UNCHANGED <<bid, award, orders>>

(* ... or takes the bid's row and marks it as awarded, ...                    *)
AwardFlip(s) ==
  /\ call[s].pc = "sync"
  /\ bid[call[s].bid].status # "awarded" /\ ~Locked(call[s].bid)
  /\ Goto(s, [call[s] EXCEPT !.pc = "flipped"])
  /\ UNCHANGED <<bid, award, orders>>

(* ... and commits.                                                           *)
AwardCommit(s) ==
  /\ call[s].pc \in {"kept", "flipped"}
  /\ award' = [award EXCEPT ![call[s].line] = [bid |-> call[s].bid, price |-> call[s].price]]
  /\ bid' = IF call[s].pc = "flipped" THEN [bid EXCEPT ![call[s].bid].status = "awarded"] ELSE bid
  /\ End(s)
  /\ UNCHANGED orders

------------------------------------------------------------------------------
(* rfq_unaward_line reads the award and counts the orders of the RFQ, ...     *)
UnawardRead(s, l) ==
  /\ award[l] # NoAward
  /\ OrderedBids = {}
  /\ Begin(s, [Idle EXCEPT !.pc = "unaward", !.line = l, !.bid = award[l].bid])
  /\ UNCHANGED <<bid, award, orders>>

(* ... deletes the award by its id, if another has not, ...                   *)
UnawardGone(s) ==
  /\ call[s].pc = "unaward" /\ ~Held(call[s].line)
  /\ call[s].gone
  /\ End(s)
  /\ UNCHANGED <<bid, award, orders>>

UnawardDelete(s) ==
  /\ call[s].pc = "unaward" /\ ~Held(call[s].line)
  /\ ~call[s].gone
  /\ Goto(s, [call[s] EXCEPT !.pc = "count"])
  /\ UNCHANGED <<bid, award, orders>>

(* Mutant: the trigger reverts the bid whichever of its awards goes.          *)
UnawardCountNone(s) ==
  /\ call[s].pc = "count"
  /\ Goto(s, [call[s] EXCEPT !.pc = "reverting"])
  /\ UNCHANGED <<bid, award, orders>>

(* ... whose trigger counts the awards that the bid has left, ...             *)
UnawardCount(s) ==
  /\ call[s].pc = "count"
  /\ LET left == AwardsOf(call[s].bid) \ {call[s].line} IN
     Goto(s, [call[s] EXCEPT !.pc = IF left = {} THEN "reverting" ELSE "deleted"])
  /\ UNCHANGED <<bid, award, orders>>

(* ... takes the bid's row and reverts it if there is none, ...               *)
UnawardRevert(s) ==
  /\ call[s].pc = "reverting"
  /\ bid[call[s].bid].status = "awarded" /\ ~Locked(call[s].bid)
  /\ Goto(s, [call[s] EXCEPT !.pc = "reverted"])
  /\ UNCHANGED <<bid, award, orders>>

UnawardReverted(s) ==
  /\ call[s].pc = "reverting"
  /\ bid[call[s].bid].status # "awarded"
  /\ Goto(s, [call[s] EXCEPT !.pc = "deleted"])
  /\ UNCHANGED <<bid, award, orders>>

(* ... and commits: another call that read the same award finds it gone.      *)
UnawardCommit(s) ==
  /\ call[s].pc \in {"reverted", "deleted"}
  /\ award' = [award EXCEPT ![call[s].line] = NoAward]
  /\ bid' = IF call[s].pc = "reverted" THEN [bid EXCEPT ![call[s].bid].status = "submitted"] ELSE bid
  /\ call' = [t \in Session |->
       IF t = s THEN Idle
       ELSE IF call[t].pc = "unaward" /\ call[t].line = call[s].line
       THEN [call[t] EXCEPT !.gone = TRUE]
       ELSE call[t]]
  /\ UNCHANGED <<orders, serial>>

------------------------------------------------------------------------------
(* generatePosFromAwards reads the awards, which must cover every line, ...   *)
GenerateAwards(s) ==
  /\ \A l \in Line : award[l] # NoAward
  /\ Begin(s, [Idle EXCEPT !.pc = "orders", !.plan = award])
  /\ UNCHANGED <<bid, award, orders>>

(* Mutant: orders that exist already are not looked for.                      *)
GenerateAll(s) ==
  /\ call[s].pc = "orders"
  /\ Goto(s, [call[s] EXCEPT !.pc = "numbers", !.todo = {call[s].plan[l].bid : l \in Line}])
  /\ UNCHANGED <<bid, award, orders>>

(* ... the vendors that have an order already, ...                            *)
GenerateOrders(s) ==
  /\ call[s].pc = "orders"
  /\ Goto(s, [call[s] EXCEPT !.pc = "numbers",
                             !.todo = {call[s].plan[l].bid : l \in Line} \ OrderedBids])
  /\ UNCHANGED <<bid, award, orders>>

(* ... and the numbers in use; a number that is taken is drawn again once, ... *)
GenerateNumbers(s) ==
  /\ call[s].pc \in {"numbers", "refresh"}
  /\ Goto(s, [call[s] EXCEPT !.pc = "insert", !.seed = LastNumber, !.again = (call[s].pc = "refresh")])
  /\ UNCHANGED <<bid, award, orders>>

(* ... and inserts an order for each vendor that is left, ...                 *)
GenerateInsert(s, b) ==
  /\ call[s].pc = "insert" /\ b \in call[s].todo
  /\ LET n == call[s].seed + 1 IN
     /\ n \in Number /\ orders[n] = NoOrder
     /\ orders' = [orders EXCEPT ![n] =
          [bid |-> b,
           lines |-> {<<l, call[s].plan[l].price>> : l \in {k \in Line : call[s].plan[k].bid = b}}]]
     /\ Goto(s, [call[s] EXCEPT !.todo = call[s].todo \ {b}, !.seed = n, !.again = FALSE])
  /\ UNCHANGED <<bid, award>>

GenerateCollision(s) ==
  /\ call[s].pc = "insert" /\ call[s].todo # {}
  /\ call[s].seed + 1 \in Number /\ orders[call[s].seed + 1] # NoOrder
  /\ IF call[s].again THEN End(s) ELSE Goto(s, [call[s] EXCEPT !.pc = "refresh"])
  /\ UNCHANGED <<bid, award, orders>>

(* ... and answers.                                                           *)
GenerateEnd(s) ==
  /\ call[s].pc = "insert" /\ call[s].todo = {}
  /\ End(s)
  /\ UNCHANGED <<bid, award, orders>>

(* The call stops; a transaction that did not commit is rolled back.          *)
Stop(s) ==
  /\ call[s] # Idle
  /\ End(s)
  /\ UNCHANGED <<bid, award, orders>>

------------------------------------------------------------------------------
Submit(s) ==
  \/ \E b \in Bid, p \in Price : SubmitRead(s, b, p)
  \/ SubmitWrite(s) \/ SubmitRefused(s)

AwardLine(s) ==
  \/ \E l \in Line, b \in Bid : AwardRead(s, l, b)
  \/ AwardTaken(s) \/ AwardInsert(s) \/ AwardKeep(s) \/ AwardFlip(s) \/ AwardCommit(s)

UnawardLine(s) ==
  \/ \E l \in Line : UnawardRead(s, l)
  \/ UnawardGone(s) \/ UnawardDelete(s) \/ UnawardCount(s)
  \/ UnawardRevert(s) \/ UnawardReverted(s) \/ UnawardCommit(s)

Generate(s) ==
  \/ GenerateAwards(s) \/ GenerateOrders(s) \/ GenerateNumbers(s)
  \/ \E b \in Bid : GenerateInsert(s, b)
  \/ GenerateCollision(s) \/ GenerateEnd(s)

Next == \E s \in Session : Submit(s) \/ AwardLine(s) \/ UnawardLine(s) \/ Generate(s) \/ Stop(s)

Spec == Init /\ [][Next]_vars

------------------------------------------------------------------------------
(* The consistency audit's class C1 (status-consistency.test.ts:67): a bid is *)
(* awarded if and only if an award of one of its lines exists.                *)
BidMirrorsAwards == \A b \in Bid : bid[b].status = "awarded" <=> AwardsOf(b) # {}

(* The same while no two calls overlapped, though calls stopped anywhere.     *)
BidMirrorsAwardsSerially == serial => BidMirrorsAwards

(* A bid that is awarded keeps its price, though submitBid writes the bid by  *)
(* its id after a read of its status that may be out of date ("bid_locked",   *)
(* rfq.functions.ts:561; rfq_bids_guard_award_status).                        *)
AwardedBidIsFrozen ==
  [][\A b \in Bid : bid[b].status = "awarded" => bid'[b].price = bid[b].price]_vars

(* po.functions.ts:351 and "award_locked": while no two calls overlapped, a   *)
(* vendor has one order, for lines that are awarded to it at the price it     *)
(* bids, though generations stopped half-way and were run again.              *)
OrdersAreAwardedSerially ==
  serial =>
    /\ \A m, n \in Number : orders[m].bid \in Bid /\ orders[m].bid = orders[n].bid => m = n
    /\ \A n \in Number : \A x \in orders[n].lines :
         /\ award[x[1]].bid = orders[n].bid /\ award[x[1]].price = x[2]
         /\ bid[orders[n].bid].price = x[2]
==============================================================================
