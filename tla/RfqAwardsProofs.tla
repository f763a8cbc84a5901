---------------------------- MODULE RfqAwardsProofs ----------------------------
(* Whatever the number of calls, lines and bids: an awarded bid keeps its     *)
(* price, and calls that do not overlap leave every bid with the status that  *)
(* its awards say, wherever they stop.                                        *)
EXTENDS RfqAwards, TLAPS

Awarding == {"sync", "kept", "flipped"}
Unawarding == {"unaward", "count", "reverting", "reverted", "deleted"}

BidRow == [status : {"invited", "submitted", "awarded"}, price : Price \cup {NoPrice}]

AwardRow == {NoAward} \cup [bid : Bid, price : Price \cup {NoPrice}]

(* What is read from the rows of the RFQ stays in range.                      *)
InRange ==
  /\ bid \in [Bid -> BidRow]
  /\ award \in [Line -> AwardRow]
  /\ \A s \in Session :
       /\ call[s].pc \in {"bid"} \cup {"award"} \cup Awarding \cup Unawarding =>
            call[s].bid \in Bid
       /\ call[s].pc \in {"bid"} \cup {"award"} \cup Awarding =>
            call[s].price \in Price \cup {NoPrice}
       /\ call[s].pc \in {"award"} \cup Awarding \cup Unawarding => call[s].line \in Line
  /\ DOMAIN call = Session
  /\ serial \in BOOLEAN

(* What a call that runs alone knows of its line and its bid.                 *)
Knows(c) ==
  /\ c.pc \in Awarding => award[c.line].bid = NoBid
  /\ c.pc = "kept" => bid[c.bid].status = "awarded"
  /\ c.pc \in Unawarding => award[c.line].bid = c.bid
  /\ c.pc \in {"reverting", "reverted"} => AwardsOf(c.bid) = {c.line}
  /\ c.pc = "deleted" => AwardsOf(c.bid) # {c.line}

Alone == \A s, t \in Session : call[s] # Idle /\ call[t] # Idle => s = t

InTurn == Alone /\ BidMirrorsAwards /\ \A s \in Session : Knows(call[s])

AwardInvariant == InRange /\ (serial => InTurn)

LEMMA AwardInit == Init => AwardInvariant
  BY AwardAssumption
     DEF Init, AwardInvariant, InTurn, InRange, BidRow, AwardRow, NoAward, Awarding,
         Unawarding, Alone, BidMirrorsAwards, AwardsOf, Knows, Idle

(* The shape of a call that has gone on to c.                                 *)
Fits(c) ==
  /\ c.pc \in {"bid"} \cup {"award"} \cup Awarding \cup Unawarding => c.bid \in Bid
  /\ c.pc \in {"bid"} \cup {"award"} \cup Awarding => c.price \in Price \cup {NoPrice}
  /\ c.pc \in {"award"} \cup Awarding \cup Unawarding => c.line \in Line

(* A call that begins, goes on or ends with c while the bids and the awards   *)
(* stay: it must know what c is to know.                                      *)
LEMMA CallMoves ==
  ASSUME AwardInvariant, NEW s \in Session, NEW c, Fits(c),
         call' = [call EXCEPT ![s] = c], UNCHANGED <<bid, award>>,
         \/ call[s] # Idle /\ UNCHANGED serial
         \/ serial' = (serial /\ \A t \in Session : call[t] = Idle),
         serial => Knows(c)
  PROVE  AwardInvariant'
  <1>1. DOMAIN call = Session /\ serial \in BOOLEAN
    BY DEF AwardInvariant, InRange
  <1>2. /\ call'[s] = c /\ DOMAIN call' = Session
        /\ \A t \in Session : t # s => call'[t] = call[t]
    BY <1>1
  <1>3. InRange'
    BY <1>1, <1>2 DEF AwardInvariant, InRange, Fits
  <1>4. ASSUME serial' PROVE InTurn'
    <2>1. serial
      BY <1>4, <1>1
    <2>2. \A t \in Session : t # s => call[t] = Idle
      BY <1>4, <1>1, <2>1 DEF AwardInvariant, InTurn, Alone
    <2>3. Alone'
      <3>1. \A t \in Session : t # s => call'[t] = Idle
        BY <1>2, <2>2
      <3> QED
        BY <3>1 DEF Alone
    <2>4. BidMirrorsAwards'
      BY <2>1 DEF AwardInvariant, InTurn, BidMirrorsAwards, AwardsOf
    <2>5. \A t \in Session : Knows(call[t])'
      BY <1>2, <2>1 DEF AwardInvariant, InTurn, Knows, AwardsOf
    <2> QED
      BY <2>3, <2>4, <2>5 DEF InTurn
  <1> QED
    BY <1>3, <1>4 DEF AwardInvariant

(* A call that ends with a commit, after which nobody is in the middle of     *)
(* anything if it ran alone.                                                  *)
LEMMA CallCommits ==
  ASSUME AwardInvariant, NEW s \in Session, call[s] # Idle, UNCHANGED serial,
         DOMAIN call' = Session, call'[s] = Idle,
         \A t \in Session : t # s =>
           /\ call'[t].pc = call[t].pc /\ call'[t].line = call[t].line
           /\ call'[t].bid = call[t].bid /\ call'[t].price = call[t].price,
         \A t \in Session : t # s /\ call[t] = Idle => call'[t] = Idle,
         bid' \in [Bid -> BidRow],
         award' \in [Line -> AwardRow],
         serial => BidMirrorsAwards'
  PROVE  AwardInvariant'
  <1>1. InRange'
    BY DEF AwardInvariant, InRange, Idle, Awarding, Unawarding
  <1>2. ASSUME serial PROVE InTurn'
    <2>1. \A t \in Session : call'[t] = Idle
      BY <1>2 DEF AwardInvariant, InTurn, Alone
    <2> QED
      BY <1>2, <2>1 DEF InTurn, Alone, Knows, Idle, Awarding, Unawarding
  <1> QED
    BY <1>1, <1>2 DEF AwardInvariant

------------------------------------------------------------------------------
(* A call that ends and leaves the bids and the awards alone.                 *)
LEMMA CallEnds ==
  ASSUME AwardInvariant, NEW s \in Session, call[s].pc # "idle", End(s), UNCHANGED <<bid, award>>
  PROVE  AwardInvariant'
  <1>1. Fits(Idle) /\ Knows(Idle)
    BY DEF Fits, Knows, Idle, Awarding, Unawarding
  <1>2. call[s] # Idle /\ call' = [call EXCEPT ![s] = Idle] /\ UNCHANGED serial
    BY DEF Idle, End, Goto
  <1> QED
    BY <1>1, <1>2, CallMoves

LEMMA AwardStep ==
  ASSUME AwardInvariant, NEW s \in Session, AwardLine(s) PROVE AwardInvariant'
  <1> USE AwardAssumption
  <1> SUFFICES ASSUME NEW l, l = call[s].line, NEW x, x = call[s].bid
               PROVE  AwardInvariant'
    OBVIOUS
  <1> DEFINE At(pc) == [call[s] EXCEPT !.pc = pc]
  <1>1. ASSUME NEW k \in Line, NEW b \in Bid, AwardRead(s, k, b) PROVE AwardInvariant'
    <2> DEFINE c == [Idle EXCEPT !.pc = "award", !.line = k, !.bid = b, !.price = bid[b].price]
    <2>1. Fits(c) /\ Knows(c)
      BY DEF Fits, Knows, Idle, Awarding, Unawarding, AwardInvariant, InRange, BidRow, AwardRow, NoAward
    <2> QED
      BY <1>1, <2>1, CallMoves DEF AwardRead, Begin
  <1>2. CASE AwardTaken(s)
    BY <1>2, CallEnds DEF AwardTaken
  <1>3. ASSUME call[s].pc \in {"award", "sync"}, NEW pc \in Awarding,
               call' = [call EXCEPT ![s] = At(pc)], UNCHANGED <<bid, award, serial>>,
               call[s].pc = "award" => award[l] = NoAward,
               pc = "kept" => bid[x].status = "awarded"
        PROVE  AwardInvariant'
    <2>1. Fits(At(pc))
      BY <1>3 DEF Fits, Awarding, Unawarding, AwardInvariant, InRange
    <2>2. serial => Knows(At(pc))
      BY <1>3 DEF Knows, Awarding, Unawarding, AwardInvariant, InTurn, NoAward
    <2>3. call[s] # Idle
      BY <1>3 DEF Idle
    <2> QED
      BY <1>3, <2>1, <2>2, <2>3, CallMoves
  <1>4. CASE AwardInsert(s)
    BY <1>3, <1>4 DEF AwardInsert, Goto, Awarding
  <1>5. CASE AwardKeep(s)
    BY <1>3, <1>5 DEF AwardKeep, Goto, Awarding
  <1>6. CASE AwardFlip(s)
    BY <1>3, <1>6 DEF AwardFlip, Goto, Awarding
  <1>7. CASE AwardCommit(s)
    <2>1. /\ l \in Line /\ x \in Bid /\ call[s].price \in Price \cup {NoPrice}
          /\ call[s].pc \in {"kept", "flipped"} /\ call[s] # Idle
          /\ award' = [award EXCEPT ![l] = [bid |-> x, price |-> call[s].price]]
          /\ bid' = IF call[s].pc = "flipped" THEN [bid EXCEPT ![x].status = "awarded"] ELSE bid
          /\ UNCHANGED serial /\ call' = [call EXCEPT ![s] = Idle]
      BY <1>7 DEF AwardCommit, End, Goto, AwardInvariant, InRange, Awarding, Idle
    <2>2. /\ bid' \in [Bid -> BidRow]
          /\ award' \in [Line -> AwardRow]
      BY <2>1 DEF AwardInvariant, InRange, BidRow, AwardRow, NoAward
    <2>3. ASSUME serial PROVE BidMirrorsAwards'
      <3>1. award[l].bid = NoBid /\ (call[s].pc = "kept" => bid[x].status = "awarded")
        BY <2>1, <2>3 DEF AwardInvariant, InTurn, Knows, Awarding
      <3>2. l \in AwardsOf(x)' /\ bid'[x].status = "awarded"
        BY <2>1, <3>1 DEF AwardInvariant, InRange, BidRow, AwardRow, NoAward, AwardsOf
      <3>3. ASSUME NEW b \in Bid, b # x PROVE AwardsOf(b)' = AwardsOf(b) /\ bid'[b] = bid[b]
        BY <2>1, <3>1, <3>3 DEF AwardInvariant, InRange, AwardsOf
      <3> QED
        BY <2>3, <3>2, <3>3 DEF AwardInvariant, InTurn, BidMirrorsAwards
    <2>4. /\ DOMAIN call' = Session /\ call'[s] = Idle
          /\ \A t \in Session : t # s => call'[t] = call[t]
      BY <2>1 DEF AwardInvariant, InRange
    <2> QED
      BY <2>1, <2>2, <2>3, <2>4, CallCommits
  <1> QED
    BY <1>1, <1>2, <1>4, <1>5, <1>6, <1>7 DEF AwardLine

LEMMA UnawardStep ==
  ASSUME AwardInvariant, NEW s \in Session, UnawardLine(s) PROVE AwardInvariant'
  <1> USE AwardAssumption
  <1> SUFFICES ASSUME NEW l, l = call[s].line, NEW x, x = call[s].bid
               PROVE  AwardInvariant'
    OBVIOUS
  <1> DEFINE At(pc) == [call[s] EXCEPT !.pc = pc]
  <1>1. ASSUME NEW k \in Line, UnawardRead(s, k) PROVE AwardInvariant'
    <2> DEFINE c == [Idle EXCEPT !.pc = "unaward", !.line = k, !.bid = award[k].bid]
    <2>1. award[k] # NoAward /\ award[k].bid \in Bid
      BY <1>1 DEF UnawardRead, AwardInvariant, InRange, AwardRow
    <2>2. Fits(c) /\ Knows(c)
      BY <2>1 DEF Fits, Knows, Idle, Awarding, Unawarding
    <2> QED
      BY <1>1, <2>2, CallMoves DEF UnawardRead, Begin
  <1>2. CASE UnawardGone(s)
    BY <1>2, CallEnds DEF UnawardGone
  <1>3. ASSUME call[s].pc \in {"unaward", "count", "reverting"}, NEW pc \in Unawarding,
               call' = [call EXCEPT ![s] = At(pc)], UNCHANGED <<bid, award, serial>>,
               serial => /\ pc \in {"reverting", "reverted"} => AwardsOf(x) = {l}
                         /\ pc = "deleted" => AwardsOf(x) # {l}
        PROVE  AwardInvariant'
    <2>1. Fits(At(pc))
      BY <1>3 DEF Fits, Awarding, Unawarding, AwardInvariant, InRange
    <2>2. serial => Knows(At(pc))
      BY <1>3 DEF Knows, Awarding, Unawarding, AwardInvariant, InTurn
    <2>3. call[s] # Idle
      BY <1>3 DEF Idle
    <2> QED
      BY <1>3, <2>1, <2>2, <2>3, CallMoves
  <1>4. CASE UnawardDelete(s)
    BY <1>3, <1>4 DEF UnawardDelete, Goto, Unawarding
  <1>5. CASE UnawardCount(s)
    <2>1. l \in Line /\ (serial => l \in AwardsOf(x))
      BY <1>5 DEF UnawardCount, AwardInvariant, InTurn, InRange, Knows, Awarding, Unawarding, AwardsOf
    <2>2. CASE AwardsOf(x) \ {l} = {}
      <3>1. serial => AwardsOf(x) = {l}
        BY <2>1, <2>2
      <3>2. call' = [call EXCEPT ![s] = At("reverting")]
        BY <1>5, <2>2 DEF UnawardCount, Goto
      <3> QED
        BY <1>3, <1>5, <3>1, <3>2 DEF UnawardCount, Goto, Unawarding
    <2>3. CASE AwardsOf(x) \ {l} # {}
      <3>1. AwardsOf(x) # {l}
        BY <2>3
      <3>2. call' = [call EXCEPT ![s] = At("deleted")]
        BY <1>5, <2>3 DEF UnawardCount, Goto
      <3> QED
        BY <1>3, <1>5, <3>1, <3>2 DEF UnawardCount, Goto, Unawarding
    <2> QED
      BY <2>2, <2>3
  <1>6. CASE UnawardRevert(s)
    <2>1. serial => AwardsOf(x) = {l}
      BY <1>6 DEF UnawardRevert, AwardInvariant, InTurn, Knows
    <2> QED
      BY <1>3, <1>6, <2>1 DEF UnawardRevert, Goto, Unawarding
  <1>7. CASE UnawardReverted(s)
    <2>1. x \in Bid /\ (serial => AwardsOf(x) = {l})
      BY <1>7 DEF UnawardReverted, AwardInvariant, InTurn, InRange, Knows, Unawarding
    <2>2. ~serial
      BY <1>7, <2>1 DEF UnawardReverted, AwardInvariant, InTurn, BidMirrorsAwards
    <2> QED
      BY <1>3, <1>7, <2>2 DEF UnawardReverted, Goto, Unawarding
  <1>8. CASE UnawardCommit(s)
    <2>1. /\ l \in Line /\ x \in Bid /\ call[s].pc \in {"reverted", "deleted"} /\ call[s] # Idle
          /\ award' = [award EXCEPT ![l] = NoAward]
          /\ bid' = IF call[s].pc = "reverted" THEN [bid EXCEPT ![x].status = "submitted"] ELSE bid
          /\ UNCHANGED serial
      BY <1>8 DEF UnawardCommit, AwardInvariant, InRange, Unawarding, Idle
    <2>2. bid' \in [Bid -> BidRow] /\ award' \in [Line -> AwardRow]
      BY <2>1 DEF AwardInvariant, InRange, BidRow, AwardRow
    <2>3. ASSUME serial PROVE BidMirrorsAwards'
      <3>1. /\ award[l].bid = x
            /\ call[s].pc = "reverted" => AwardsOf(x) = {l}
            /\ call[s].pc = "deleted" => AwardsOf(x) # {l}
        BY <2>1, <2>3 DEF AwardInvariant, InTurn, Knows, Unawarding
      <3>2. AwardsOf(x)' = AwardsOf(x) \ {l} /\ l \in AwardsOf(x)
        BY <2>1, <3>1 DEF AwardInvariant, InRange, AwardsOf, NoAward
      <3>3. bid[x].status = "awarded"
        BY <2>1, <2>3, <3>2 DEF AwardInvariant, InTurn, BidMirrorsAwards
      <3>4. bid'[x].status = "awarded" <=> AwardsOf(x)' # {}
        BY <2>1, <3>1, <3>2, <3>3 DEF AwardInvariant, InRange
      <3>5. ASSUME NEW b \in Bid, b # x PROVE AwardsOf(b)' = AwardsOf(b) /\ bid'[b] = bid[b]
        BY <2>1, <3>1, <3>5 DEF AwardInvariant, InRange, AwardsOf, NoAward
      <3> QED
        BY <2>3, <3>4, <3>5 DEF AwardInvariant, InTurn, BidMirrorsAwards
    <2>4. /\ DOMAIN call' = Session /\ call'[s] = Idle
          /\ \A t \in Session : t # s =>
               /\ call'[t].pc = call[t].pc /\ call'[t].line = call[t].line
               /\ call'[t].bid = call[t].bid /\ call'[t].price = call[t].price
          /\ \A t \in Session : t # s /\ call[t] = Idle => call'[t] = Idle
      <3>1. call' = [t \in Session |->
              IF t = s THEN Idle
              ELSE IF call[t].pc = "unaward" /\ call[t].line = l
              THEN [call[t] EXCEPT !.gone = TRUE]
              ELSE call[t]]
        BY <1>8 DEF UnawardCommit
      <3>2. ASSUME NEW t \in Session, t # s, call[t] = Idle PROVE call'[t] = Idle
        BY <3>1, <3>2 DEF Idle
      <3>3. ASSUME NEW t \in Session, t # s
            PROVE  /\ call'[t].pc = call[t].pc /\ call'[t].line = call[t].line
                   /\ call'[t].bid = call[t].bid /\ call'[t].price = call[t].price
        BY <3>1, <3>3
      <3>4. DOMAIN call' = Session /\ call'[s] = Idle
        BY <3>1
      <3> QED
        BY <3>2, <3>3, <3>4
    <2> QED
      BY <2>1, <2>2, <2>3, <2>4, CallCommits
  <1> QED
    BY <1>1, <1>2, <1>4, <1>5, <1>6, <1>7, <1>8 DEF UnawardLine

------------------------------------------------------------------------------
LEMMA SubmitStep ==
  ASSUME AwardInvariant, NEW s \in Session, Submit(s) PROVE AwardInvariant'
  <1> USE AwardAssumption
  <1>1. ASSUME NEW b \in Bid, NEW p \in Price, SubmitRead(s, b, p) PROVE AwardInvariant'
    <2> DEFINE c == [Idle EXCEPT !.pc = "bid", !.bid = b, !.price = p]
    <2>1. Fits(c) /\ Knows(c)
      BY DEF Fits, Knows, Idle, Awarding, Unawarding
    <2> QED
      BY <1>1, <2>1, CallMoves DEF SubmitRead, Begin
  <1>2. CASE SubmitWrite(s)
    <2> SUFFICES ASSUME NEW x, x = call[s].bid PROVE AwardInvariant'
      OBVIOUS
    <2>1. /\ x \in Bid /\ call[s].price \in Price \cup {NoPrice} /\ bid[x].status # "awarded"
          /\ bid' = [bid EXCEPT ![x] = [status |-> "submitted", price |-> call[s].price]]
          /\ UNCHANGED <<award, serial>> /\ call' = [call EXCEPT ![s] = Idle] /\ call[s] # Idle
      BY <1>2 DEF SubmitWrite, End, Goto, AwardInvariant, InRange, Idle
    <2>2. bid' \in [Bid -> BidRow]
      BY <2>1 DEF AwardInvariant, InRange, BidRow, AwardRow, NoAward
    <2>3. serial => BidMirrorsAwards'
      BY <2>1 DEF AwardInvariant, InTurn, InRange, BidMirrorsAwards, AwardsOf
    <2>4. /\ DOMAIN call' = Session /\ call'[s] = Idle
          /\ \A t \in Session : t # s => call'[t] = call[t]
      BY <2>1 DEF AwardInvariant, InRange
    <2>5. award' \in [Line -> AwardRow]
      BY <2>1 DEF AwardInvariant, InRange
    <2> QED
      BY <2>1, <2>2, <2>3, <2>4, <2>5, CallCommits
  <1>3. CASE SubmitRefused(s)
    BY <1>3, CallEnds DEF SubmitRefused
  <1> QED
    BY <1>1, <1>2, <1>3 DEF Submit

Generating(c) == c.pc \in {"orders", "numbers", "insert", "refresh"}

(* A generation of orders that begins or goes on.                             *)
LEMMA Generates ==
  ASSUME AwardInvariant, NEW s \in Session, NEW c,
         Generating(c),
         call' = [call EXCEPT ![s] = c], UNCHANGED <<bid, award>>,
         \/ call[s] # Idle /\ UNCHANGED serial
         \/ serial' = (serial /\ \A t \in Session : call[t] = Idle)
  PROVE  AwardInvariant'
  <1>1. Fits(c) /\ Knows(c)
    BY DEF Generating, Fits, Knows, Awarding, Unawarding
  <1> QED
    BY <1>1, CallMoves

(* It touches neither the bids nor the awards.                                *)
LEMMA GenerateStep ==
  ASSUME AwardInvariant, NEW s \in Session, Generate(s) PROVE AwardInvariant'
  <1>2. CASE GenerateAwards(s)
    <2>0. PICK c : c = [Idle EXCEPT !.pc = "orders", !.plan = award]
      OBVIOUS
    <2>1. Generating(c)
      BY <2>0 DEF Generating, Idle
    <2>2. /\ call' = [call EXCEPT ![s] = c] /\ UNCHANGED <<bid, award>>
          /\ serial' = (serial /\ \A t \in Session : call[t] = Idle)
      BY <2>0, <1>2 DEF GenerateAwards, Begin
    <2> QED
      BY <2>1, <2>2, Generates
  <1>3. CASE GenerateOrders(s)
    <2>0. PICK c : c = [call[s] EXCEPT !.pc = "numbers",
                             !.todo = {call[s].plan[l].bid : l \in Line} \ OrderedBids]
      OBVIOUS
    <2>1. Generating(c) /\ call[s] # Idle
      BY <2>0, <1>3 DEF Generating, GenerateOrders, Idle
    <2>2. call' = [call EXCEPT ![s] = c] /\ UNCHANGED <<bid, award, serial>>
      BY <2>0, <1>3 DEF GenerateOrders, Goto
    <2> QED
      BY <2>1, <2>2, Generates
  <1>4. CASE GenerateNumbers(s)
    <2>0. PICK c : c = [call[s] EXCEPT !.pc = "insert", !.seed = LastNumber,
                             !.again = (call[s].pc = "refresh")]
      OBVIOUS
    <2>1. Generating(c) /\ call[s] # Idle
      BY <2>0, <1>4 DEF Generating, GenerateNumbers, Idle
    <2>2. call' = [call EXCEPT ![s] = c] /\ UNCHANGED <<bid, award, serial>>
      BY <2>0, <1>4 DEF GenerateNumbers, Goto
    <2> QED
      BY <2>1, <2>2, Generates
  <1>5. ASSUME NEW b \in Bid, GenerateInsert(s, b) PROVE AwardInvariant'
    <2>0. PICK c : c = [call[s] EXCEPT !.todo = call[s].todo \ {b}, !.seed = call[s].seed + 1,
                                    !.again = FALSE]
      OBVIOUS
    <2>1. Generating(c) /\ call[s] # Idle
      BY <2>0, <1>5 DEF Generating, GenerateInsert, Idle
    <2>2. call' = [call EXCEPT ![s] = c] /\ UNCHANGED <<bid, award, serial>>
      BY <2>0, <1>5 DEF GenerateInsert, Goto
    <2> QED
      BY <2>1, <2>2, Generates
  <1>6. CASE GenerateCollision(s)
    <2>1. CASE call[s].again
      BY <1>6, <2>1, CallEnds DEF GenerateCollision
    <2>2. CASE ~call[s].again
      <3>0. PICK c : c = [call[s] EXCEPT !.pc = "refresh"]
        OBVIOUS
      <3>1. Generating(c) /\ call[s] # Idle
        BY <3>0, <1>6 DEF Generating, GenerateCollision, Idle
      <3>2. call' = [call EXCEPT ![s] = c] /\ UNCHANGED <<bid, award, serial>>
        BY <3>0, <1>6, <2>2 DEF GenerateCollision, Goto
      <3> QED
        BY <3>1, <3>2, Generates
    <2> QED
      BY <2>1, <2>2
  <1>7. CASE GenerateEnd(s)
    BY <1>7, CallEnds DEF GenerateEnd
  <1> QED
    BY <1>2, <1>3, <1>4, <1>5, <1>6, <1>7 DEF Generate

LEMMA StopStep ==
  ASSUME AwardInvariant, NEW s \in Session, Stop(s) PROVE AwardInvariant'
  <1>1. Fits(Idle) /\ Knows(Idle)
    BY DEF Fits, Knows, Idle, Awarding, Unawarding
  <1>2. call[s] # Idle /\ call' = [call EXCEPT ![s] = Idle] /\ UNCHANGED <<bid, award, serial>>
    BY DEF Stop, End, Goto
  <1> QED
    BY <1>1, <1>2, CallMoves

LEMMA AwardNext ==
  ASSUME AwardInvariant, [Next]_vars PROVE AwardInvariant'
  <1>1. ASSUME NEW s \in Session,
               Submit(s) \/ AwardLine(s) \/ UnawardLine(s) \/ Generate(s) \/ Stop(s)
        PROVE  AwardInvariant'
    BY <1>1, SubmitStep, AwardStep, UnawardStep, GenerateStep, StopStep
  <1>2. CASE UNCHANGED vars
    BY <1>2 DEF vars, AwardInvariant, InRange, InTurn, Alone, BidMirrorsAwards, AwardsOf, Knows
  <1> QED
    BY <1>1, <1>2 DEF Next

LEMMA AwardInductive == Spec => []AwardInvariant
  BY AwardInit, AwardNext, PTL DEF Spec

(* BidMirrorsAwardsSerially, for any number of calls, lines and bids: what    *)
(* the triggers of the award table derive is right as long as no other call   *)
(* comes between the count and the commit, so the drift needs an overlap.     *)
THEOREM StatusFollowsAwards == Spec => []BidMirrorsAwardsSerially
  <1>1. AwardInvariant => BidMirrorsAwardsSerially
    BY DEF AwardInvariant, InTurn, BidMirrorsAwardsSerially
  <1> QED
    BY <1>1, AwardInductive, PTL

(* Every step leaves the price of an awarded bid alone.                       *)
LEMMA PriceStep ==
  ASSUME AwardInvariant, [Next]_vars, NEW b \in Bid, bid[b].status = "awarded"
  PROVE  bid'[b].price = bid[b].price
  <1>1. bid \in [Bid -> BidRow]
    BY DEF AwardInvariant, InRange
  <1>2. ASSUME NEW s \in Session, Submit(s) PROVE bid'[b].price = bid[b].price
    BY <1>1, <1>2 DEF Submit, SubmitRead, SubmitWrite, SubmitRefused
  <1>3. ASSUME NEW s \in Session, AwardLine(s) PROVE bid'[b].price = bid[b].price
    <2>1. CASE AwardCommit(s)
      BY <1>1, <2>1 DEF AwardCommit, BidRow
    <2> QED
      BY <1>3, <2>1 DEF AwardLine, AwardRead, AwardTaken, AwardInsert, AwardKeep, AwardFlip
  <1>4. ASSUME NEW s \in Session, UnawardLine(s) PROVE bid'[b].price = bid[b].price
    <2>1. CASE UnawardCommit(s)
      BY <1>1, <2>1 DEF UnawardCommit, BidRow
    <2> QED
      BY <1>4, <2>1 DEF UnawardLine, UnawardRead, UnawardGone, UnawardDelete, UnawardCount,
                        UnawardRevert, UnawardReverted
  <1>5. ASSUME NEW s \in Session, Generate(s) \/ Stop(s) PROVE bid'[b].price = bid[b].price
    BY <1>5 DEF Generate, GenerateAwards, GenerateOrders, GenerateNumbers, GenerateInsert,
                GenerateCollision, GenerateEnd, Stop
  <1> QED
    BY <1>2, <1>3, <1>4, <1>5 DEF Next, vars

(* AwardedBidIsFrozen, for any number of calls that overlap in any way: a     *)
(* submission that read its bid before the award cannot change its price.     *)
THEOREM AwardedPriceStands == Spec => AwardedBidIsFrozen
  <1>1. AwardInvariant /\ [Next]_vars =>
          [\A b \in Bid : bid[b].status = "awarded" => bid'[b].price = bid[b].price]_vars
    BY PriceStep
  <1> QED
    BY <1>1, AwardInductive, PTL DEF Spec, AwardedBidIsFrozen

------------------------------------------------------------------------------
(* Orders from awards.                                                        *)
OrdersInRange ==
  /\ DOMAIN orders = Number
  /\ \A n \in Number : \/ orders[n] = NoOrder
                       \/ orders[n].bid \in Bid /\ \A x \in orders[n].lines : x[1] \in Line

(* A vendor has one order, for lines awarded to it at the awarded price, ...  *)
OneOrderPerBid ==
  \A m, n \in Number : orders[m].bid \in Bid /\ orders[m].bid = orders[n].bid => m = n

LinesAreAwarded ==
  \A n \in Number : \A x \in orders[n].lines :
    award[x[1]].bid = orders[n].bid /\ award[x[1]].price = x[2]

(* ... which is the price of the bid.                                         *)
PricesAgree == \A l \in Line : award[l].bid \in Bid => bid[award[l].bid].price = award[l].price

(* What a call that runs alone knows of prices and orders: the price it read, *)
(* that nothing is ordered of an RFQ it takes an award back from, the awards  *)
(* it generates orders from, and which vendors have none.                     *)
Counts(c) ==
  /\ c.pc \in {"award"} \cup Awarding => c.price = bid[c.bid].price
  /\ c.pc \in Unawarding => OrderedBids = {}
  /\ Generating(c) => c.plan = award /\ \A l \in Line : award[l] # NoAward
  /\ c.pc \in {"numbers", "insert", "refresh"} => c.todo \subseteq Bid \ OrderedBids

OrdersInTurn ==
  OneOrderPerBid /\ LinesAreAwarded /\ PricesAgree /\ \A s \in Session : Counts(call[s])

OrderInvariant ==
  /\ OrdersInRange
  /\ serial => OrdersInTurn

LEMMA OrderInit == Init => OrderInvariant
<1> SUFFICES ASSUME Init PROVE OrderInvariant
  OBVIOUS
<1>1. OrdersInRange /\ \A n \in Number : orders[n] = NoOrder
  BY DEF Init, OrdersInRange
<1>2. \A n \in Number : orders[n].bid \notin Bid /\ orders[n].lines = {}
  BY <1>1, AwardAssumption DEF NoOrder
<1>3. \A l \in Line : award[l].bid \notin Bid
  BY AwardAssumption DEF Init, NoAward
<1>4. \A s \in Session : Counts(call[s])
  BY DEF Init, Counts, Idle, Awarding, Unawarding, Generating
<1> QED
  BY <1>1, <1>2, <1>3, <1>4
     DEF OrderInvariant, OrdersInTurn, OneOrderPerBid, LinesAreAwarded, PricesAgree

(* A call that goes on or ends, and leaves bids, awards and orders alone.     *)
LEMMA OrdersWait ==
  ASSUME AwardInvariant, OrderInvariant, NEW s \in Session, NEW c,
         call' = [call EXCEPT ![s] = c], UNCHANGED <<bid, award, orders>>,
         serial' => serial, serial => Counts(c)
  PROVE  OrderInvariant'
<1>1. call'[s] = c /\ \A t \in Session : t # s => call'[t] = call[t]
  BY DEF AwardInvariant, InRange
<1>2. ASSUME serial' PROVE OrdersInTurn'
  <2>1. serial /\ OrdersInTurn
    BY <1>2 DEF OrderInvariant, OrdersInRange
  <2>2. ASSUME NEW t \in Session PROVE Counts(call[t])'
    <3>1. Counts(call'[t])
      BY <1>1, <2>1 DEF OrdersInTurn
    <3> QED
      BY <3>1 DEF Counts, OrderedBids
  <2> QED
    BY <2>1, <2>2 DEF OrdersInTurn, OneOrderPerBid, LinesAreAwarded, PricesAgree
<1> QED
  BY <1>2 DEF OrderInvariant, OrdersInRange

LEMMA CountsIdle == Counts(Idle)
  BY DEF Counts, Idle, Awarding, Unawarding, Generating

(* A call that ends with a write to the bids and the awards: nobody else is   *)
(* under way if it ran alone.                                                 *)
LEMMA OrdersStand ==
  ASSUME AwardInvariant, OrderInvariant, NEW s \in Session, call[s] # Idle, call'[s] = Idle,
         \A t \in Session : t # s /\ call[t] = Idle => call'[t] = Idle,
         UNCHANGED <<orders, serial>>, serial => LinesAreAwarded' /\ PricesAgree'
  PROVE  OrderInvariant'
<1>1. ASSUME serial PROVE OrdersInTurn'
  <2>1. \A t \in Session : call'[t] = Idle
    BY <1>1 DEF AwardInvariant, InTurn, Alone
  <2>2. \A t \in Session : Counts(call[t])'
    BY <2>1 DEF Counts, Idle, Awarding, Unawarding, Generating
  <2>3. OneOrderPerBid'
    BY <1>1 DEF OrderInvariant, OrdersInTurn, OneOrderPerBid
  <2> QED
    BY <1>1, <2>2, <2>3 DEF OrdersInTurn
<1> QED
  BY <1>1 DEF OrderInvariant, OrdersInRange

LEMMA OrdersEnd ==
  ASSUME AwardInvariant, OrderInvariant, NEW s \in Session, End(s),
         UNCHANGED <<bid, award, orders>>
  PROVE  OrderInvariant'
<1>1. call' = [call EXCEPT ![s] = Idle] /\ UNCHANGED serial
  BY DEF End, Goto
<1> QED
  BY <1>1, CountsIdle, OrdersWait

LEMMA SubmitOrders ==
  ASSUME AwardInvariant, OrderInvariant, NEW s \in Session, Submit(s) PROVE OrderInvariant'
<1>1. ASSUME NEW b \in Bid, NEW p \in Price, SubmitRead(s, b, p) PROVE OrderInvariant'
  <2>0. PICK c : c = [Idle EXCEPT !.pc = "bid", !.bid = b, !.price = p]
    OBVIOUS
  <2>1. Counts(c)
    BY <2>0 DEF Counts, Idle, Awarding, Unawarding, Generating
  <2>2. /\ call' = [call EXCEPT ![s] = c] /\ UNCHANGED <<bid, award, orders>>
        /\ serial' => serial
    BY <1>1, <2>0 DEF SubmitRead, Begin
  <2> QED
    BY <2>1, <2>2, OrdersWait
<1>2. CASE SubmitWrite(s)
  <2> SUFFICES ASSUME NEW x, x = call[s].bid PROVE OrderInvariant'
    OBVIOUS
  <2>1. /\ x \in Bid /\ bid[x].status # "awarded" /\ call[s] # Idle
        /\ bid' = [bid EXCEPT ![x] = [status |-> "submitted", price |-> call[s].price]]
        /\ UNCHANGED <<award, orders, serial>> /\ call' = [call EXCEPT ![s] = Idle]
    BY <1>2 DEF SubmitWrite, End, Goto, AwardInvariant, InRange, Idle
  <2>2. call'[s] = Idle /\ \A t \in Session : t # s => call'[t] = call[t]
    BY <2>1 DEF AwardInvariant, InRange
  <2>3. ASSUME serial PROVE LinesAreAwarded' /\ PricesAgree'
    <3>1. OrdersInTurn /\ AwardsOf(x) = {}
      BY <2>1, <2>3 DEF OrderInvariant, AwardInvariant, InTurn, BidMirrorsAwards
    <3>2. LinesAreAwarded'
      BY <2>1, <3>1 DEF OrdersInTurn, LinesAreAwarded
    <3>3. ASSUME NEW l \in Line, award[l].bid \in Bid
          PROVE  bid'[award[l].bid].price = award[l].price
      <4>1. award[l].bid # x
        BY <3>1 DEF AwardsOf
      <4>2. bid'[award[l].bid] = bid[award[l].bid]
        BY <2>1, <3>3, <4>1 DEF AwardInvariant, InRange
      <4> QED
        BY <3>1, <3>3, <4>2 DEF OrdersInTurn, PricesAgree
    <3> QED
      BY <2>1, <3>2, <3>3 DEF PricesAgree
  <2> QED
    BY <2>1, <2>2, <2>3, OrdersStand
<1>3. CASE SubmitRefused(s)
  BY <1>3, OrdersEnd DEF SubmitRefused
<1> QED
  BY <1>1, <1>2, <1>3 DEF Submit

LEMMA AwardOrders ==
  ASSUME AwardInvariant, OrderInvariant, NEW s \in Session, AwardLine(s) PROVE OrderInvariant'
<1> SUFFICES ASSUME NEW l, l = call[s].line, NEW x, x = call[s].bid
             PROVE  OrderInvariant'
  OBVIOUS
<1>1. ASSUME NEW k \in Line, NEW b \in Bid, AwardRead(s, k, b) PROVE OrderInvariant'
  <2>0. PICK c : c = [Idle EXCEPT !.pc = "award", !.line = k, !.bid = b, !.price = bid[b].price]
    OBVIOUS
  <2>1. Counts(c)
    BY <2>0 DEF Counts, Idle, Awarding, Unawarding, Generating
  <2>2. /\ call' = [call EXCEPT ![s] = c] /\ UNCHANGED <<bid, award, orders>>
        /\ serial' => serial
    BY <1>1, <2>0 DEF AwardRead, Begin
  <2> QED
    BY <2>1, <2>2, OrdersWait
<1>2. CASE AwardTaken(s)
  BY <1>2, OrdersEnd DEF AwardTaken
<1>3. CASE AwardInsert(s) \/ AwardKeep(s) \/ AwardFlip(s)
  <2>0. PICK pc \in Awarding : call' = [call EXCEPT ![s] = [call[s] EXCEPT !.pc = pc]]
    BY <1>3 DEF AwardInsert, AwardKeep, AwardFlip, Goto, Awarding
  <2>1. /\ call[s].pc \in {"award"} \cup Awarding
        /\ UNCHANGED <<bid, award, orders, serial>>
    BY <1>3 DEF AwardInsert, AwardKeep, AwardFlip, Goto, Awarding
  <2>2. PICK c : c = [call[s] EXCEPT !.pc = pc]
    OBVIOUS
  <2>3. serial => Counts(call[s])
    BY DEF OrderInvariant, OrdersInTurn
  <2>4. serial => Counts(c)
    <3>1. serial => call[s].price = bid[call[s].bid].price
      BY <2>1, <2>3 DEF Counts
    <3>2. c.price = call[s].price /\ c.bid = call[s].bid /\ c.pc \in {"sync", "kept", "flipped"}
      BY <2>2 DEF Awarding
    <3> QED
      BY <3>1, <3>2 DEF Counts, Awarding, Unawarding, Generating
  <2> QED
    BY <2>0, <2>1, <2>2, <2>4, OrdersWait
<1>4. CASE AwardCommit(s)
  <2>1. /\ l \in Line /\ x \in Bid /\ call[s].pc \in {"kept", "flipped"} /\ call[s] # Idle
        /\ award' = [award EXCEPT ![l] = [bid |-> x, price |-> call[s].price]]
        /\ bid' = IF call[s].pc = "flipped" THEN [bid EXCEPT ![x].status = "awarded"] ELSE bid
        /\ UNCHANGED <<serial, orders>> /\ call' = [call EXCEPT ![s] = Idle]
    BY <1>4 DEF AwardCommit, End, Goto, AwardInvariant, InRange, Awarding, Idle
  <2>2. call'[s] = Idle /\ \A t \in Session : t # s => call'[t] = call[t]
    BY <2>1 DEF AwardInvariant, InRange
  <2>3. ASSUME serial PROVE LinesAreAwarded' /\ PricesAgree'
    <3>1. OrdersInTurn /\ award[l].bid = NoBid /\ call[s].price = bid[x].price
      BY <2>1, <2>3 DEF OrderInvariant, OrdersInTurn, AwardInvariant, InTurn, Knows, Counts, Awarding
    <3>2. /\ award'[l] = [bid |-> x, price |-> bid[x].price]
          /\ \A k \in Line : k # l => award'[k] = award[k]
          /\ \A b \in Bid : bid'[b].price = bid[b].price
      BY <2>1, <3>1 DEF AwardInvariant, InRange, BidRow
    <3>3. ASSUME NEW n \in Number, NEW y \in orders[n].lines
          PROVE  award'[y[1]].bid = orders[n].bid /\ award'[y[1]].price = y[2]
      <4>1. orders[n].bid \in Bid /\ y[1] \in Line
        BY AwardAssumption DEF OrderInvariant, OrdersInRange, NoOrder
      <4>2. award[y[1]].bid = orders[n].bid /\ award[y[1]].price = y[2]
        BY <3>1 DEF OrdersInTurn, LinesAreAwarded
      <4>3. y[1] # l
        BY <3>1, <4>1, <4>2, AwardAssumption
      <4> QED
        BY <3>2, <4>1, <4>2, <4>3
    <3>4. ASSUME NEW k \in Line, award'[k].bid \in Bid
          PROVE  bid'[award'[k].bid].price = award'[k].price
      <4>1. CASE k = l
        BY <2>1, <3>2, <4>1
      <4>2. CASE k # l
        BY <3>1, <3>2, <3>4, <4>2 DEF OrdersInTurn, PricesAgree
      <4> QED
        BY <4>1, <4>2
    <3> QED
      BY <2>1, <3>3, <3>4 DEF LinesAreAwarded, PricesAgree
  <2> QED
    BY <2>1, <2>2, <2>3, OrdersStand
<1> QED
  BY <1>1, <1>2, <1>3, <1>4 DEF AwardLine

LEMMA UnawardOrders ==
  ASSUME AwardInvariant, OrderInvariant, NEW s \in Session, UnawardLine(s) PROVE OrderInvariant'
<1> SUFFICES ASSUME NEW l, l = call[s].line, NEW x, x = call[s].bid
             PROVE  OrderInvariant'
  OBVIOUS
<1>1. ASSUME NEW k \in Line, UnawardRead(s, k) PROVE OrderInvariant'
  <2>0. PICK c : c = [Idle EXCEPT !.pc = "unaward", !.line = k, !.bid = award[k].bid]
    OBVIOUS
  <2>1. Counts(c)
    BY <1>1, <2>0 DEF UnawardRead, Counts, Idle, Awarding, Unawarding, Generating
  <2>2. /\ call' = [call EXCEPT ![s] = c] /\ UNCHANGED <<bid, award, orders>>
        /\ serial' => serial
    BY <1>1, <2>0 DEF UnawardRead, Begin
  <2> QED
    BY <2>1, <2>2, OrdersWait
<1>2. CASE UnawardGone(s)
  BY <1>2, OrdersEnd DEF UnawardGone
<1>3. CASE UnawardDelete(s) \/ UnawardCount(s) \/ UnawardRevert(s) \/ UnawardReverted(s)
  <2>0. PICK pc \in Unawarding : call' = [call EXCEPT ![s] = [call[s] EXCEPT !.pc = pc]]
    BY <1>3 DEF UnawardDelete, UnawardCount, UnawardRevert, UnawardReverted, Goto, Unawarding
  <2>1. call[s].pc \in Unawarding /\ UNCHANGED <<bid, award, orders, serial>>
    BY <1>3 DEF UnawardDelete, UnawardCount, UnawardRevert, UnawardReverted, Goto, Unawarding
  <2>2. PICK c : c = [call[s] EXCEPT !.pc = pc]
    OBVIOUS
  <2>3. serial => OrderedBids = {}
    BY <2>1 DEF OrderInvariant, OrdersInTurn, Counts
  <2>4. c.pc \in {"unaward", "count", "reverting", "reverted", "deleted"}
    BY <2>2 DEF Unawarding
  <2>5. serial => Counts(c)
    BY <2>3, <2>4 DEF Counts, Awarding, Unawarding, Generating
  <2> QED
    BY <2>0, <2>1, <2>2, <2>5, OrdersWait
<1>4. CASE UnawardCommit(s)
  <2>1. /\ l \in Line /\ x \in Bid /\ call[s].pc \in {"reverted", "deleted"} /\ call[s] # Idle
        /\ award' = [award EXCEPT ![l] = NoAward]
        /\ bid' = IF call[s].pc = "reverted" THEN [bid EXCEPT ![x].status = "submitted"] ELSE bid
        /\ UNCHANGED <<orders, serial>>
    BY <1>4 DEF UnawardCommit, AwardInvariant, InRange, Unawarding, Idle
  <2>2. call'[s] = Idle /\ \A t \in Session : t # s /\ call[t] = Idle => call'[t] = Idle
    <3>1. call' = [t \in Session |->
            IF t = s THEN Idle
            ELSE IF call[t].pc = "unaward" /\ call[t].line = l
            THEN [call[t] EXCEPT !.gone = TRUE]
            ELSE call[t]]
      BY <1>4 DEF UnawardCommit
    <3>2. Idle.pc = "idle"
      BY DEF Idle
    <3> QED
      BY <3>1, <3>2
  <2>3. ASSUME serial PROVE LinesAreAwarded' /\ PricesAgree'
    <3>1. OrdersInTurn /\ OrderedBids = {}
      BY <2>1, <2>3 DEF OrderInvariant, OrdersInTurn, Counts, Unawarding
    <3>2. /\ award'[l] = NoAward
          /\ \A k \in Line : k # l => award'[k] = award[k]
          /\ \A b \in Bid : bid'[b].price = bid[b].price
      BY <2>1 DEF AwardInvariant, InRange, BidRow
    <3>3. \A n \in Number : orders[n].lines = {}
      <4> TAKE n \in Number
      <4>1. orders[n].bid = NoBid
        BY <3>1 DEF OrderedBids
      <4> QED
        BY <4>1, AwardAssumption DEF OrderInvariant, OrdersInRange, NoOrder
    <3>4. ASSUME NEW k \in Line, award'[k].bid \in Bid
          PROVE  bid'[award'[k].bid].price = award'[k].price
      BY <3>1, <3>2, <3>4, AwardAssumption DEF OrdersInTurn, PricesAgree, NoAward
    <3> QED
      BY <2>1, <3>3, <3>4 DEF LinesAreAwarded, PricesAgree
  <2> QED
    BY <2>1, <2>2, <2>3, OrdersStand
<1> QED
  BY <1>1, <1>2, <1>3, <1>4 DEF UnawardLine

(* The order inserted for a vendor without one has the lines awarded to it.   *)
LEMMA InsertOrders ==
  ASSUME AwardInvariant, OrderInvariant, NEW s \in Session, NEW b \in Bid, GenerateInsert(s, b)
  PROVE  OrderInvariant'
<1> DEFINE n == call[s].seed + 1
           lines == {<<l, call[s].plan[l].price>> : l \in {k \in Line : call[s].plan[k].bid = b}}
           row == [bid |-> b, lines |-> lines]
<1>0. PICK c : c = [call[s] EXCEPT !.todo = call[s].todo \ {b}, !.seed = n, !.again = FALSE]
  OBVIOUS
<1>1. /\ call[s].pc = "insert" /\ b \in call[s].todo /\ n \in Number /\ orders[n] = NoOrder
      /\ orders' = [orders EXCEPT ![n] = row]
      /\ call' = [call EXCEPT ![s] = c] /\ UNCHANGED <<bid, award, serial>>
  BY <1>0 DEF GenerateInsert, Goto
<1>2. c.pc = "insert" /\ c.plan = call[s].plan /\ c.todo = call[s].todo \ {b}
  BY <1>0, <1>1
<1>3. row.bid = b /\ row.lines = lines
  OBVIOUS
<1>4. ASSUME serial
      PROVE  OrdersInTurn'
  <2>1. /\ OrdersInTurn /\ call[s].plan = award /\ \A l \in Line : award[l] # NoAward
        /\ call[s].todo \subseteq Bid \ OrderedBids
    BY <1>1, <1>4 DEF OrderInvariant, OrdersInTurn, Counts, Generating
  <2> HIDE DEF n, row
  <2>2. orders'[n] = row /\ \A m \in Number : m # n => orders'[m] = orders[m]
    BY <1>1 DEF OrderInvariant, OrdersInRange
  <2>3. \A m \in Number : orders[m].bid # b
    BY <1>1, <2>1, AwardAssumption DEF OrderedBids
  <2>4. OneOrderPerBid'
    BY <1>3, <2>1, <2>2, <2>3 DEF OrdersInTurn, OneOrderPerBid
  <2>5. LinesAreAwarded'
    BY <1>1, <1>3, <2>1, <2>2 DEF OrdersInTurn, LinesAreAwarded
  <2>6. PricesAgree'
    BY <1>1, <2>1 DEF OrdersInTurn, PricesAgree
  <2>7. \A t \in Session : t # s => call[t] = Idle
    <3>1. call[s] # Idle
      BY <1>1 DEF Idle
    <3> QED
      BY <1>4, <3>1 DEF AwardInvariant, InTurn, Alone
  <2>8. call'[s] = c /\ \A t \in Session : t # s => call'[t] = Idle
    BY <1>1, <2>7 DEF AwardInvariant, InRange
  <2>9. OrderedBids' \subseteq OrderedBids \cup {b}
    BY <1>3, <2>2 DEF OrderedBids
  <2>10. c.todo \subseteq Bid \ OrderedBids'
    BY <1>2, <2>1, <2>9
  <2>11. Counts(c)'
    BY <1>1, <1>2, <2>1, <2>10 DEF Counts, Awarding, Unawarding, Generating
  <2>12. \A t \in Session : t # s => Counts(call[t])'
    BY <2>8 DEF Counts, Idle, Awarding, Unawarding, Generating
  <2>13. Counts(call[s])'
    BY <2>8, <2>11 DEF Counts
  <2> QED
    BY <2>4, <2>5, <2>6, <2>8, <2>11, <2>12, <2>13 DEF OrdersInTurn
<1>5. OrdersInRange'
  <2>1. \A x \in lines : x[1] \in Line
    OBVIOUS
  <2>2. row.bid \in Bid /\ \A x \in row.lines : x[1] \in Line
    BY <1>3, <2>1
  <2> HIDE DEF row
  <2> QED
    BY <1>1, <2>2 DEF OrderInvariant, OrdersInRange
<1> QED
  BY <1>1, <1>4, <1>5 DEF OrderInvariant

(* A generation goes on with the awards it read and the vendors left to do.   *)
SameWork(old, c) ==
  /\ old.pc \in {"numbers", "insert", "refresh"} /\ c.pc \in {"insert", "refresh"}
  /\ c.plan = old.plan /\ c.todo = old.todo

LEMMA OrdersGoOn ==
  ASSUME AwardInvariant, OrderInvariant, NEW s \in Session, NEW c, SameWork(call[s], c),
         call' = [call EXCEPT ![s] = c], UNCHANGED <<bid, award, orders, serial>>
  PROVE  OrderInvariant'
<1>1. ASSUME serial PROVE Counts(c)
  <2>1. Counts(call[s])
    BY <1>1 DEF OrderInvariant, OrdersInTurn
  <2> QED
    BY <2>1 DEF SameWork, Counts, Awarding, Unawarding, Generating
<1> QED
  BY <1>1, OrdersWait

LEMMA GenerateOrdersKeeps ==
  ASSUME AwardInvariant, OrderInvariant, NEW s \in Session, Generate(s) PROVE OrderInvariant'
<1>1. CASE GenerateAwards(s)
  <2>0. PICK c : c = [Idle EXCEPT !.pc = "orders", !.plan = award]
    OBVIOUS
  <2>1. Counts(c)
    BY <1>1, <2>0 DEF GenerateAwards, Counts, Idle, Awarding, Unawarding, Generating
  <2>2. /\ call' = [call EXCEPT ![s] = c] /\ UNCHANGED <<bid, award, orders>>
        /\ serial' => serial
    BY <1>1, <2>0 DEF GenerateAwards, Begin
  <2> QED
    BY <2>1, <2>2, OrdersWait
<1>2. CASE GenerateOrders(s)
  <2>0. PICK c : c = [call[s] EXCEPT !.pc = "numbers",
                           !.todo = {call[s].plan[l].bid : l \in Line} \ OrderedBids]
    OBVIOUS
  <2>1. /\ call[s].pc = "orders" /\ call' = [call EXCEPT ![s] = c]
        /\ UNCHANGED <<bid, award, orders, serial>>
    BY <1>2, <2>0 DEF GenerateOrders, Goto
  <2>2. /\ c.pc = "numbers" /\ c.plan = call[s].plan
        /\ c.todo = {call[s].plan[l].bid : l \in Line} \ OrderedBids
    BY <2>0, <2>1
  <2>3. ASSUME serial PROVE Counts(c)
    <3>1. call[s].plan = award /\ \A l \in Line : award[l] # NoAward
      BY <2>1, <2>3 DEF OrderInvariant, OrdersInTurn, Counts, Generating
    <3>2. \A l \in Line : call[s].plan[l].bid \in Bid
      BY <3>1 DEF AwardInvariant, InRange, AwardRow
    <3>3. c.todo \subseteq Bid \ OrderedBids
      BY <2>2, <3>2
    <3> QED
      BY <2>2, <3>1, <3>3 DEF Counts, Awarding, Unawarding, Generating
  <2> QED
    BY <2>1, <2>3, OrdersWait
<1>3. CASE GenerateNumbers(s)
  <2>0. PICK c : c = [call[s] EXCEPT !.pc = "insert", !.seed = LastNumber,
                           !.again = (call[s].pc = "refresh")]
    OBVIOUS
  <2>1. /\ call[s].pc \in {"numbers", "refresh"} /\ call' = [call EXCEPT ![s] = c]
        /\ UNCHANGED <<bid, award, orders, serial>>
    BY <1>3, <2>0 DEF GenerateNumbers, Goto
  <2>2. SameWork(call[s], c)
    BY <2>0, <2>1 DEF SameWork
  <2> QED
    BY <2>1, <2>2, OrdersGoOn
<1>4. ASSUME NEW b \in Bid, GenerateInsert(s, b) PROVE OrderInvariant'
  BY <1>4, InsertOrders
<1>5. CASE GenerateCollision(s)
  <2>1. CASE End(s)
    BY <1>5, <2>1, OrdersEnd DEF GenerateCollision
  <2>2. CASE Goto(s, [call[s] EXCEPT !.pc = "refresh"])
    <3>0. PICK c : c = [call[s] EXCEPT !.pc = "refresh"]
      OBVIOUS
    <3>1. /\ call[s].pc = "insert" /\ call' = [call EXCEPT ![s] = c]
          /\ UNCHANGED <<bid, award, orders, serial>>
      BY <1>5, <2>2, <3>0 DEF GenerateCollision, Goto
    <3>2. SameWork(call[s], c)
      BY <3>0, <3>1 DEF SameWork
    <3> QED
      BY <3>1, <3>2, OrdersGoOn
  <2> QED
    BY <1>5, <2>1, <2>2 DEF GenerateCollision
<1>6. CASE GenerateEnd(s)
  BY <1>6, OrdersEnd DEF GenerateEnd
<1> QED
  BY <1>1, <1>2, <1>3, <1>4, <1>5, <1>6 DEF Generate

LEMMA OrderNext ==
  ASSUME AwardInvariant, OrderInvariant, [Next]_vars PROVE OrderInvariant'
<1>1. ASSUME NEW s \in Session, Stop(s) PROVE OrderInvariant'
  BY <1>1, OrdersEnd DEF Stop
<1>2. ASSUME NEW s \in Session,
             Submit(s) \/ AwardLine(s) \/ UnawardLine(s) \/ Generate(s) \/ Stop(s)
      PROVE  OrderInvariant'
  BY <1>1, <1>2, SubmitOrders, AwardOrders, UnawardOrders, GenerateOrdersKeeps
<1>3. CASE UNCHANGED vars
  BY <1>3 DEF vars, OrderInvariant, OrdersInRange, OrdersInTurn, OneOrderPerBid, LinesAreAwarded,
              PricesAgree, Counts, OrderedBids
<1> QED
  BY <1>2, <1>3 DEF Next

LEMMA OrderInductive == Spec => [](AwardInvariant /\ OrderInvariant)
<1>1. AwardInvariant /\ OrderInvariant /\ [Next]_vars => OrderInvariant'
  BY OrderNext
<1> QED
  BY <1>1, OrderInit, AwardInductive, PTL DEF Spec

(* OrdersAreAwardedSerially, for any number of calls, lines, bids and orders: *)
(* calls that do not overlap leave a vendor with one order, for lines that    *)
(* are awarded to it at the price it bids, though generations stopped         *)
(* half-way and were run again, awards taken back and bids submitted anew.    *)
THEOREM OrdersFollowAwards == Spec => []OrdersAreAwardedSerially
<1>1. AwardInvariant /\ OrderInvariant => OrdersAreAwardedSerially
  <2> SUFFICES ASSUME AwardInvariant, OrderInvariant, serial
               PROVE  /\ OneOrderPerBid
                      /\ \A n \in Number : \A x \in orders[n].lines :
                           /\ award[x[1]].bid = orders[n].bid /\ award[x[1]].price = x[2]
                           /\ bid[orders[n].bid].price = x[2]
    BY DEF OrdersAreAwardedSerially, OneOrderPerBid
  <2>1. OneOrderPerBid /\ LinesAreAwarded /\ PricesAgree
    BY DEF OrderInvariant, OrdersInTurn
  <2>2. ASSUME NEW n \in Number, NEW x \in orders[n].lines
        PROVE  /\ award[x[1]].bid = orders[n].bid /\ award[x[1]].price = x[2]
               /\ bid[orders[n].bid].price = x[2]
    <3>1. award[x[1]].bid = orders[n].bid /\ award[x[1]].price = x[2]
      BY <2>1 DEF LinesAreAwarded
    <3>2. orders[n].bid \in Bid /\ x[1] \in Line
      BY DEF OrderInvariant, OrdersInRange, NoOrder
    <3> QED
      BY <2>1, <3>1, <3>2 DEF PricesAgree
  <2> QED
    BY <2>1, <2>2
<1> QED
  BY <1>1, OrderInductive, PTL
=============================================================================
