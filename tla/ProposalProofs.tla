---------------------------- MODULE ProposalProofs ----------------------------
(* Whatever the number of calls, envelopes, instances and prices: what goes   *)
(* out for signature carries the approved price, and what is accepted was     *)
(* signed.                                                                    *)
EXTENDS Proposal, TLAPS

(* Once approved, or further on, the price is the approved one for good.      *)
Frozen == status # "draft" /\ approved = price

PriceFrozen ==
  /\ status = "approved" => Frozen
  /\ env # 0 => Frozen
  /\ \A s \in Session : call[s].pc \in {"send", "sent"} => Frozen

(* Who decides directly carries a decision, who applies an event carries one. *)
CallKnows ==
  \A s \in Session :
    /\ call[s].pc = "decide" => call[s].to \in {"approved", "rejected"}
    /\ call[s].pc \in {"apply", "patch"} => call[s].event \in Event

Signed == \E e \in Envelope : provider[e] = "completed"

(* Nobody hears of a signature that the provider did not see.                 *)
SignatureIsTrue ==
  /\ \A e \in Envelope : <<e, "completed">> \in owed => Signed
  /\ \A s \in Session : call[s].pc \in {"apply", "patch"} /\ call[s].event = "completed" => Signed
  /\ status = "accepted" => Signed

ProposalInvariant == TypeOK /\ CallKnows /\ PriceFrozen /\ SignatureIsTrue

(* Initially nothing is approved, sent or signed.                             *)
LEMMA ProposalInit == Init => ProposalInvariant
  BY ProposalAssumption
     DEF Init, VerdictInit, ProposalInvariant, TypeOK, CallKnows, PriceFrozen,
         SignatureIsTrue, Idle, Call, Verdict, Decision, Event

(* A step of one call that leaves the status, the price and the provider      *)
(* alone.                                                                     *)
LEMMA CallMoves ==
  ASSUME ProposalInvariant, NEW s \in Session, NEW c \in Call, Run(s, c),
         UNCHANGED <<status, price, approved, env, esign, history, provider>>,
         lock' \in {"none", "pending", "approved", "rejected"}, owed' \subseteq owed,
         verdict' \in [Instance -> Verdict],
         c.pc = "decide" => c.to \in {"approved", "rejected"},
         c.pc \in {"apply", "patch"} => c.event \in Event,
         c.pc \in {"send", "sent"} => Frozen,
         c.pc \in {"apply", "patch"} /\ c.event = "completed" => Signed
  PROVE  ProposalInvariant'
  <1>1. TypeOK'
    BY DEF ProposalInvariant, TypeOK, Run
  <1>2. CallKnows'
    BY DEF ProposalInvariant, TypeOK, CallKnows, Run
  <1>3. PriceFrozen'
    BY DEF ProposalInvariant, TypeOK, PriceFrozen, Frozen, Run
  <1>4. SignatureIsTrue'
    BY DEF ProposalInvariant, TypeOK, SignatureIsTrue, Signed, Run
  <1> QED
    BY <1>1, <1>2, <1>3, <1>4 DEF ProposalInvariant

(* A decision's write of the row, which ends its call.                        *)
LEMMA RowDecided ==
  ASSUME ProposalInvariant, NEW s \in Session, End(s),
         NEW d \in {"approved", "rejected"},
         SetDecision(d) \/ UNCHANGED <<status, lock, approved>>,
         verdict' \in [Instance -> Verdict],
         UNCHANGED <<price, env, esign, history, provider, owed>>
  PROVE  ProposalInvariant'
  <1>1. Idle \in Call /\ Idle.pc = "idle"
    BY DEF Idle, Call
  <1>2. CASE UNCHANGED <<status, lock, approved>>
    <2>1. lock' \in {"none", "pending", "approved", "rejected"}
      BY <1>2 DEF ProposalInvariant, TypeOK
    <2> QED
      BY <1>1, <1>2, <2>1, CallMoves DEF End
  <1>3. CASE SetDecision(d)
    <2>1. TypeOK'
      BY <1>1, <1>3 DEF SetDecision, ProposalInvariant, TypeOK, End, Run
    <2>2. CallKnows'
      BY <1>1 DEF ProposalInvariant, TypeOK, CallKnows, End, Run
    <2>3. status' # "draft" /\ (Frozen => Frozen') /\ (status' = "approved" => Frozen')
      BY <1>3 DEF SetDecision, Frozen
    <2>4. PriceFrozen'
      BY <1>1, <2>3 DEF ProposalInvariant, TypeOK, PriceFrozen, End, Run
    <2>5. SignatureIsTrue'
      BY <1>1, <1>3 DEF SetDecision, ProposalInvariant, TypeOK, SignatureIsTrue, Signed, End, Run
    <2> QED
      BY <2>1, <2>2, <2>4, <2>5 DEF ProposalInvariant
  <1> QED
    BY <1>2, <1>3

(* A step that moves the proposal on to a status other than draft and         *)
(* approved, on behalf of a call that ends.                                   *)
LEMMA StatusMoves ==
  ASSUME ProposalInvariant, NEW s \in Session, End(s),
         status' \in {status, "sent", "accepted", "superseded"},
         status' = "accepted" => Signed,
         UNCHANGED <<lock, price, approved, provider, verdict>>, owed' \subseteq owed,
         env' \in {0} \cup Envelope, env' # env => Frozen,
         esign' \in {"none", "sent"} \cup Event, history' \in SUBSET Event
  PROVE  ProposalInvariant'
  <1>1. Idle \in Call /\ Idle.pc = "idle"
    BY DEF Idle, Call
  <1>2. TypeOK'
    BY <1>1 DEF ProposalInvariant, TypeOK, End, Run
  <1>3. CallKnows'
    BY <1>1 DEF ProposalInvariant, TypeOK, CallKnows, End, Run
  <1>4. Frozen => Frozen'
    BY DEF Frozen
  <1>5. PriceFrozen'
    <2>1. status' = "approved" => status = "approved"
      OBVIOUS
    <2> QED
      BY <1>1, <1>4, <2>1 DEF ProposalInvariant, TypeOK, PriceFrozen, End, Run
  <1>6. SignatureIsTrue'
    BY <1>1 DEF ProposalInvariant, TypeOK, SignatureIsTrue, Signed, End, Run
  <1> QED
    BY <1>2, <1>3, <1>5, <1>6 DEF ProposalInvariant

(* The provider moves an envelope on; a signature is never undone.            *)
LEMMA ProviderMoves ==
  ASSUME ProposalInvariant, NEW e \in Envelope, NEW to \in {"sent"} \cup Event,
         provider[e] # "completed", provider' = [provider EXCEPT ![e] = to]
  PROVE  /\ provider' \in [Envelope -> {"none", "sent"} \cup Event]
         /\ Signed => Signed'
         /\ to = "completed" => Signed'
  BY DEF ProposalInvariant, TypeOK, Signed

(* Every step keeps the invariant.                                            *)
LEMMA ProposalStep == ProposalInvariant /\ [Next]_vars => ProposalInvariant'
  <1> SUFFICES ASSUME ProposalInvariant, [Next]_vars
               PROVE  ProposalInvariant'
    OBVIOUS
  <1> USE ProposalAssumption
  <1>a. /\ status \in {"draft", "approved", "rejected", "sent", "accepted", "superseded"}
        /\ lock \in {"none", "pending", "approved", "rejected"}
        /\ price \in Price /\ env \in {0} \cup Envelope
        /\ esign \in {"none", "sent"} \cup Event /\ history \subseteq Event
        /\ verdict \in [Instance -> Verdict] /\ call \in [Session -> Call]
        /\ owed \subseteq Envelope \X Event
    BY DEF ProposalInvariant, TypeOK
  <1>b. Sales \subseteq Session /\ Finance \subseteq Session /\ Hook \subseteq Session
    BY DEF Session
  <1>c. Idle \in Call /\ Idle.pc = "idle"
    BY DEF Idle, Call
  <1>d. \A i \in Instance : \A d \in Decision :
          Opened(i) \/ Decided(i, d) => verdict' \in [Instance -> Verdict]
    BY <1>a DEF Opened, Decided, Verdict, Decision
  (* A call whose request only reads, or writes what no part speaks of. *)
  <1>e. ASSUME NEW s \in Session, NEW c \in Call, Run(s, c), UNCHANGED <<row, sign, outside>>,
               verdict' \in [Instance -> Verdict],
               c.pc \in {"idle", "submit", "lock", "settle", "supersede"}
        PROVE  ProposalInvariant'
    BY <1>a, <1>e, CallMoves DEF row, sign, outside
  <1>1. ASSUME NEW s \in Session, Offer(s)
        PROVE  ProposalInvariant'
    <2>1. CASE Save(s)
      <3>1. price' \in Price /\ (status # "draft" => price' = price)
        BY <2>1 DEF Save, WritePrice
      <3>2. status' = status /\ approved' = approved /\ env' = env /\ call' = call
        BY <2>1 DEF Save, sign
      <3>3. PriceFrozen'
        BY <3>1, <3>2 DEF ProposalInvariant, PriceFrozen, Frozen
      <3> QED
        BY <2>1, <3>1, <3>3 DEF Save, sign, outside, ProposalInvariant, TypeOK,
           CallKnows, SignatureIsTrue, Signed
    <2>2. CASE SubmitRead(s)
      <3>1. [Idle EXCEPT !.pc = "submit"] \in Call
        BY DEF Idle, Call
      <3> QED
        BY <1>a, <1>e, <2>2, <3>1 DEF SubmitRead, Idle
    <2>3. CASE SubmitOpen(s) \/ SubmitUnopened(s)
      <3>1. /\ [call[s] EXCEPT !.pc = "lock"] \in Call
            /\ [call[s] EXCEPT !.pc = "lock"].pc = "lock"
            /\ Run(s, [call[s] EXCEPT !.pc = "lock"])
        BY <1>a, <2>3 DEF SubmitOpen, SubmitUnopened, Goto, Run, Call
      <3>2. verdict' \in [Instance -> Verdict]
        BY <1>a, <2>3 DEF SubmitOpen, SubmitUnopened, Opened, Verdict
      <3> QED
        BY <1>e, <2>3, <3>1, <3>2 DEF SubmitOpen, SubmitUnopened
    <2>4. CASE SubmitLock(s)
      BY <1>a, <1>c, <2>4, CallMoves DEF SubmitLock, End, sign, outside
    <2> QED
      BY <1>1, <2>1, <2>2, <2>3, <2>4 DEF Offer
  <1>2. ASSUME NEW s \in Session, ApplyRead(s)
        PROVE  ProposalInvariant'
    <2> DEFINE onward == [call[s] EXCEPT !.pc = "patch", !.seen = history]
    <2>1. CASE End(s) /\ Answered(s)
      <3>1. owed' \subseteq owed /\ UNCHANGED <<row, sign, provider, verdict>>
        BY <1>2, <2>1 DEF ApplyRead, Answered
      <3> QED
        BY <1>a, <1>c, <2>1, <3>1, CallMoves DEF End, row, sign
    <2>2. CASE call' = [call EXCEPT ![s].pc = "patch", ![s].seen = history] /\ UNCHANGED owed
      <3>1. /\ onward \in Call /\ onward.pc = "patch" /\ onward.event = call[s].event
            /\ Run(s, onward)
        <4>1. /\ call[s] \in Call /\ call[s].pc = "apply"
              /\ call' = [call EXCEPT ![s] = onward]
          BY <1>a, <1>2, <2>2 DEF ApplyRead
        <4>2. onward \in Call /\ onward.pc = "patch" /\ onward.event = call[s].event
          BY <1>a, <4>1 DEF Call
        <4> QED
          BY <4>1, <4>2 DEF Run
      <3>2. call[s].event \in Event /\ (call[s].event = "completed" => Signed)
        BY <1>2 DEF ApplyRead, ProposalInvariant, SignatureIsTrue, CallKnows
      <3>3. UNCHANGED <<row, sign, outside, verdict>>
        BY <1>2, <2>2 DEF ApplyRead, outside
      <3> HIDE DEF onward
      <3> QED
        BY <1>a, <3>1, <3>2, <3>3, CallMoves DEF row, sign, outside
    <2> QED
      BY <1>2, <2>1, <2>2 DEF ApplyRead
  <1>3. ASSUME NEW s \in Session, ApplyWrite(s)
        PROVE  ProposalInvariant'
    <2>1. call[s].event \in Event /\ call[s].seen \subseteq Event
      BY <1>a, <1>3 DEF ApplyWrite, ProposalInvariant, CallKnows, Call
    <2>3. call[s].event = "completed" => Signed
      BY <1>3 DEF ApplyWrite, ProposalInvariant, SignatureIsTrue
    <2>4. status = "accepted" => Signed
      BY DEF ProposalInvariant, SignatureIsTrue
    <2>5. /\ End(s) /\ owed' \subseteq owed
          /\ status' \in {status, "accepted"} /\ (status' = "accepted" => Signed)
          /\ UNCHANGED <<lock, price, approved, env, provider, verdict>>
      BY <1>3, <2>3, <2>4 DEF ApplyWrite, Answered
    <2>6. esign' \in {"none", "sent"} \cup Event /\ history' \in SUBSET Event
      BY <1>3, <2>1 DEF ApplyWrite
    <2> QED
      BY <1>a, <2>5, <2>6, StatusMoves
  <1>4. ASSUME NEW s \in Session, SendRead(s)
        PROVE  ProposalInvariant'
    <2>1. Frozen
      BY <1>4 DEF SendRead, ProposalInvariant, PriceFrozen
    <2>2. [Idle EXCEPT !.pc = "send"] \in Call /\ [Idle EXCEPT !.pc = "send"].pc = "send"
      BY DEF Idle, Call
    <2> QED
      BY <1>a, <1>4, <2>1, <2>2, CallMoves DEF SendRead, row, sign, outside
  <1>5. ASSUME NEW s \in Session, SendEnvelope(s)
        PROVE  ProposalInvariant'
    <2>1. PICK e \in Envelope : /\ provider[e] = "none"
                                /\ provider' = [provider EXCEPT ![e] = "sent"]
                                /\ Run(s, [Idle EXCEPT !.pc = "sent", !.env = e])
      BY <1>5 DEF SendEnvelope
    <2>2. provider' \in [Envelope -> {"none", "sent"} \cup Event] /\ (Signed => Signed')
      BY <2>1, ProviderMoves
    <2>3. Frozen
      BY <1>5 DEF SendEnvelope, ProposalInvariant, PriceFrozen
    <2>4. /\ [Idle EXCEPT !.pc = "sent", !.env = e] \in Call
          /\ [Idle EXCEPT !.pc = "sent", !.env = e].pc = "sent"
      BY DEF Idle, Call
    <2>5. /\ call' \in [Session -> Call] /\ call'[s].pc = "sent"
          /\ \A t \in Session : t # s => call'[t] = call[t]
      BY <1>a, <2>1, <2>4 DEF Run
    <2>6. Frozen' /\ UNCHANGED <<row, sign, owed, verdict>>
      BY <1>5, <2>3 DEF SendEnvelope, row, Frozen
    <2> QED
      BY <2>2, <2>5, <2>6
         DEF row, sign, ProposalInvariant, TypeOK, CallKnows, PriceFrozen, SignatureIsTrue
  <1>6. ASSUME NEW s \in Session, SendWrite(s)
        PROVE  ProposalInvariant'
    <2>1. call[s].env \in {0} \cup Envelope
      BY <1>a DEF Call
    <2>2. Frozen
      BY <1>6 DEF SendWrite, ProposalInvariant, PriceFrozen
    <2>3. /\ env' \in {0} \cup Envelope /\ esign' \in {"none", "sent"} \cup Event
          /\ history' \in SUBSET Event
      BY <1>6, <2>1 DEF SendWrite
    <2>4. /\ End(s) /\ status' = "sent" /\ owed' = owed
          /\ UNCHANGED <<lock, price, approved, provider, verdict>>
      BY <1>6 DEF SendWrite, outside
    <2> QED
      BY <2>2, <2>3, <2>4, StatusMoves
  <1>7. ASSUME NEW s \in Session, Void(s)
        PROVE  ProposalInvariant'
    <2>1. env \in Envelope /\ provider[env] # "completed"
      BY <1>a, <1>7 DEF Void
    <2>2. provider' \in [Envelope -> {"none", "sent"} \cup Event] /\ (Signed => Signed')
      BY <1>7, <2>1, ProviderMoves DEF Void, Event
    <2>3. /\ [Idle EXCEPT !.pc = "apply", !.event = "voided"] \in Call
          /\ [Idle EXCEPT !.pc = "apply", !.event = "voided"].pc = "apply"
          /\ [Idle EXCEPT !.pc = "apply", !.event = "voided"].event = "voided"
      BY DEF Idle, Call, Event
    <2>4. /\ call' \in [Session -> Call]
          /\ call'[s].pc = "apply" /\ call'[s].event = "voided" /\ "voided" \in Event
          /\ \A t \in Session : t # s => call'[t] = call[t]
      BY <1>a, <1>7, <2>3 DEF Void, Run, Event
    <2>5. UNCHANGED <<row, sign, owed, verdict>>
      BY <1>7 DEF Void
    <2> QED
      BY <2>2, <2>4, <2>5
         DEF row, sign, ProposalInvariant, TypeOK, CallKnows, PriceFrozen, Frozen,
             SignatureIsTrue
  <1>8. ASSUME NEW s \in Session, Version(s)
        PROVE  ProposalInvariant'
    <2>1. CASE VersionRead(s)
      <3>1. [Idle EXCEPT !.pc = "supersede"] \in Call
        BY DEF Idle, Call
      <3> QED
        BY <1>a, <1>e, <2>1, <3>1 DEF VersionRead, Idle
    <2>2. CASE Supersede(s)
      BY <1>a, <2>2, StatusMoves DEF Supersede, sign, outside
    <2> QED
      BY <1>8, <2>1, <2>2 DEF Version
  <1>9. ASSUME NEW s \in Session, Stop(s)
        PROVE  ProposalInvariant'
    BY <1>a, <1>c, <1>e, <1>9 DEF Stop, End
  <1>10. ASSUME NEW s \in Session, Approve(s)
         PROVE  ProposalInvariant'
    <2>1. ASSUME NEW i \in Instance,
                 DecideOther(s, i) \/ \E d \in {"approved", "rejected"} : Decide(s, i, d)
          PROVE  ProposalInvariant'
      <3>1. [Idle EXCEPT !.pc = "settle", !.inst = i] \in Call
        BY DEF Idle, Call
      <3>2. verdict' \in [Instance -> Verdict]
        BY <1>a, <1>d, <2>1 DEF DecideOther, Decide, Decision
      <3> QED
        BY <1>e, <2>1, <3>1, <3>2 DEF DecideOther, Decide, Idle
    <2>2. CASE Settle(s)
      <3>1. \E d \in {"approved", "rejected"} :
              SetDecision(d) \/ UNCHANGED <<status, lock, approved>>
        BY <2>2 DEF Settle, SettleAs
      <3> QED
        BY <1>a, <2>2, <3>1, RowDecided DEF Settle, sign, outside
    <2>3. ASSUME NEW d \in {"approved", "rejected"}, PricingDecideRead(s, d)
          PROVE  ProposalInvariant'
      <3>1. PICK i \in Instance \cup {NoInstance} :
              Run(s, [Idle EXCEPT !.pc = "decide", !.inst = i, !.to = d])
        BY <2>3 DEF PricingDecideRead
      <3>2. /\ [Idle EXCEPT !.pc = "decide", !.inst = i, !.to = d] \in Call
            /\ [Idle EXCEPT !.pc = "decide", !.inst = i, !.to = d].pc = "decide"
            /\ [Idle EXCEPT !.pc = "decide", !.inst = i, !.to = d].to = d
        BY DEF Idle, Call
      <3> QED
        BY <1>a, <2>3, <3>1, <3>2, CallMoves DEF PricingDecideRead, row, sign, outside
    <2>4. CASE PricingDecideInstance(s)
      <3>1. call[s].to \in {"approved", "rejected"} /\ call[s].inst \in Instance
        BY <1>a, <2>4 DEF PricingDecideInstance, ProposalInvariant, CallKnows, Call
      <3>2. SetDecision(call[s].to) \/ UNCHANGED <<status, lock, approved>>
        BY <2>4 DEF PricingDecideInstance, SettleAs
      <3>3. verdict' \in [Instance -> Verdict]
        BY <1>a, <2>4, <3>1 DEF PricingDecideInstance, Verdict, Decision
      <3> QED
        BY <2>4, <3>1, <3>2, <3>3, RowDecided DEF PricingDecideInstance, sign, outside
    <2>5. CASE PricingDecideChainless(s)
      <3>1. call[s].to \in {"approved", "rejected"}
        BY <2>5 DEF PricingDecideChainless, ProposalInvariant, CallKnows
      <3> QED
        BY <1>a, <2>5, <3>1, RowDecided DEF PricingDecideChainless, sign, outside
    <2> QED
      BY <1>10, <2>1, <2>2, <2>3, <2>4, <2>5 DEF Approve
  <1>11. ASSUME NEW h \in Session, NEW e \in Envelope, NEW v \in Event, HookLookup(h, e, v)
         PROVE  ProposalInvariant'
    <2>1. v = "completed" => Signed
      BY <1>11 DEF HookLookup, ProposalInvariant, SignatureIsTrue
    <2>2. /\ [Idle EXCEPT !.pc = "apply", !.env = e, !.event = v] \in Call
          /\ [Idle EXCEPT !.pc = "apply", !.env = e, !.event = v].pc = "apply"
          /\ [Idle EXCEPT !.pc = "apply", !.env = e, !.event = v].event = v
      BY DEF Idle, Call
    <2> QED
      BY <1>a, <1>11, <2>1, <2>2, CallMoves DEF HookLookup, row, sign, outside
  <1>12. ASSUME NEW e \in Envelope, NEW to \in {"viewed", "completed", "declined"}, Sign(e, to)
         PROVE  ProposalInvariant'
    <2>1. to \in Event
      BY DEF Event
    <2>2. /\ provider' \in [Envelope -> {"none", "sent"} \cup Event]
          /\ (Signed => Signed') /\ (to = "completed" => Signed')
      BY <1>12, <2>1, ProviderMoves DEF Sign
    <2>3. owed' = owed \cup {<<e, to>>} /\ UNCHANGED <<row, sign, verdict, call>>
      BY <1>12 DEF Sign
    <2>4. owed' \subseteq Envelope \X Event
      BY <1>a, <2>1, <2>3
    <2>5. \A f \in Envelope : <<f, "completed">> \in owed' =>
            <<f, "completed">> \in owed \/ to = "completed"
      BY <2>3
    <2>6. SignatureIsTrue'
      BY <2>2, <2>3, <2>5 DEF row, ProposalInvariant, SignatureIsTrue
    <2> QED
      BY <2>2, <2>3, <2>4, <2>6
         DEF row, sign, ProposalInvariant, TypeOK, CallKnows, PriceFrozen, Frozen
  <1>13. ASSUME NEW i \in Instance, Cancel(i)
         PROVE  ProposalInvariant'
    <2>1. verdict' \in [Instance -> Verdict]
      BY <1>d, <1>13 DEF Cancel, Decision
    <2> QED
      BY <1>13, <2>1 DEF Cancel, row, sign, outside, ProposalInvariant, TypeOK,
         CallKnows, PriceFrozen, Frozen, SignatureIsTrue, Signed
  <1>14. CASE UNCHANGED vars
    BY <1>14 DEF vars, ProposalInvariant, TypeOK, CallKnows, PriceFrozen, Frozen,
       SignatureIsTrue, Signed
  <1> QED
    BY <1>b, <1>1, <1>2, <1>3, <1>4, <1>5, <1>6, <1>7, <1>8, <1>9, <1>10, <1>11, <1>12,
       <1>13, <1>14
       DEF Next, Send, Deliver

(* The customer signs the price that was approved.                            *)
THEOREM CustomerSignsApprovedPrice == Spec => []SentPriceIsApproved
  <1>1. ProposalInvariant => SentPriceIsApproved
    BY DEF ProposalInvariant, PriceFrozen, Frozen, SentPriceIsApproved
  <1> QED
    BY ProposalInit, ProposalStep, <1>1, PTL DEF Spec

(* No proposal is accepted without a signature.                               *)
THEOREM AcceptanceIsSigned == Spec => []AcceptedWasSigned
  <1>1. ProposalInvariant => AcceptedWasSigned
    BY DEF ProposalInvariant, SignatureIsTrue, Signed, AcceptedWasSigned
  <1> QED
    BY ProposalInit, ProposalStep, <1>1, PTL DEF Spec
==============================================================================
