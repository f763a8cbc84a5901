------------------------------- MODULE Proposal -------------------------------
(* One version of a proposal, from its draft to its signature: pricing        *)
(* (saveProposalHeader), the pricing approval (submitPricingApproval,         *)
(* decidePricingApproval and the settlement of a decision of the engine), the *)
(* envelope (sendProposalForSignature, voidProposalEsign), the events of the  *)
(* e-signature provider (routes/api/webhooks/esign.ts, applyEsignEvent) and   *)
(* the next version (createProposalVersion).                                  *)
(*                                                                            *)
(* Each call is a sequence of separate database requests; the triggers on     *)
(* proposals judge each update against the row as it then is.                 *)
EXTENDS Naturals, FiniteSets, ApprovalVerdict

CONSTANTS Sales,     \* calls of proposal writers that may run at the same time
          Finance,   \* calls of approvers that may run at the same time
          Hook,      \* webhook deliveries that may run at the same time
          Price,     \* subtotal, margins, FX rate and total, as one value; 0 in
                     \* the proposal as it was created
          Envelopes, \* cap on the envelopes sent
          NoPrice, NoInstance

ASSUME ProposalAssumption ==
  /\ Hook \cap (Sales \cup Finance) = {}
  /\ Instance \subseteq Nat /\ NoInstance \notin Instance
  /\ 0 \in Price /\ NoPrice \notin Price /\ Envelopes \in Nat

VARIABLES status,   \* proposals.status
          lock,     \* proposals.pricing_lock ->> 'status'
          price,    \* the financial columns
          approved, \* history: the price when it was last approved
          env,      \* proposals.esign_envelope_id, 0 for none
          esign,    \* proposals.esign_status
          history,  \* proposals.esign_history, without the order
          provider, \* the provider's envelopes
          owed,     \* events the provider delivers until it gets an answer
          call      \* the server function or route each session is running

row == <<status, lock, price, approved>>
sign == <<env, esign, history>>
outside == <<provider, owed>>
vars == <<status, lock, price, approved, env, esign, history, provider, owed, verdict, call>>

Session == Sales \cup Finance \cup Hook
Envelope == 1 .. Envelopes
Event == {"viewed", "completed", "declined", "voided"}

Call == [pc : {"idle", "submit", "lock", "settle", "decide", "send", "sent", "apply",
               "patch", "supersede"},
         inst : Instance \cup {NoInstance}, to : {"draft", "approved", "rejected"},
         env : {0} \cup Envelope, event : {"none"} \cup Event, seen : SUBSET Event]

Idle == [pc |-> "idle", inst |-> NoInstance, to |-> "draft", env |-> 0, event |-> "none",
         seen |-> {}]

TypeOK ==
  /\ status \in {"draft", "approved", "rejected", "sent", "accepted", "superseded"}
  /\ lock \in {"none", "pending", "approved", "rejected"}
  /\ price \in Price /\ approved \in Price \cup {NoPrice}
  /\ env \in {0} \cup Envelope
  /\ esign \in {"none", "sent"} \cup Event
  /\ history \subseteq Event
  /\ provider \in [Envelope -> {"none", "sent"} \cup Event]
  /\ owed \subseteq Envelope \X Event
  /\ verdict \in [Instance -> Verdict]
  /\ call \in [Session -> Call]

------------------------------------------------------------------------------
Goto(s, pc) == call' = [call EXCEPT ![s].pc = pc]

Run(s, c) == call' = [call EXCEPT ![s] = c]

End(s) == Run(s, Idle)

Init ==
  /\ status = "draft" /\ lock = "none"
  /\ price = 0 /\ approved = NoPrice
  /\ env = 0 /\ esign = "none" /\ history = {}
  /\ provider = [e \in Envelope |-> "none"] /\ owed = {}
  /\ VerdictInit
  /\ call = [s \in Session |-> Idle]

(* Mutant: the freeze of what left its draft is gone; the pricing lock stays. *)
LockOnly(new) ==
  /\ lock # "approved" \/ new = price
  /\ price' = new

(* An update of the financial columns under the triggers                      *)
(* proposals_guard_immutable and proposals_enforce_pricing_lock.              *)
WritePrice(new) ==
  /\ status = "draft" \/ new = price
  /\ lock # "approved" \/ new = price
  /\ price' = new

(* saveProposalHeader and the totals of saveLineItems.                        *)
Save(s) ==
  /\ call[s] = Idle
  /\ \E new \in Price : WritePrice(new)
  /\ UNCHANGED <<status, lock, approved, sign, outside, verdict, call>>

------------------------------------------------------------------------------
(* submitPricingApproval, whatever the status: a checklist is read, ...       *)
SubmitRead(s) ==
  /\ call[s] = Idle
  /\ Run(s, [Idle EXCEPT !.pc = "submit"])
  /\ UNCHANGED <<row, sign, outside, verdict>>

(* ... an instance inserted, an error swallowed, ...                          *)
SubmitOpen(s) ==
  /\ call[s].pc = "submit"
  /\ \E i \in Instance :
       /\ Opened(i)
       /\ \A j \in Instance : j < i => verdict[j] # "none"
  /\ Goto(s, "lock")
  /\ UNCHANGED <<row, sign, outside>>

SubmitUnopened(s) ==
  /\ call[s].pc = "submit"
  /\ Goto(s, "lock")
  /\ UNCHANGED <<row, sign, outside, verdict>>

(* ... and the lock stamped as pending.                                       *)
SubmitLock(s) ==
  /\ call[s].pc = "lock"
  /\ lock' = "pending"
  /\ End(s)
  /\ UNCHANGED <<status, price, approved, sign, outside, verdict>>

(* The settler's and the decision's write of the row.                         *)
SetDecision(d) ==
  /\ status' = d /\ lock' = d
  /\ approved' = IF d = "approved" THEN price ELSE approved

(* settle_approval_entity, under its status condition.                        *)
SettleAs(d) == IF status = "draft" THEN SetDecision(d) ELSE UNCHANGED <<status, lock, approved>>

(* decideApproval: the engine decides, ...                                    *)
Decide(s, i, d) ==
  /\ call[s] = Idle
  /\ Decided(i, d)
  /\ Run(s, [Idle EXCEPT !.pc = "settle", !.inst = i])
  /\ UNCHANGED <<row, sign, outside>>

(* ... or has decided already, ...                                            *)
DecideOther(s, i) ==
  /\ call[s] = Idle
  /\ verdict[i] # "none"
  /\ Run(s, [Idle EXCEPT !.pc = "settle", !.inst = i])
  /\ UNCHANGED <<row, sign, outside, verdict>>

(* ... and settle_approval_entity_for mirrors it onto the proposal.           *)
Settle(s) ==
  /\ call[s].pc = "settle"
  /\ LET v == verdict[call[s].inst] IN
     IF v \in {"approved", "rejected"} THEN SettleAs(v) ELSE UNCHANGED <<status, lock, approved>>
  /\ End(s)
  /\ UNCHANGED <<price, sign, outside, verdict>>

Cancel(i) ==
  /\ Decided(i, "cancelled")
  /\ UNCHANGED <<row, sign, outside, call>>

(* proposal_pricing_decide looks for the last open instance, unlocked, ...    *)
PricingDecideRead(s, d) ==
  /\ call[s] = Idle
  /\ LET open == {i \in Instance : verdict[i] = "open"} IN
     \E i \in IF open = {} THEN {NoInstance} ELSE {o \in open : \A p \in open : p <= o} :
       Run(s, [Idle EXCEPT !.pc = "decide", !.inst = i, !.to = d])
  /\ UNCHANGED <<row, sign, outside, verdict>>

(* ... decides it by its id and settles, whatever became of it since, ...     *)
PricingDecideInstance(s) ==
  /\ call[s].pc = "decide" /\ call[s].inst # NoInstance
  /\ verdict' = [verdict EXCEPT ![call[s].inst] = call[s].to]
  /\ SettleAs(call[s].to)
  /\ End(s)
  /\ UNCHANGED <<price, sign, outside>>

(* ... or, having found none, writes the proposal whatever its status.        *)
PricingDecideChainless(s) ==
  /\ call[s].pc = "decide" /\ call[s].inst = NoInstance
  /\ SetDecision(call[s].to)
  /\ End(s)
  /\ UNCHANGED <<price, sign, outside, verdict>>

------------------------------------------------------------------------------
(* sendProposalForSignature reads an approved proposal, ...                   *)
SendRead(s) ==
  /\ call[s] = Idle
  /\ status = "approved" /\ esign \notin {"sent", "viewed", "completed"}
  /\ Run(s, [Idle EXCEPT !.pc = "send"])
  /\ UNCHANGED <<row, sign, outside, verdict>>

(* ... has the provider send an envelope, ...                                 *)
SendEnvelope(s) ==
  /\ call[s].pc = "send"
  /\ \E e \in Envelope :
       /\ provider[e] = "none" /\ \A f \in Envelope : f < e => provider[f] # "none"
       /\ provider' = [provider EXCEPT ![e] = "sent"]
       /\ Run(s, [Idle EXCEPT !.pc = "sent", !.env = e])
  /\ UNCHANGED <<row, sign, owed, verdict>>

(* ... and writes it onto the proposal by its id.                             *)
SendWrite(s) ==
  /\ call[s].pc = "sent"
  /\ status' = "sent"
  /\ env' = call[s].env /\ esign' = "sent" /\ history' = {}
  /\ End(s)
  /\ UNCHANGED <<lock, price, approved, outside, verdict>>

(* voidProposalEsign asks the provider to void an envelope that is not signed, *)
(* which answers with an error when it cannot, and applies the event itself.  *)
Void(s) ==
  /\ call[s] = Idle
  /\ env # 0 /\ esign # "completed"
  /\ provider[env] \in {"sent", "viewed"}
  /\ provider' = [provider EXCEPT ![env] = "voided"]
  /\ Run(s, [Idle EXCEPT !.pc = "apply", !.event = "voided"])
  /\ UNCHANGED <<row, sign, owed, verdict>>

(* The signer: the provider sees the envelope through and owes the event.     *)
Sign(e, to) ==
  /\ provider[e] \in {"sent", "viewed"} /\ provider[e] # to
  /\ provider' = [provider EXCEPT ![e] = to]
  /\ owed' = owed \cup {<<e, to>>}
  /\ UNCHANGED <<row, sign, verdict, call>>

(* A delivery that the provider signed, PUBLIC_HOOK_ENFORCE being "block" as  *)
(* it is by default, finds the proposal by its envelope (404 otherwise, and   *)
(* the provider tries again), ...                                             *)
HookLookup(h, e, v) ==
  /\ call[h] = Idle
  /\ <<e, v>> \in owed /\ env = e
  /\ Run(h, [Idle EXCEPT !.pc = "apply", !.env = e, !.event = v])
  /\ UNCHANGED <<row, sign, outside, verdict>>

(* The delivery is answered; the answer may get lost.                         *)
Answered(s) == owed' \in {owed, owed \ {<<call[s].env, call[s].event>>}}

(* ... and applyEsignEvent reads its history and may drop a repeated event:   *)
(* by the provider's id of it, which is optional and which a void does not    *)
(* have, or, without one, within five seconds of the same event. Otherwise    *)
(* the event is applied, repeated or not ...                                  *)
ApplyRead(s) ==
  /\ call[s].pc = "apply"
  /\ \/ /\ call[s].event \in history
        /\ End(s)
        /\ Answered(s)
     \/ /\ call' = [call EXCEPT ![s].pc = "patch", ![s].seen = history]
        /\ UNCHANGED owed
  /\ UNCHANGED <<row, sign, provider, verdict>>

(* Mutant: a viewed envelope counts as signed.                                *)
ApplyWriteEarly(s) ==
  /\ call[s].pc = "patch"
  /\ history' = call[s].seen \cup {call[s].event}
  /\ esign' = call[s].event
  /\ status' = IF call[s].event \in {"viewed", "completed"} THEN "accepted" ELSE status
  /\ Answered(s)
  /\ End(s)
  /\ UNCHANGED <<lock, price, approved, env, provider, verdict>>

(* ... or writes what it read plus the event, by the proposal's id.           *)
ApplyWrite(s) ==
  /\ call[s].pc = "patch"
  /\ history' = call[s].seen \cup {call[s].event}
  /\ esign' = call[s].event
  /\ status' = IF call[s].event = "completed" THEN "accepted" ELSE status
  /\ Answered(s)
  /\ End(s)
  /\ UNCHANGED <<lock, price, approved, env, provider, verdict>>

------------------------------------------------------------------------------
(* createProposalVersion reads the source, inserts its copy ...               *)
VersionRead(s) ==
  /\ call[s] = Idle
  /\ status \notin {"superseded", "accepted"}
  /\ Run(s, [Idle EXCEPT !.pc = "supersede"])
  /\ UNCHANGED <<row, sign, outside, verdict>>

(* ... and supersedes the source by its id.                                   *)
Supersede(s) ==
  /\ call[s].pc = "supersede"
  /\ status' = "superseded"
  /\ End(s)
  /\ UNCHANGED <<lock, price, approved, sign, outside, verdict>>

(* A user's call stops between two requests.                                  *)
Stop(s) ==
  /\ call[s] # Idle
  /\ End(s)
  /\ UNCHANGED <<row, sign, outside, verdict>>

------------------------------------------------------------------------------
Offer(s) ==
  \/ Save(s) \/ SubmitRead(s) \/ SubmitOpen(s) \/ SubmitUnopened(s) \/ SubmitLock(s)

Send(s) ==
  \/ SendRead(s) \/ SendEnvelope(s) \/ SendWrite(s) \/ Void(s)
  \/ ApplyRead(s) \/ ApplyWrite(s)

Version(s) == VersionRead(s) \/ Supersede(s)

Approve(s) ==
  \/ \E i \in Instance : DecideOther(s, i) \/ \E d \in {"approved", "rejected"} : Decide(s, i, d)
  \/ Settle(s)
  \/ \E d \in {"approved", "rejected"} : PricingDecideRead(s, d)
  \/ PricingDecideInstance(s) \/ PricingDecideChainless(s)

Deliver(h) ==
  \/ \E e \in Envelope, v \in Event : HookLookup(h, e, v)
  \/ ApplyRead(h) \/ ApplyWrite(h)

Next ==
  \/ \E s \in Sales : Offer(s) \/ Send(s) \/ Version(s) \/ Stop(s)
  \/ \E s \in Finance : Approve(s) \/ Stop(s)
  \/ \E h \in Hook : Deliver(h)
  \/ \E e \in Envelope, to \in {"viewed", "completed", "declined"} : Sign(e, to)
  \/ \E i \in Instance : Cancel(i)

Spec == Init /\ [][Next]_vars

(* The provider delivers a signature again until it is answered, and a route  *)
(* that has begun makes its next request.                                     *)
FairSpec ==
  Spec /\ \A h \in Hook :
            /\ WF_vars(ApplyRead(h) \/ ApplyWrite(h))
            /\ SF_vars(\E e \in Envelope : HookLookup(h, e, "completed"))

------------------------------------------------------------------------------
(* The price a customer gets to sign is the price that was approved, however  *)
(* saves, submissions, decisions and sends overlapped (cfo_approval_required, *)
(* proposal.functions.ts:1422; "pricing locked by CFO approval").             *)
SentPriceIsApproved == env # 0 => approved = price

(* An accepted proposal was signed, in an envelope sent for it, however its   *)
(* events were repeated, delayed, overtaken by each other or by a void, and   *)
(* though a decision may take it back to approved and let it be sent again    *)
(* (applyEsignEvent, proposal.functions.ts:1340).                             *)
AcceptedWasSigned == status = "accepted" => \E e \in Envelope : provider[e] = "completed"

(* It was signed in the envelope it names, which the signed copy is fetched   *)
(* by (proposal.functions.ts:1349); not so when two sends overlap.            *)
AcceptedNamesEnvelope == status = "accepted" => env # 0 /\ provider[env] = "completed"

(* A signature the provider reports reaches the proposal, unless a newer      *)
(* envelope took the place of the signed one.                                 *)
SignatureArrives ==
  \A e \in Envelope :
    <<e, "completed">> \in owed /\ env = e /\ "completed" \notin history
      ~> status = "accepted" \/ env # e

(* "Cannot version a proposal in status accepted" (proposal.functions.ts:81): *)
(* what was accepted stays accepted.                                          *)
AcceptedStays == [][status = "accepted" => status' = "accepted"]_vars
==============================================================================
