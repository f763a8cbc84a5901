--------------------------- MODULE ApprovalVerdict ---------------------------
(* What the approval engine promises the features that build on it: an       *)
(* approval instance is opened once, is then decided at most once, and a     *)
(* decision is never revised.  ApprovalEngine implements this specification; *)
(* PoApproval is written against it.                                         *)
CONSTANT Instance

VARIABLE verdict

Decision == {"approved", "rejected", "cancelled"}
Verdict == {"none", "open"} \cup Decision

VerdictInit == verdict = [i \in Instance |-> "none"]

Opened(i) ==
  /\ verdict[i] = "none"
  /\ verdict' = [verdict EXCEPT ![i] = "open"]

Decided(i, d) ==
  /\ verdict[i] = "open"
  /\ verdict' = [verdict EXCEPT ![i] = d]

VerdictNext == \E i \in Instance : Opened(i) \/ \E d \in Decision : Decided(i, d)

VerdictSpec == VerdictInit /\ [][VerdictNext]_verdict
==============================================================================
