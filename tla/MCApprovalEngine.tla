--------------------------- MODULE MCApprovalEngine ---------------------------
(* Instances of ApprovalEngine for TLC: a finance step held by two people and *)
(* a legal step nobody holds, which falls back to the administrator.          *)
EXTENDS ApprovalEngine, TLC

CONSTANTS s1, s2, s3, ann, bob, finance, legal, admin

MCHolders == (finance :> {ann, bob}) @@ (legal :> {}) @@ (admin :> {ann})

FinanceThenLegal == (1 :> finance) @@ (2 :> legal)
FinanceOnly == (1 :> finance) @@ (2 :> NoRole)
LegalLast == (1 :> NoRole) @@ (2 :> legal)

MCChains == {FinanceThenLegal, FinanceOnly, LegalLast}
MCEditChains == {FinanceOnly, LegalLast}

==============================================================================
