--------------------------- MODULE MCProposalReview ---------------------------
(* Small instances of ProposalReview for TLC. *)
EXTENDS ProposalReview, TLC

MCSource == <<"product", "supplier", "warehouse">>

RequestSymmetry == Permutations(Request)

=============================================================================
