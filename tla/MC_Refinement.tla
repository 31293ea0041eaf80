--------------------------- MODULE MC_Refinement ---------------------------
(* The builder checked against its abstract contract, for TLC. *)
EXTENDS AuxDataHashBuilderRefinement, TLC

CONSTANTS k1, k2, a1, s1

MCVoteKeys == {k1, k2}
MCAddresses == {a1}
MCSignatures == {s1}
MCNonces == {0, 1234}
MCWeights == {1}
MCVotingPurposes == {0}
MCAddressSizes == {57}
MCMaxDelegations == 2
=============================================================================
