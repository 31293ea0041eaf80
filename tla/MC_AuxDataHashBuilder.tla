------------------------ MODULE MC_AuxDataHashBuilder ------------------------
(* The builder, under any caller and under its contract caller, for TLC. *)
EXTENDS CVoteRegistrationCaller, TLC

CONSTANTS k1, k2, a1, s1

MCVoteKeys == {k1, k2}
MCAddresses == {a1}
MCSignatures == {s1}
\* A small nonce and one that needs a wider CBOR head.
MCNonces == {0, 1234}
MCWeights == {1}
MCVotingPurposes == {0}
MCAddressSizes == {57}
\* Two delegations make the countdown reach 0 from above 1.
MCMaxDelegations == 2

\* Vote keys are only compared for equality.
Symmetry == Permutations(MCVoteKeys)
=============================================================================
