--------------------------- MODULE MC_MessageSigning ---------------------------
(***************************************************************************)
(* getTxWitness for TLC: a well-sized request, a short hash, an output   *)
(* buffer too small and one too large (the ASSERT wants exactly 64), and  *)
(* a signer that returns 64 bytes or a short result.                      *)
(***************************************************************************)
EXTENDS MessageSigning

MCTxHashSizes == {TX_HASH_LENGTH, 28}
MCOutSizes == {SIGNATURE_SIZE, 32, 128}
MCSignatureSizes == {SIGNATURE_SIZE, 0}
=============================================================================
