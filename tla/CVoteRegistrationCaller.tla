----------------------- MODULE CVoteRegistrationCaller -----------------------
(***************************************************************************)
(* The builder together with the caller contract it relies on, and the   *)
(* properties of the digests it produces.                                 *)
(*                                                                         *)
(* The caller (the signTx vote-registration handler, not under src/) is   *)
(* modelled from spec.md: the format fixed at enter says whether a voting  *)
(* purpose follows the nonce (sections 3 and 8); the payload digest is     *)
(* produced once, when the payload is complete, and signed before the      *)
(* signature is added (sections 1 and 3).  Each caller step is one         *)
(* builder handler, unchanged, with the caller's condition as an extra     *)
(* conjunct.  Spec (from AuxDataHashBuilder) is the builder under any      *)
(* caller; CallerSpec is the builder under this caller.                    *)
(***************************************************************************)
EXTENDS AuxDataHashBuilder, CborGrammar

\* The payload map holds every field its format declares.
PayloadComplete ==
  \/ format = "CIP15" /\ state = "PAYLOAD_NONCE"
  \/ format = "CIP36" /\ state = "PAYLOAD_VOTING_PURPOSE"

CallerNext ==
  \/ auxDataHashBuilder_init
  \/ \E f \in Formats : cVoteRegistration_enter(f)
  \/ cVoteRegistration_enterPayload
  \/ \E k \in VoteKeys : cVoteRegistration_addVoteKey(k)
  \/ \E n \in 0 .. MaxDelegations : cVoteRegistration_enterDelegations(n)
  \/ \E k \in VoteKeys, w \in Weights : cVoteRegistration_addDelegation(k, w)
  \/ \E k \in VoteKeys : cVoteRegistration_addStakingKey(k)
  \/ \E a \in Addresses, sz \in AddressSizes :
        cVoteRegistration_addPaymentAddress(a, sz)
  \/ \E n \in Nonces : cVoteRegistration_addNonce(n)
  \/ format = "CIP36" /\ \E p \in VotingPurposes :
                            cVoteRegistration_addVotingPurpose(p)
  \/ PayloadComplete /\ ~payloadFinalized /\ cVoteRegistration_finalizePayload
  \/ payloadFinalized /\ \E s \in Signatures : cVoteRegistration_addSignature(s)
  \/ cVoteRegistration_addAuxiliaryScripts
  \/ auxDataHashBuilder_finalize
  \/ AssertFails

CallerSpec == Init /\ [][CallerNext]_vars

-----------------------------------------------------------------------------
(* No digest of a malformed sequence: whatever the builder writes as the   *)
(* aux-data digest or the payload digest is the hash of exactly one        *)
(* complete, canonically ordered CBOR item.  Declared map and array sizes  *)
(* (enter, enterPayload, enterDelegations, addSignature) must agree with   *)
(* the entries the later handlers emit.                                    *)
DigestsWellFormed ==
  /\ auxOut \in Seq(Token) => IsCompleteItem(auxOut)
  /\ payloadOut \in Seq(Token) => IsCompleteItem(payloadOut)

(* The payload the registration signature covers is the one embedded in   *)
(* the aux data: behind the aux-data framing, the aux-data digest carries  *)
(* the payload digest's tokens, and the signature entry (61285) begins     *)
(* right after them.                                                       *)
SignedPayloadEmbedded ==
  auxOut \in Seq(Token) /\ payloadOut \in Seq(Token) =>
    /\ Len(auxOut) >= Len(payloadOut) + 2
    /\ \A i \in 2 .. Len(payloadOut) : auxOut[i + 1] = payloadOut[i]
    /\ auxOut[Len(payloadOut) + 2] =
         Tok("UNSIGNED", METADATA_KEY_CVOTE_REGISTRATION_SIGNATURE)
=============================================================================
