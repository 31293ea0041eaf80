-------------------- MODULE CVoteRegistrationCaller_proofs --------------------
(***************************************************************************)
(* Proof that, under the caller contract of the signTx handler, the        *)
(* payload that is signed is the one embedded in the aux data, for every   *)
(* value of the constants.                                                 *)
(***************************************************************************)
EXTENDS CVoteRegistrationCaller, AuxDataHashBuilderRefinement_proofs

(* What the caller contract adds to the builder's invariant.  The payload  *)
(* digest is written once, by the first finalizePayload, and is then the   *)
(* payload context, which no later call of a live operation extends; from  *)
(* the signature on, the 61285 label sits right after the payload in the   *)
(* aux-data context; the aux-data digest is the aux-data context.          *)
CallerInv ==
  /\ ~payloadFinalized => payloadOut = NoDigest
  /\ payloadFinalized =>
       /\ payloadOut = payloadHash
       /\ state \in {"PAYLOAD_NONCE", "PAYLOAD_VOTING_PURPOSE", "SIGNATURE",
                     "AUXILIARY_SCRIPTS", "FINISHED"}
       /\ state = "PAYLOAD_NONCE" /\ ~aborted => format = "CIP15"
  /\ state \in {"SIGNATURE", "AUXILIARY_SCRIPTS", "FINISHED"} =>
       /\ payloadFinalized
       /\ auxHash[Len(payloadHash) + 2] =
            Tok("UNSIGNED", METADATA_KEY_CVOTE_REGISTRATION_SIGNATURE)
  /\ auxOut # NoDigest => state = "FINISHED" /\ auxOut = auxHash

CInv == RInv /\ CallerInv

-----------------------------------------------------------------------------
\* Every step of the contract caller is a builder step.
LEMMA CallerNextIsNext == CallerNext => Next
BY DEF CallerNext, Next

\* The builder's invariants hold under the contract caller.
LEMMA CallerRInvStep == RInv /\ [CallerNext]_vars => RInv'
BY RInvStep, CallerNextIsNext

\* The caller's payload handlers: one BodyAppend, at a state from which the
\* payload digest has not been taken.
LEMMA CallerPayloadHandlers ==
  ASSUME CInv,
         \/ cVoteRegistration_enterPayload
         \/ \E k \in VoteKeys : cVoteRegistration_addVoteKey(k)
         \/ \E n \in 0 .. MaxDelegations : cVoteRegistration_enterDelegations(n)
         \/ \E k \in VoteKeys, w \in Weights : cVoteRegistration_addDelegation(k, w)
         \/ \E k \in VoteKeys : cVoteRegistration_addStakingKey(k)
         \/ \E a \in Addresses, sz \in AddressSizes :
               cVoteRegistration_addPaymentAddress(a, sz)
         \/ \E n \in Nonces : cVoteRegistration_addNonce(n)
         \/ format = "CIP36" /\ \E p \in VotingPurposes :
                                   cVoteRegistration_addVotingPurpose(p)
  PROVE  BodyAppend /\ ~payloadFinalized
<1>1. BodyAppend
  BY PayloadHandlers
<1>2. ~aborted /\ (state \in {"PAYLOAD_NONCE", "PAYLOAD_VOTING_PURPOSE"} =>
                     state = "PAYLOAD_NONCE" /\ format = "CIP36")
  BY DEF cVoteRegistration_enterPayload, cVoteRegistration_addVoteKey,
         cVoteRegistration_enterDelegations, cVoteRegistration_addDelegation,
         cVoteRegistration_addStakingKey, StakingKeyAllowed,
         cVoteRegistration_addPaymentAddress, cVoteRegistration_addNonce,
         cVoteRegistration_addVotingPurpose, Live
<1>3. state \in PayloadStates
  BY <1>1 DEF BodyAppend, BodyAppendOf
<1>4. ~payloadFinalized
  BY <1>2, <1>3 DEF CInv, CallerInv, PayloadStates
<1>5. QED
  BY <1>1, <1>4

\* The initial states satisfy the caller invariant.
LEMMA CInvInit == Init => CInv
<1> SUFFICES ASSUME Init PROVE CInv
  OBVIOUS
<1>1. RInv
  BY RInvInit
<1>2. CallerInv
  BY DEF Init, CallerInv
<1>3. QED
  BY <1>1, <1>2 DEF CInv

\* Every step of the contract caller preserves the caller invariant.
LEMMA CallerInvStep == CInv /\ [CallerNext]_vars => CallerInv'
<1> SUFFICES ASSUME CInv, [CallerNext]_vars PROVE CallerInv'
  OBVIOUS
<1> USE DEF PayloadStates, BuilderStates
<1>1. CASE auxDataHashBuilder_init
  BY <1>1 DEF auxDataHashBuilder_init, CallerInv
<1>2. ASSUME NEW f \in Formats, cVoteRegistration_enter(f) PROVE CallerInv'
  <2>1. ~payloadFinalized /\ payloadOut = NoDigest /\ auxOut = NoDigest
    BY <1>2 DEF cVoteRegistration_enter, CInv, CallerInv, RInv, DigestInv
  <2>2. QED
    BY <1>2, <2>1 DEF cVoteRegistration_enter, CallerInv
<1>3. CASE \/ cVoteRegistration_enterPayload
           \/ \E k \in VoteKeys : cVoteRegistration_addVoteKey(k)
           \/ \E n \in 0 .. MaxDelegations : cVoteRegistration_enterDelegations(n)
           \/ \E k \in VoteKeys, w \in Weights : cVoteRegistration_addDelegation(k, w)
           \/ \E k \in VoteKeys : cVoteRegistration_addStakingKey(k)
           \/ \E a \in Addresses, sz \in AddressSizes :
                 cVoteRegistration_addPaymentAddress(a, sz)
           \/ \E n \in Nonces : cVoteRegistration_addNonce(n)
           \/ format = "CIP36" /\ \E p \in VotingPurposes :
                                     cVoteRegistration_addVotingPurpose(p)
  <2>1. BodyAppend /\ ~payloadFinalized
    BY <1>3, CallerPayloadHandlers
  <2>2. PICK t \in Seq(Token) : BodyAppendOf(t)
    BY <2>1 DEF BodyAppend
  <2>3. payloadOut = NoDigest /\ auxOut = NoDigest
    <3>1. RInv
      BY DEF CInv
    <3>2. QED
      BY <3>1, <2>1, <2>2, PayloadStateFacts DEF BodyAppendOf, CInv, CallerInv
  <2>4. QED
    BY <2>1, <2>2, <2>3 DEF BodyAppendOf, CallerInv
<1>4. CASE PayloadComplete /\ ~payloadFinalized /\ cVoteRegistration_finalizePayload
  <2>1. /\ payloadOut' = payloadHash /\ payloadFinalized'
        /\ UNCHANGED <<state, format, auxHash, payloadHash, auxOut, aborted>>
    BY <1>4 DEF cVoteRegistration_finalizePayload
  <2>2. auxOut = NoDigest
    BY <1>4 DEF PayloadComplete, CInv, RInv, DigestInv
  <2>3. QED
    BY <1>4, <2>1, <2>2 DEF PayloadComplete, CallerInv
<1>5. CASE payloadFinalized /\ \E s \in Signatures : cVoteRegistration_addSignature(s)
  <2>1. PICK s \in Signatures : cVoteRegistration_addSignature(s)
    BY <1>5
  <2> DEFINE t == <<Tok("UNSIGNED", METADATA_KEY_CVOTE_REGISTRATION_SIGNATURE),
                    Tok("MAP", 1), Tok("UNSIGNED", CVOTE_REGISTRATION_SIGNATURE_KEY)>>
                  \o ByteString(s, ED25519_SIGNATURE_LENGTH)
  <2>2. /\ auxHash' = auxHash \o t /\ state' = "SIGNATURE"
        /\ UNCHANGED <<payloadHash, payloadFinalized, payloadOut, auxOut>>
        /\ state \in PayloadStates
    BY <2>1 DEF cVoteRegistration_addSignature, Emit, HC_AUX_DATA,
                HC_CVOTE_REGISTRATION_PAYLOAD, PayloadEnded
  <2>3. TypeOK /\ auxOut = NoDigest /\ Len(auxHash) = Len(payloadHash) + 1
    BY <2>2, PayloadStateFacts DEF CInv
  <2>4. /\ t \in Seq(Token) /\ Len(t) >= 1
        /\ t[1] = Tok("UNSIGNED", METADATA_KEY_CVOTE_REGISTRATION_SIGNATURE)
    <3>1. t \in Seq(Token) /\ Len(t) >= 1
      BY EmittedTokens, EmittedNonEmpty
    <3>2. /\ ByteString(s, ED25519_SIGNATURE_LENGTH) \in Seq(Token)
          /\ <<Tok("UNSIGNED", METADATA_KEY_CVOTE_REGISTRATION_SIGNATURE),
               Tok("MAP", 1), Tok("UNSIGNED", CVOTE_REGISTRATION_SIGNATURE_KEY)>>
               \in Seq(Token)
      <4>1. s \in Data /\ ED25519_SIGNATURE_LENGTH \in Nat
        BY DEF Data, ED25519_SIGNATURE_LENGTH
      <4>2. QED
        BY <4>1, ByteStringTokens, TokenTypes
           DEF CborTypes, METADATA_KEY_CVOTE_REGISTRATION_SIGNATURE,
               CVOTE_REGISTRATION_SIGNATURE_KEY
    <3>3. QED
      BY <3>1, <3>2, ConcatTokenProperties
  <2>5. auxHash'[Len(payloadHash) + 2] =
          Tok("UNSIGNED", METADATA_KEY_CVOTE_REGISTRATION_SIGNATURE)
    <3>1. auxHash \in Seq(Token) /\ payloadHash \in Seq(Token)
      BY <2>3 DEF TypeOK
    <3>2. (auxHash \o t)[Len(auxHash) + 1] = t[1]
      BY <3>1, <2>4, ConcatTokenProperties
    <3>3. QED
      BY <3>2, <2>2, <2>3, <2>4
  <2>6. QED
    BY <1>5, <2>2, <2>3, <2>5 DEF CInv, CallerInv
<1>6. CASE cVoteRegistration_addAuxiliaryScripts
  <2>1. /\ auxHash' = auxHash \o <<Tok("ARRAY", 0)>>
        /\ state = "SIGNATURE" /\ state' = "AUXILIARY_SCRIPTS"
        /\ UNCHANGED <<payloadHash, payloadFinalized, payloadOut, auxOut>>
    BY <1>6 DEF cVoteRegistration_addAuxiliaryScripts, Emit, HC_AUX_DATA,
                HC_CVOTE_REGISTRATION_PAYLOAD
  <2>2. /\ TypeOK /\ Len(auxHash) >= Len(payloadHash) + 2 /\ auxOut = NoDigest
        /\ payloadFinalized
        /\ auxHash[Len(payloadHash) + 2] =
             Tok("UNSIGNED", METADATA_KEY_CVOTE_REGISTRATION_SIGNATURE)
    BY <2>1 DEF CInv, RInv, IInv, DigestInv, CallerInv
  <2>3. auxHash'[Len(payloadHash) + 2] = auxHash[Len(payloadHash) + 2]
    <3>1. /\ auxHash \in Seq(Token) /\ payloadHash \in Seq(Token)
          /\ <<Tok("ARRAY", 0)>> \in Seq(Token)
      BY <2>2, EmittedTokens DEF TypeOK
    <3>2. Len(payloadHash) + 2 \in 1 .. Len(auxHash)
      BY <3>1, <2>2
    <3>3. QED
      BY <3>1, <3>2, <2>1, ConcatTokenProperties
  <2>4. QED
    BY <2>1, <2>2, <2>3 DEF CInv, CallerInv
<1>7. CASE auxDataHashBuilder_finalize
  <2>1. payloadFinalized
    BY <1>7 DEF auxDataHashBuilder_finalize, CInv, CallerInv
  <2>2. QED
    BY <1>7, <2>1 DEF auxDataHashBuilder_finalize, CInv, CallerInv
<1>8. CASE AssertFails
  BY <1>8 DEF AssertFails, CInv, CallerInv
<1>9. CASE UNCHANGED vars
  BY <1>9 DEF vars, CInv, CallerInv
<1>10. QED
  BY <1>1, <1>2, <1>3, <1>4, <1>5, <1>6, <1>7, <1>8, <1>9 DEF CallerNext

\* The caller invariant is inductive under the contract caller.
LEMMA CInvStep == CInv /\ [CallerNext]_vars => CInv'
BY CallerRInvStep, CallerInvStep DEF CInv

(* Under the caller contract of the signTx handler, the payload the        *)
(* registration signature covers is the one embedded in the aux data: the *)
(* payload digest written by finalizePayload reappears, past the framing,  *)
(* in the aux-data digest written by finalize, immediately followed by the *)
(* 61285 signature entry that addSignature appends.                         *)
THEOREM SignedPayloadIsEmbedded == CallerSpec => []SignedPayloadEmbedded
<1>1. CInv => SignedPayloadEmbedded
  <2> SUFFICES ASSUME CInv, auxOut \in Seq(Token), payloadOut \in Seq(Token)
               PROVE  /\ Len(auxOut) >= Len(payloadOut) + 2
                      /\ \A i \in 2 .. Len(payloadOut) :
                           auxOut[i + 1] = payloadOut[i]
                      /\ auxOut[Len(payloadOut) + 2] =
                           Tok("UNSIGNED", METADATA_KEY_CVOTE_REGISTRATION_SIGNATURE)
    BY DEF SignedPayloadEmbedded
  <2>1. auxOut # NoDigest
    BY SentinelsAssumption
  <2>2. state = "FINISHED" /\ auxOut = auxHash
    BY <2>1 DEF CInv, CallerInv
  <2>3. payloadFinalized /\ payloadOut = payloadHash
    BY <2>2 DEF CInv, CallerInv
  <2>4. /\ AuxFramesPayload(auxHash, payloadHash)
        /\ Len(auxHash) >= Len(payloadHash) + 2
        /\ auxHash[Len(payloadHash) + 2] =
             Tok("UNSIGNED", METADATA_KEY_CVOTE_REGISTRATION_SIGNATURE)
    BY <2>2 DEF CInv, RInv, IInv, PayloadSharedWithAux, DigestInv, CallerInv
  <2>5. QED
    BY <2>2, <2>3, <2>4 DEF AuxFramesPayload
<1>2. QED
  BY <1>1, CInvInit, CInvStep, PTL DEF CallerSpec
=============================================================================
