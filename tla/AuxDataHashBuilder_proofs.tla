---------------------- MODULE AuxDataHashBuilder_proofs ----------------------
(***************************************************************************)
(* Proofs about the hash builder, for every value of the constants.       *)
(***************************************************************************)
EXTENDS AuxDataHashBuilder, SequenceTheorems, TLAPS

\* Every token the handlers emit is a Token.
LEMMA TokenTypes ==
  /\ \A type \in CborTypes, n \in Nat : Tok(type, n) \in Token
  /\ \A d \in Data : Raw(d) \in Token
  BY DEF Token, Tok, Raw

\* Appending emitted tokens keeps a hash context a sequence of tokens.
LEMMA ConcatTokens ==
  ASSUME NEW s \in Seq(Token), NEW t \in Seq(Token)
  PROVE  s \o t \in Seq(Token)
  BY ConcatProperties

\* The outer array(2) with which init opens the aux-data context.
LEMMA OpenedAuxData == <<Tok("ARRAY", 2)>> \in Seq(Token)
<1>1. Tok("ARRAY", 2) \in Token
  BY TokenTypes DEF CborTypes
<1>2. QED
  BY <1>1

\* The token sequences the handlers append are sequences of tokens.
LEMMA EmittedTokens ==
  /\ \A n \in Nat :
       <<Tok("UNSIGNED", METADATA_KEY_CVOTE_REGISTRATION_PAYLOAD), Tok("MAP", n)>>
         \in Seq(Token)
  /\ \A k \in VoteKeys :
       <<Tok("UNSIGNED", CVOTE_REGISTRATION_PAYLOAD_KEY_VOTE_KEY)>>
         \o ByteString(k, PUBLIC_KEY_SIZE) \in Seq(Token)
  /\ \A n \in Nat :
       <<Tok("UNSIGNED", CVOTE_REGISTRATION_PAYLOAD_KEY_VOTE_KEY), Tok("ARRAY", n)>>
         \in Seq(Token)
  /\ \A k \in VoteKeys, w \in Weights :
       <<Tok("ARRAY", 2)>> \o ByteString(k, PUBLIC_KEY_SIZE)
         \o <<Tok("UNSIGNED", w)>> \in Seq(Token)
  /\ \A k \in VoteKeys :
       <<Tok("UNSIGNED", CVOTE_REGISTRATION_PAYLOAD_KEY_STAKING_KEY)>>
         \o ByteString(k, PUBLIC_KEY_SIZE) \in Seq(Token)
  /\ \A a \in Addresses, sz \in AddressSizes :
       <<Tok("UNSIGNED", CVOTE_REGISTRATION_PAYLOAD_PAYMENT_ADDRESS)>>
         \o ByteString(a, sz) \in Seq(Token)
  /\ \A n \in Nonces :
       <<Tok("UNSIGNED", CVOTE_REGISTRATION_PAYLOAD_KEY_NONCE), Tok("UNSIGNED", n)>>
         \in Seq(Token)
  /\ \A p \in VotingPurposes :
       <<Tok("UNSIGNED", CVOTE_REGISTRATION_PAYLOAD_VOTING_PURPOSE),
         Tok("UNSIGNED", p)>> \in Seq(Token)
  /\ \A s \in Signatures :
       <<Tok("UNSIGNED", METADATA_KEY_CVOTE_REGISTRATION_SIGNATURE),
         Tok("MAP", 1), Tok("UNSIGNED", CVOTE_REGISTRATION_SIGNATURE_KEY)>>
         \o ByteString(s, ED25519_SIGNATURE_LENGTH) \in Seq(Token)
  /\ <<Tok("ARRAY", 0)>> \in Seq(Token)
<1> USE ConstantsAssumption
<1>1. \A n \in Nat :
       <<Tok("UNSIGNED", METADATA_KEY_CVOTE_REGISTRATION_PAYLOAD), Tok("MAP", n)>>
         \in Seq(Token)
  BY TokenTypes DEF CborTypes, METADATA_KEY_CVOTE_REGISTRATION_PAYLOAD
<1>2. \A k \in VoteKeys :
       <<Tok("UNSIGNED", CVOTE_REGISTRATION_PAYLOAD_KEY_VOTE_KEY)>>
         \o ByteString(k, PUBLIC_KEY_SIZE) \in Seq(Token)
  BY TokenTypes, ConcatTokens DEF CborTypes, ByteString, Data, PUBLIC_KEY_SIZE,
     CVOTE_REGISTRATION_PAYLOAD_KEY_VOTE_KEY
<1>3. \A n \in Nat :
       <<Tok("UNSIGNED", CVOTE_REGISTRATION_PAYLOAD_KEY_VOTE_KEY), Tok("ARRAY", n)>>
         \in Seq(Token)
  BY TokenTypes DEF CborTypes, CVOTE_REGISTRATION_PAYLOAD_KEY_VOTE_KEY
<1>4. \A k \in VoteKeys, w \in Weights :
       <<Tok("ARRAY", 2)>> \o ByteString(k, PUBLIC_KEY_SIZE)
         \o <<Tok("UNSIGNED", w)>> \in Seq(Token)
  BY TokenTypes, ConcatTokens DEF CborTypes, ByteString, Data, PUBLIC_KEY_SIZE
<1>5. \A k \in VoteKeys :
       <<Tok("UNSIGNED", CVOTE_REGISTRATION_PAYLOAD_KEY_STAKING_KEY)>>
         \o ByteString(k, PUBLIC_KEY_SIZE) \in Seq(Token)
  BY TokenTypes, ConcatTokens DEF CborTypes, ByteString, Data, PUBLIC_KEY_SIZE,
     CVOTE_REGISTRATION_PAYLOAD_KEY_STAKING_KEY
<1>6. \A a \in Addresses, sz \in AddressSizes :
       <<Tok("UNSIGNED", CVOTE_REGISTRATION_PAYLOAD_PAYMENT_ADDRESS)>>
         \o ByteString(a, sz) \in Seq(Token)
  BY TokenTypes, ConcatTokens DEF CborTypes, ByteString, Data,
     CVOTE_REGISTRATION_PAYLOAD_PAYMENT_ADDRESS, BUFFER_SIZE_PARANOIA
<1>7. \A n \in Nonces :
       <<Tok("UNSIGNED", CVOTE_REGISTRATION_PAYLOAD_KEY_NONCE), Tok("UNSIGNED", n)>>
         \in Seq(Token)
  BY TokenTypes DEF CborTypes, CVOTE_REGISTRATION_PAYLOAD_KEY_NONCE
<1>8. \A p \in VotingPurposes :
       <<Tok("UNSIGNED", CVOTE_REGISTRATION_PAYLOAD_VOTING_PURPOSE),
         Tok("UNSIGNED", p)>> \in Seq(Token)
  BY TokenTypes DEF CborTypes, CVOTE_REGISTRATION_PAYLOAD_VOTING_PURPOSE
<1>9. \A s \in Signatures :
       <<Tok("UNSIGNED", METADATA_KEY_CVOTE_REGISTRATION_SIGNATURE),
         Tok("MAP", 1), Tok("UNSIGNED", CVOTE_REGISTRATION_SIGNATURE_KEY)>>
         \o ByteString(s, ED25519_SIGNATURE_LENGTH) \in Seq(Token)
  BY TokenTypes, ConcatTokens DEF CborTypes, ByteString, Data,
     ED25519_SIGNATURE_LENGTH, METADATA_KEY_CVOTE_REGISTRATION_SIGNATURE,
     CVOTE_REGISTRATION_SIGNATURE_KEY
<1>10. <<Tok("ARRAY", 0)>> \in Seq(Token)
  BY TokenTypes DEF CborTypes
<1>11. QED
  BY <1>1, <1>2, <1>3, <1>4, <1>5, <1>6, <1>7, <1>8, <1>9, <1>10

\* The initial states are well typed.
LEMMA TypeInit == Init => TypeOK
<1> USE ConstantsAssumption
<1>1. SUFFICES ASSUME Init PROVE TypeOK
  OBVIOUS
<1>2. auxHash \in Seq(Token) /\ payloadHash \in Seq(Token)
  BY <1>1, OpenedAuxData, EmptySeq DEF Init
<1>3. QED
  BY <1>1, <1>2 DEF Init, TypeOK, Digest, BuilderStates

\* Every step of the builder keeps the type invariant.
LEMMA TypeStep == TypeOK /\ [Next]_vars => TypeOK'
<1> USE ConstantsAssumption
<1> SUFFICES ASSUME TypeOK, [Next]_vars PROVE TypeOK'
  OBVIOUS
<1>1. QED
  <2> USE DEF TypeOK, BuilderStates
  <2> DEFINE Emitted(toks) == toks \in Seq(Token)
  <2>1. CASE auxDataHashBuilder_init
    <3>1. auxHash' \in Seq(Token) /\ payloadHash' \in Seq(Token)
      BY <2>1, OpenedAuxData, EmptySeq DEF auxDataHashBuilder_init
    <3>2. QED
      BY <2>1, <3>1 DEF auxDataHashBuilder_init, Digest
  <2>2. ASSUME NEW f \in Formats, cVoteRegistration_enter(f) PROVE TypeOK'
    BY <2>2, TokenTypes, ConcatTokens DEF cVoteRegistration_enter, CborTypes
  <2>3. CASE cVoteRegistration_enterPayload
    <3>1. Emitted(<<Tok("UNSIGNED", METADATA_KEY_CVOTE_REGISTRATION_PAYLOAD),
                    Tok("MAP", PayloadMapSize)>>)
      BY TokenTypes DEF CborTypes, PayloadMapSize,
                        METADATA_KEY_CVOTE_REGISTRATION_PAYLOAD
    <3>2. QED
      BY <2>3, <3>1, ConcatTokens DEF cVoteRegistration_enterPayload, Emit
  <2>4. ASSUME NEW k \in VoteKeys, cVoteRegistration_addVoteKey(k) PROVE TypeOK'
    <3>1. Emitted(<<Tok("UNSIGNED", CVOTE_REGISTRATION_PAYLOAD_KEY_VOTE_KEY)>>
                  \o ByteString(k, PUBLIC_KEY_SIZE))
      BY TokenTypes, ConcatTokens DEF CborTypes, ByteString, Data,
         PUBLIC_KEY_SIZE, CVOTE_REGISTRATION_PAYLOAD_KEY_VOTE_KEY
    <3>2. QED
      BY <2>4, <3>1, ConcatTokens DEF cVoteRegistration_addVoteKey, Emit
  <2>5. ASSUME NEW n \in 0 .. MaxDelegations,
               cVoteRegistration_enterDelegations(n)
        PROVE  TypeOK'
    <3>1. Emitted(<<Tok("UNSIGNED", CVOTE_REGISTRATION_PAYLOAD_KEY_VOTE_KEY),
                    Tok("ARRAY", n)>>)
      BY TokenTypes DEF CborTypes, CVOTE_REGISTRATION_PAYLOAD_KEY_VOTE_KEY
    <3>2. QED
      BY <2>5, <3>1, ConcatTokens DEF cVoteRegistration_enterDelegations, Emit
  <2>6. ASSUME NEW k \in VoteKeys, NEW w \in Weights,
               cVoteRegistration_addDelegation(k, w)
        PROVE  TypeOK'
    <3>1. Emitted(<<Tok("ARRAY", 2)>> \o ByteString(k, PUBLIC_KEY_SIZE)
                  \o <<Tok("UNSIGNED", w)>>)
      BY TokenTypes, ConcatTokens DEF CborTypes, ByteString, Data,
         PUBLIC_KEY_SIZE
    <3>2. remaining' \in 0 .. MaxDelegations
      BY <2>6 DEF cVoteRegistration_addDelegation
    <3>3. QED
      BY <2>6, <3>1, <3>2, ConcatTokens DEF cVoteRegistration_addDelegation, Emit
  <2>7. ASSUME NEW k \in VoteKeys, cVoteRegistration_addStakingKey(k)
        PROVE  TypeOK'
    <3>1. Emitted(<<Tok("UNSIGNED", CVOTE_REGISTRATION_PAYLOAD_KEY_STAKING_KEY)>>
                  \o ByteString(k, PUBLIC_KEY_SIZE))
      BY TokenTypes, ConcatTokens DEF CborTypes, ByteString, Data,
         PUBLIC_KEY_SIZE, CVOTE_REGISTRATION_PAYLOAD_KEY_STAKING_KEY
    <3>2. QED
      BY <2>7, <3>1, ConcatTokens DEF cVoteRegistration_addStakingKey, Emit
  <2>8. ASSUME NEW a \in Addresses, NEW sz \in AddressSizes,
               cVoteRegistration_addPaymentAddress(a, sz)
        PROVE  TypeOK'
    <3>1. Emitted(<<Tok("UNSIGNED", CVOTE_REGISTRATION_PAYLOAD_PAYMENT_ADDRESS)>>
                  \o ByteString(a, sz))
      BY TokenTypes, ConcatTokens DEF CborTypes, ByteString, Data,
         CVOTE_REGISTRATION_PAYLOAD_PAYMENT_ADDRESS, BUFFER_SIZE_PARANOIA
    <3>2. QED
      BY <2>8, <3>1, ConcatTokens DEF cVoteRegistration_addPaymentAddress, Emit
  <2>9. ASSUME NEW n \in Nonces, cVoteRegistration_addNonce(n) PROVE TypeOK'
    <3>1. Emitted(<<Tok("UNSIGNED", CVOTE_REGISTRATION_PAYLOAD_KEY_NONCE),
                    Tok("UNSIGNED", n)>>)
      BY TokenTypes DEF CborTypes, CVOTE_REGISTRATION_PAYLOAD_KEY_NONCE
    <3>2. QED
      BY <2>9, <3>1, ConcatTokens DEF cVoteRegistration_addNonce, Emit
  <2>10. ASSUME NEW p \in VotingPurposes, cVoteRegistration_addVotingPurpose(p)
         PROVE  TypeOK'
    <3>1. Emitted(<<Tok("UNSIGNED", CVOTE_REGISTRATION_PAYLOAD_VOTING_PURPOSE),
                    Tok("UNSIGNED", p)>>)
      BY TokenTypes DEF CborTypes, CVOTE_REGISTRATION_PAYLOAD_VOTING_PURPOSE
    <3>2. QED
      BY <2>10, <3>1, ConcatTokens DEF cVoteRegistration_addVotingPurpose, Emit
  <2>11. CASE cVoteRegistration_finalizePayload
    BY <2>11 DEF cVoteRegistration_finalizePayload, Digest
  <2>12. ASSUME NEW sig \in Signatures, cVoteRegistration_addSignature(sig)
         PROVE  TypeOK'
    <3>1. Emitted(<<Tok("UNSIGNED", METADATA_KEY_CVOTE_REGISTRATION_SIGNATURE),
                    Tok("MAP", 1),
                    Tok("UNSIGNED", CVOTE_REGISTRATION_SIGNATURE_KEY)>>
                  \o ByteString(sig, ED25519_SIGNATURE_LENGTH))
      BY TokenTypes, ConcatTokens DEF CborTypes, ByteString, Data,
         ED25519_SIGNATURE_LENGTH, METADATA_KEY_CVOTE_REGISTRATION_SIGNATURE,
         CVOTE_REGISTRATION_SIGNATURE_KEY
    <3>2. QED
      BY <2>12, <3>1, ConcatTokens DEF cVoteRegistration_addSignature, Emit
  <2>13. CASE cVoteRegistration_addAuxiliaryScripts
    <3>1. Emitted(<<Tok("ARRAY", 0)>>)
      BY TokenTypes DEF CborTypes
    <3>2. QED
      BY <2>13, <3>1, ConcatTokens DEF cVoteRegistration_addAuxiliaryScripts,
         Emit
  <2>14. CASE auxDataHashBuilder_finalize
    BY <2>14 DEF auxDataHashBuilder_finalize, Digest
  <2>15. CASE AssertFails
    BY <2>15 DEF AssertFails
  <2>16. CASE UNCHANGED vars
    BY <2>16 DEF vars
  <2>17. QED
    BY <2>1, <2>2, <2>3, <2>4, <2>5, <2>6, <2>7, <2>8, <2>9, <2>10, <2>11,
       <2>12, <2>13, <2>14, <2>15, <2>16 DEF Next

(* The type invariant: every handler keeps the contexts sequences of       *)
(* tokens, the delegation countdown within 0 .. MaxDelegations (the        *)
(* remainingDelegations > 0 check of addDelegation is what keeps the       *)
(* size_t from wrapping) and the outputs digests or sentinels.             *)
THEOREM TypeCorrect == Spec => []TypeOK
  BY TypeInit, TypeStep, PTL DEF Spec

-----------------------------------------------------------------------------
\* A token appended to both contexts keeps the payload tokens at the same
\* positions of the aux-data context.
LEMMA LockstepAppend ==
  ASSUME NEW a \in Seq(Token), NEW p \in Seq(Token), NEW t \in Seq(Token),
         AuxFramesPayload(a, p), Len(a) = Len(p) + 1
  PROVE  /\ AuxFramesPayload(a \o t, p \o t)
         /\ Len(a \o t) = Len(p \o t) + 1
<1>1. /\ Len(a \o t) = Len(a) + Len(t)
      /\ \A i \in 1 .. Len(a) + Len(t) :
           (a \o t)[i] = IF i <= Len(a) THEN a[i] ELSE t[i - Len(a)]
  BY ConcatProperties
<1>2. /\ Len(p \o t) = Len(p) + Len(t)
      /\ \A i \in 1 .. Len(p) + Len(t) :
           (p \o t)[i] = IF i <= Len(p) THEN p[i] ELSE t[i - Len(p)]
  BY ConcatProperties
<1>3. \A i \in 2 .. Len(p \o t) : (a \o t)[i + 1] = (p \o t)[i]
  BY <1>1, <1>2 DEF AuxFramesPayload
<1>4. QED
  BY <1>1, <1>2, <1>3 DEF AuxFramesPayload

\* A token appended to the aux-data context only leaves the payload tokens
\* where they were.
LEMMA AuxOnlyAppend ==
  ASSUME NEW a \in Seq(Token), NEW p \in Seq(Token), NEW t \in Seq(Token),
         AuxFramesPayload(a, p)
  PROVE  AuxFramesPayload(a \o t, p)
<1>1. /\ Len(a \o t) = Len(a) + Len(t)
      /\ \A i \in 1 .. Len(a) : (a \o t)[i] = a[i]
  BY ConcatProperties
<1>2. QED
  BY <1>1 DEF AuxFramesPayload

\* The invariant strengthened by the type invariant.
IInv == TypeOK /\ PayloadSharedWithAux

\* A payload handler: both contexts receive the same tokens.
LEMMA PayloadStep ==
  ASSUME IInv, TypeOK', NEW t \in Seq(Token),
         state \in PayloadStates, state' \in PayloadStates,
         auxHash' = auxHash \o t, payloadHash' = payloadHash \o t
  PROVE  PayloadSharedWithAux'
<1>1. state # "INIT" /\ state' # "INIT"
  BY DEF PayloadStates
<1>2. AuxFramesPayload(auxHash, payloadHash)
      /\ Len(auxHash) = Len(payloadHash) + 1
  BY <1>1 DEF IInv, PayloadSharedWithAux
<1>3. AuxFramesPayload(auxHash', payloadHash')
      /\ Len(auxHash') = Len(payloadHash') + 1
  BY <1>2, LockstepAppend DEF IInv, TypeOK
<1>4. QED
  BY <1>1, <1>3 DEF PayloadSharedWithAux

\* The signature and the scripts: only the aux-data context receives them.
LEMMA AuxStep ==
  ASSUME IInv, NEW t \in Seq(Token), state # "INIT",
         state' \in {"SIGNATURE", "AUXILIARY_SCRIPTS"},
         auxHash' = auxHash \o t, payloadHash' = payloadHash
  PROVE  PayloadSharedWithAux'
<1>1. AuxFramesPayload(auxHash, payloadHash)
  BY DEF IInv, PayloadSharedWithAux
<1>2. AuxFramesPayload(auxHash', payloadHash')
  BY <1>1, AuxOnlyAppend DEF IInv, TypeOK
<1>3. state' \notin PayloadStates
  BY DEF PayloadStates
<1>4. QED
  BY <1>2, <1>3 DEF PayloadSharedWithAux

\* The inductive invariant holds initially.
LEMMA IInvInit == Init => IInv
<1> USE ConstantsAssumption
<1> SUFFICES ASSUME Init PROVE IInv
  OBVIOUS
<1>1. TypeOK
  BY TypeInit
<1>2. QED
  BY <1>1 DEF Init, IInv, PayloadSharedWithAux

\* Every builder call, a failing ASSERT included, preserves the invariant.
LEMMA IInvStep == IInv /\ [Next]_vars => IInv'
<1> USE ConstantsAssumption
<1> SUFFICES ASSUME IInv, [Next]_vars PROVE IInv'
  OBVIOUS
<1>0. TypeOK'
  BY TypeStep DEF IInv
<1> SUFFICES PayloadSharedWithAux'
  BY <1>0 DEF IInv
<1> DEFINE Both(t) == auxHash' = auxHash \o t /\ payloadHash' = payloadHash \o t
           AuxOnly(t) == auxHash' = auxHash \o t /\ payloadHash' = payloadHash
<1> USE DEF PayloadStates, BuilderStates
<1>1. CASE auxDataHashBuilder_init
  BY <1>1 DEF auxDataHashBuilder_init, PayloadSharedWithAux
<1>2. ASSUME NEW f \in Formats, cVoteRegistration_enter(f)
      PROVE  PayloadSharedWithAux'
  <2>1. auxHash = <<Tok("ARRAY", 2)>> /\ payloadHash = <<>>
    BY <1>2 DEF cVoteRegistration_enter, IInv, PayloadSharedWithAux
  <2>2. /\ Len(auxHash') = 2
        /\ auxHash'[1] = Tok("ARRAY", 2) /\ auxHash'[2] = Tok("MAP", 2)
        /\ Len(payloadHash') = 1 /\ payloadHash'[1] = Tok("MAP", 1)
    <3>1. <<Tok("MAP", 2)>> \in Seq(Token) /\ <<Tok("MAP", 1)>> \in Seq(Token)
      BY TokenTypes DEF CborTypes
    <3>2. QED
      BY <1>2, <2>1, <3>1, OpenedAuxData, EmptySeq, ConcatProperties
         DEF cVoteRegistration_enter
  <2>3. QED
    BY <1>2, <2>2 DEF cVoteRegistration_enter, PayloadSharedWithAux,
       AuxFramesPayload
<1>3. CASE cVoteRegistration_enterPayload
  <2>1. Both(<<Tok("UNSIGNED", METADATA_KEY_CVOTE_REGISTRATION_PAYLOAD),
               Tok("MAP", PayloadMapSize)>>)
    BY <1>3 DEF cVoteRegistration_enterPayload, Emit, BOTH, HC_AUX_DATA,
       HC_CVOTE_REGISTRATION_PAYLOAD
  <2>2. PayloadMapSize \in Nat
    BY DEF PayloadMapSize
  <2>3. QED
    BY <1>3, <2>1, <2>2, <1>0, EmittedTokens, PayloadStep
       DEF cVoteRegistration_enterPayload
<1>4. ASSUME NEW k \in VoteKeys, cVoteRegistration_addVoteKey(k)
      PROVE  PayloadSharedWithAux'
  <2>1. Both(<<Tok("UNSIGNED", CVOTE_REGISTRATION_PAYLOAD_KEY_VOTE_KEY)>>
             \o ByteString(k, PUBLIC_KEY_SIZE))
    BY <1>4 DEF cVoteRegistration_addVoteKey, Emit, BOTH, HC_AUX_DATA,
       HC_CVOTE_REGISTRATION_PAYLOAD
  <2>2. QED
    BY <1>4, <2>1, <1>0, EmittedTokens, PayloadStep
       DEF cVoteRegistration_addVoteKey
<1>5. ASSUME NEW n \in 0 .. MaxDelegations,
             cVoteRegistration_enterDelegations(n)
      PROVE  PayloadSharedWithAux'
  <2>1. Both(<<Tok("UNSIGNED", CVOTE_REGISTRATION_PAYLOAD_KEY_VOTE_KEY),
               Tok("ARRAY", n)>>)
    BY <1>5 DEF cVoteRegistration_enterDelegations, Emit, BOTH, HC_AUX_DATA,
       HC_CVOTE_REGISTRATION_PAYLOAD
  <2>2. <<Tok("UNSIGNED", CVOTE_REGISTRATION_PAYLOAD_KEY_VOTE_KEY),
          Tok("ARRAY", n)>> \in Seq(Token)
    BY EmittedTokens
  <2>3. QED
    BY <1>5, <2>1, <2>2, <1>0, PayloadStep
       DEF cVoteRegistration_enterDelegations
<1>6. ASSUME NEW k \in VoteKeys, NEW w \in Weights,
             cVoteRegistration_addDelegation(k, w)
      PROVE  PayloadSharedWithAux'
  <2>1. Both(<<Tok("ARRAY", 2)>> \o ByteString(k, PUBLIC_KEY_SIZE)
             \o <<Tok("UNSIGNED", w)>>)
    BY <1>6 DEF cVoteRegistration_addDelegation, Emit, BOTH, HC_AUX_DATA,
       HC_CVOTE_REGISTRATION_PAYLOAD
  <2>2. QED
    BY <1>6, <2>1, <1>0, EmittedTokens, PayloadStep
       DEF cVoteRegistration_addDelegation
<1>7. ASSUME NEW k \in VoteKeys, cVoteRegistration_addStakingKey(k)
      PROVE  PayloadSharedWithAux'
  <2>1. Both(<<Tok("UNSIGNED", CVOTE_REGISTRATION_PAYLOAD_KEY_STAKING_KEY)>>
             \o ByteString(k, PUBLIC_KEY_SIZE))
    BY <1>7 DEF cVoteRegistration_addStakingKey, Emit, BOTH, HC_AUX_DATA,
       HC_CVOTE_REGISTRATION_PAYLOAD
  <2>2. QED
    BY <1>7, <2>1, <1>0, EmittedTokens, PayloadStep
       DEF cVoteRegistration_addStakingKey, StakingKeyAllowed
<1>8. ASSUME NEW a \in Addresses, NEW sz \in AddressSizes,
             cVoteRegistration_addPaymentAddress(a, sz)
      PROVE  PayloadSharedWithAux'
  <2>1. Both(<<Tok("UNSIGNED", CVOTE_REGISTRATION_PAYLOAD_PAYMENT_ADDRESS)>>
             \o ByteString(a, sz))
    BY <1>8 DEF cVoteRegistration_addPaymentAddress, Emit, BOTH, HC_AUX_DATA,
       HC_CVOTE_REGISTRATION_PAYLOAD
  <2>2. QED
    BY <1>8, <2>1, <1>0, EmittedTokens, PayloadStep
       DEF cVoteRegistration_addPaymentAddress
<1>9. ASSUME NEW n \in Nonces, cVoteRegistration_addNonce(n)
      PROVE  PayloadSharedWithAux'
  <2>1. Both(<<Tok("UNSIGNED", CVOTE_REGISTRATION_PAYLOAD_KEY_NONCE),
               Tok("UNSIGNED", n)>>)
    BY <1>9 DEF cVoteRegistration_addNonce, Emit, BOTH, HC_AUX_DATA,
       HC_CVOTE_REGISTRATION_PAYLOAD
  <2>2. QED
    BY <1>9, <2>1, <1>0, EmittedTokens, PayloadStep
       DEF cVoteRegistration_addNonce
<1>10. ASSUME NEW p \in VotingPurposes, cVoteRegistration_addVotingPurpose(p)
       PROVE  PayloadSharedWithAux'
  <2>1. Both(<<Tok("UNSIGNED", CVOTE_REGISTRATION_PAYLOAD_VOTING_PURPOSE),
               Tok("UNSIGNED", p)>>)
    BY <1>10 DEF cVoteRegistration_addVotingPurpose, Emit, BOTH, HC_AUX_DATA,
       HC_CVOTE_REGISTRATION_PAYLOAD
  <2>2. QED
    BY <1>10, <2>1, <1>0, EmittedTokens, PayloadStep
       DEF cVoteRegistration_addVotingPurpose
<1>11. CASE cVoteRegistration_finalizePayload
  BY <1>11 DEF cVoteRegistration_finalizePayload, IInv, PayloadSharedWithAux
<1>12. ASSUME NEW s \in Signatures, cVoteRegistration_addSignature(s)
       PROVE  PayloadSharedWithAux'
  <2>1. AuxOnly(<<Tok("UNSIGNED", METADATA_KEY_CVOTE_REGISTRATION_SIGNATURE),
                  Tok("MAP", 1),
                  Tok("UNSIGNED", CVOTE_REGISTRATION_SIGNATURE_KEY)>>
                \o ByteString(s, ED25519_SIGNATURE_LENGTH))
    BY <1>12 DEF cVoteRegistration_addSignature, Emit, HC_AUX_DATA,
       HC_CVOTE_REGISTRATION_PAYLOAD
  <2>2. QED
    BY <1>12, <2>1, EmittedTokens, AuxStep
       DEF cVoteRegistration_addSignature, PayloadEnded
<1>13. CASE cVoteRegistration_addAuxiliaryScripts
  <2>1. AuxOnly(<<Tok("ARRAY", 0)>>)
    BY <1>13 DEF cVoteRegistration_addAuxiliaryScripts, Emit, HC_AUX_DATA,
       HC_CVOTE_REGISTRATION_PAYLOAD
  <2>2. QED
    BY <1>13, <2>1, EmittedTokens, AuxStep
       DEF cVoteRegistration_addAuxiliaryScripts
<1>14. CASE auxDataHashBuilder_finalize
  BY <1>14 DEF auxDataHashBuilder_finalize, IInv, PayloadSharedWithAux
<1>15. CASE AssertFails
  BY <1>15 DEF AssertFails, IInv, PayloadSharedWithAux
<1>16. CASE UNCHANGED vars
  BY <1>16 DEF vars, IInv, PayloadSharedWithAux
<1>17. QED
  BY <1>1, <1>2, <1>3, <1>4, <1>5, <1>6, <1>7, <1>8, <1>9, <1>10, <1>11,
     <1>12, <1>13, <1>14, <1>15, <1>16 DEF Next

(* The lockstep of the two hash contexts (PayloadSharedWithAux) holds in   *)
(* every reachable state of the builder, under any sequence of calls: the *)
(* handlers enterPayload ... addVotingPurpose append every payload token   *)
(* to both contexts through the two-bit mask, and only the signature and  *)
(* the scripts, after the payload, go to the aux-data context alone.       *)
THEOREM PayloadShared == Spec => []PayloadSharedWithAux
<1>1. IInv => PayloadSharedWithAux
  BY DEF IInv
<1>2. QED
  BY IInvInit, IInvStep, <1>1, PTL DEF Spec
=============================================================================
