------------------ MODULE AuxDataHashBuilderRefinement_proofs ------------------
(***************************************************************************)
(* Proof that the builder implements its abstract contract AuxDataHash,    *)
(* for every value of the constants.                                       *)
(***************************************************************************)
EXTENDS AuxDataHashBuilderRefinement, AuxDataHashBuilder_proofs

(* What the digests are at each builder state: the aux-data digest is      *)
(* written only by finalize, and after the signature the aux-data context  *)
(* holds at least one token past the payload.                              *)
DigestInv ==
  /\ state # "FINISHED" => auxOut = NoDigest
  /\ state \in {"SIGNATURE", "AUXILIARY_SCRIPTS", "FINISHED"} =>
       Len(auxHash) >= Len(payloadHash) + 2

RInv == IInv /\ DigestInv

-----------------------------------------------------------------------------
\* ConcatProperties for sequences of tokens.
LEMMA ConcatTokenProperties ==
  ASSUME NEW s \in Seq(Token), NEW t \in Seq(Token)
  PROVE  /\ s \o t \in Seq(Token)
         /\ Len(s \o t) = Len(s) + Len(t)
         /\ \A i \in 1 .. Len(s) + Len(t) :
              (s \o t)[i] = IF i <= Len(s) THEN s[i] ELSE t[i - Len(s)]
  BY ConcatProperties

\* SeqEqual for sequences of tokens.
LEMMA TokenSeqEqual ==
  ASSUME NEW s \in Seq(Token), NEW t \in Seq(Token),
         Len(s) = Len(t), \A i \in 1 .. Len(s) : s[i] = t[i]
  PROVE  s = t
  BY SeqEqual

\* Tokens appended to both contexts extend the body.
LEMMA BodyGrows ==
  ASSUME NEW p \in Seq(Token), NEW t \in Seq(Token), Len(p) >= 1, Len(t) >= 1
  PROVE  Abs!Extends(Tail(p), Tail(p \o t))
<1>1. /\ Len(p \o t) = Len(p) + Len(t)
      /\ \A i \in 1 .. Len(p) : (p \o t)[i] = p[i]
  BY ConcatProperties
<1>2. QED
  BY <1>1 DEF Abs!Extends

\* While the aux-data context is one framing token longer than the payload
\* context, the tail is empty.
LEMMA TailEmpty ==
  ASSUME NEW a \in Seq(Token), NEW p \in Seq(Token), Len(a) = Len(p) + 1
  PROVE  SubSeq(a, Len(p) + 2, Len(a)) = <<>>
  BY SubSeqEmpty

\* Tokens appended to the aux-data context alone extend the tail.
LEMMA TailGrows ==
  ASSUME NEW a \in Seq(Token), NEW p \in Seq(Token), NEW t \in Seq(Token),
         Len(a) >= Len(p) + 1, Len(t) >= 1
  PROVE  Abs!Extends(SubSeq(a, Len(p) + 2, Len(a)),
                     SubSeq(a \o t, Len(p) + 2, Len(a \o t)))
<1>1. /\ Len(a \o t) = Len(a) + Len(t)
      /\ \A i \in 1 .. Len(a) : (a \o t)[i] = a[i]
  BY ConcatProperties
<1>2. QED
  BY <1>1 DEF Abs!Extends

\* The payload context is its map(1) header followed by the body.
LEMMA PayloadIsFramedBody ==
  ASSUME NEW p \in Seq(Token), Len(p) >= 1, p[1] = Tok("MAP", 1)
  PROVE  p = <<Tok("MAP", 1)>> \o Tail(p)
  OBVIOUS

\* A sequence that agrees with f, b and t laid end to end is f \o b \o t.
LEMMA ThreeParts ==
  ASSUME NEW f \in Seq(Token), NEW b \in Seq(Token), NEW t \in Seq(Token),
         NEW a \in Seq(Token),
         Len(a) = Len(f) + Len(b) + Len(t),
         \A i \in 1 .. Len(f) : a[i] = f[i],
         \A i \in 1 .. Len(b) : a[Len(f) + i] = b[i],
         \A i \in 1 .. Len(t) : a[Len(f) + Len(b) + i] = t[i]
  PROVE  a = f \o b \o t
<1>1. /\ f \o b \in Seq(Token) /\ Len(f \o b) = Len(f) + Len(b)
      /\ \A i \in 1 .. Len(f) + Len(b) :
           (f \o b)[i] = IF i <= Len(f) THEN f[i] ELSE b[i - Len(f)]
  BY ConcatTokenProperties
<1>2. /\ (f \o b) \o t \in Seq(Token)
      /\ Len((f \o b) \o t) = Len(f \o b) + Len(t)
      /\ \A i \in 1 .. Len(f \o b) + Len(t) :
           ((f \o b) \o t)[i] = IF i <= Len(f \o b) THEN (f \o b)[i]
                                ELSE t[i - Len(f \o b)]
  BY <1>1, ConcatTokenProperties
<1>3. ASSUME NEW i \in 1 .. Len(a) PROVE ((f \o b) \o t)[i] = a[i]
  <2>1. CASE i <= Len(f)
    BY <2>1, <1>1, <1>2
  <2>2. CASE Len(f) < i /\ i <= Len(f) + Len(b)
    <3>1. i - Len(f) \in 1 .. Len(b)
      BY <2>2
    <3>2. a[Len(f) + (i - Len(f))] = b[i - Len(f)]
      BY <3>1
    <3>3. QED
      BY <2>2, <3>2, <1>1, <1>2
  <2>3. CASE Len(f) + Len(b) < i
    <3>1. i - Len(f) - Len(b) \in 1 .. Len(t)
      BY <2>3
    <3>2. a[Len(f) + Len(b) + (i - Len(f) - Len(b))] = t[i - Len(f) - Len(b)]
      BY <3>1
    <3>3. QED
      BY <2>3, <3>2, <1>1, <1>2
  <2>4. QED
    BY <2>1, <2>2, <2>3
<1>4. QED
  BY <1>1, <1>2, <1>3, TokenSeqEqual

\* A sequence framed as AuxFramesPayload says is its framing, the payload
\* past its header, and the rest r.
LEMMA FramedParts ==
  ASSUME NEW a \in Seq(Token), NEW p \in Seq(Token), NEW r \in Seq(Token),
         AuxFramesPayload(a, p),
         Len(r) = Len(a) - Len(p) - 1,
         \A j \in 1 .. Len(r) : r[j] = a[j + Len(p) + 1]
  PROVE  a = <<Tok("ARRAY", 2), Tok("MAP", 2)>> \o Tail(p) \o r
<1>1. /\ Len(p) >= 1 /\ Len(a) >= Len(p) + 1
      /\ \A i \in 2 .. Len(p) : a[i + 1] = p[i]
      /\ a[1] = Tok("ARRAY", 2) /\ a[2] = Tok("MAP", 2)
  BY DEF AuxFramesPayload
<1>2. /\ <<Tok("ARRAY", 2), Tok("MAP", 2)>> \in Seq(Token)
      /\ Len(<<Tok("ARRAY", 2), Tok("MAP", 2)>>) = 2
  BY TokenTypes DEF CborTypes
<1>3. /\ Tail(p) \in Seq(Token) /\ Len(Tail(p)) = Len(p) - 1
      /\ \A j \in 1 .. Len(p) - 1 : Tail(p)[j] = p[j + 1]
  BY <1>1, HeadTailProperties
<1>4. Len(a) = 2 + Len(Tail(p)) + Len(r)
  BY <1>1, <1>3
<1>5. \A i \in 1 .. Len(Tail(p)) : a[2 + i] = Tail(p)[i]
  <2> SUFFICES ASSUME NEW i \in 1 .. Len(p) - 1 PROVE a[2 + i] = Tail(p)[i]
    BY <1>3
  <2>1. i + 1 \in 2 .. Len(p)
    BY <1>1
  <2>2. QED
    BY <2>1, <1>1, <1>3
<1>6. \A i \in 1 .. Len(r) : a[2 + Len(Tail(p)) + i] = r[i]
  BY <1>1, <1>3
<1>7. QED
  BY <1>1, <1>2, <1>3, <1>4, <1>5, <1>6, ThreeParts

\* The aux-data context is its framing, the body and the tail.
LEMMA AuxIsFramedBodyAndTail ==
  ASSUME NEW a \in Seq(Token), NEW p \in Seq(Token), AuxFramesPayload(a, p)
  PROVE  a = <<Tok("ARRAY", 2), Tok("MAP", 2)>> \o Tail(p)
               \o SubSeq(a, Len(p) + 2, Len(a))
<1>1. Len(a) >= Len(p) + 1
  BY DEF AuxFramesPayload
<1>2. /\ SubSeq(a, Len(p) + 2, Len(a)) \in Seq(Token)
      /\ Len(SubSeq(a, Len(p) + 2, Len(a))) = Len(a) - Len(p) - 1
      /\ \A j \in 1 .. Len(a) - Len(p) - 1 :
           SubSeq(a, Len(p) + 2, Len(a))[j] = a[j + Len(p) + 1]
  BY <1>1, SubSeqProperties, ElementOfSeq
<1>3. QED
  BY <1>2, FramedParts

\* A token sequence that starts with a token is not empty.
LEMMA NonEmptyConcat ==
  ASSUME NEW s \in Seq(Token), NEW t \in Seq(Token), Len(s) >= 1
  PROVE  s \o t \in Seq(Token) /\ Len(s \o t) >= 1
  BY ConcatTokenProperties

\* The header and the data of a byte string are tokens.
LEMMA ByteStringTokens ==
  ASSUME NEW buffer \in Data, NEW n \in Nat
  PROVE  ByteString(buffer, n) \in Seq(Token) /\ Len(ByteString(buffer, n)) = 2
  BY TokenTypes DEF ByteString, CborTypes

\* The token sequences the handlers append are not empty.
LEMMA EmittedNonEmpty ==
  /\ \A k \in VoteKeys :
       Len(<<Tok("UNSIGNED", CVOTE_REGISTRATION_PAYLOAD_KEY_VOTE_KEY)>>
           \o ByteString(k, PUBLIC_KEY_SIZE)) >= 1
  /\ \A k \in VoteKeys, w \in Weights :
       Len(<<Tok("ARRAY", 2)>> \o ByteString(k, PUBLIC_KEY_SIZE)
           \o <<Tok("UNSIGNED", w)>>) >= 1
  /\ \A k \in VoteKeys :
       Len(<<Tok("UNSIGNED", CVOTE_REGISTRATION_PAYLOAD_KEY_STAKING_KEY)>>
           \o ByteString(k, PUBLIC_KEY_SIZE)) >= 1
  /\ \A a \in Addresses, sz \in AddressSizes :
       Len(<<Tok("UNSIGNED", CVOTE_REGISTRATION_PAYLOAD_PAYMENT_ADDRESS)>>
           \o ByteString(a, sz)) >= 1
  /\ \A s \in Signatures :
       Len(<<Tok("UNSIGNED", METADATA_KEY_CVOTE_REGISTRATION_SIGNATURE),
             Tok("MAP", 1), Tok("UNSIGNED", CVOTE_REGISTRATION_SIGNATURE_KEY)>>
           \o ByteString(s, ED25519_SIGNATURE_LENGTH)) >= 1
<1> USE ConstantsAssumption
<1>1. \A n \in Nat : <<Tok("UNSIGNED", n)>> \in Seq(Token)
                      /\ Len(<<Tok("UNSIGNED", n)>>) = 1
  BY TokenTypes DEF CborTypes
<1>2. /\ \A k \in VoteKeys : ByteString(k, PUBLIC_KEY_SIZE) \in Seq(Token)
      /\ \A a \in Addresses, sz \in AddressSizes : ByteString(a, sz) \in Seq(Token)
      /\ \A s \in Signatures :
           ByteString(s, ED25519_SIGNATURE_LENGTH) \in Seq(Token)
  <2>1. ASSUME NEW k \in VoteKeys PROVE ByteString(k, PUBLIC_KEY_SIZE) \in Seq(Token)
    <3>1. k \in Data /\ PUBLIC_KEY_SIZE \in Nat
      BY DEF Data, PUBLIC_KEY_SIZE
    <3>2. QED
      BY <3>1, ByteStringTokens
  <2>2. ASSUME NEW a \in Addresses, NEW sz \in AddressSizes
        PROVE  ByteString(a, sz) \in Seq(Token)
    <3>1. a \in Data /\ sz \in Nat
      BY DEF Data, BUFFER_SIZE_PARANOIA
    <3>2. QED
      BY <3>1, ByteStringTokens
  <2>3. ASSUME NEW s \in Signatures
        PROVE  ByteString(s, ED25519_SIGNATURE_LENGTH) \in Seq(Token)
    <3>1. s \in Data /\ ED25519_SIGNATURE_LENGTH \in Nat
      BY DEF Data, ED25519_SIGNATURE_LENGTH
    <3>2. QED
      BY <3>1, ByteStringTokens
  <2>4. QED
    BY <2>1, <2>2, <2>3
<1>3. /\ <<Tok("ARRAY", 2)>> \in Seq(Token) /\ Len(<<Tok("ARRAY", 2)>>) = 1
  BY OpenedAuxData
<1>4. /\ <<Tok("UNSIGNED", METADATA_KEY_CVOTE_REGISTRATION_SIGNATURE),
          Tok("MAP", 1), Tok("UNSIGNED", CVOTE_REGISTRATION_SIGNATURE_KEY)>>
         \in Seq(Token)
      /\ Len(<<Tok("UNSIGNED", METADATA_KEY_CVOTE_REGISTRATION_SIGNATURE),
              Tok("MAP", 1), Tok("UNSIGNED", CVOTE_REGISTRATION_SIGNATURE_KEY)>>) = 3
  <2>1. /\ Tok("UNSIGNED", METADATA_KEY_CVOTE_REGISTRATION_SIGNATURE) \in Token
        /\ Tok("MAP", 1) \in Token
        /\ Tok("UNSIGNED", CVOTE_REGISTRATION_SIGNATURE_KEY) \in Token
    BY TokenTypes DEF CborTypes, METADATA_KEY_CVOTE_REGISTRATION_SIGNATURE,
                      CVOTE_REGISTRATION_SIGNATURE_KEY
  <2>2. QED
    BY <2>1
<1>5. ASSUME NEW k \in VoteKeys
      PROVE  /\ <<Tok("ARRAY", 2)>> \o ByteString(k, PUBLIC_KEY_SIZE) \in Seq(Token)
             /\ Len(<<Tok("ARRAY", 2)>> \o ByteString(k, PUBLIC_KEY_SIZE)) >= 1
  <2>1. ByteString(k, PUBLIC_KEY_SIZE) \in Seq(Token)
    BY <1>2
  <2>2. QED
    BY <2>1, <1>3, NonEmptyConcat
<1>6. ASSUME NEW k \in VoteKeys, NEW w \in Weights
      PROVE  Len(<<Tok("ARRAY", 2)>> \o ByteString(k, PUBLIC_KEY_SIZE)
                 \o <<Tok("UNSIGNED", w)>>) >= 1
  BY <1>1, <1>5, NonEmptyConcat
<1>7. ASSUME NEW n \in Nat, NEW q \in Seq(Token)
      PROVE  Len(<<Tok("UNSIGNED", n)>> \o q) >= 1
  BY <1>1, NonEmptyConcat
<1>8. QED
  BY <1>2, <1>4, <1>6, <1>7, NonEmptyConcat

-----------------------------------------------------------------------------
(* The builder calls, grouped by what they do to the two contexts.  A      *)
(* payload handler appends the same tokens to both; the signature and the *)
(* scripts append to the aux-data context alone.                            *)
BodyAppendOf(t) ==
  /\ Len(t) >= 1
  /\ auxHash' = auxHash \o t /\ payloadHash' = payloadHash \o t
  /\ state \in PayloadStates /\ state' \in PayloadStates
  /\ ~aborted
  /\ UNCHANGED <<auxOut, payloadOut, aborted, payloadFinalized>>

BodyAppend == \E t \in Seq(Token) : BodyAppendOf(t)

TailAppendOf(t) ==
  /\ Len(t) >= 1
  /\ auxHash' = auxHash \o t
  /\ state \in PayloadStates \cup {"SIGNATURE"}
  /\ state' \in {"SIGNATURE", "AUXILIARY_SCRIPTS"}
  /\ ~aborted
  /\ UNCHANGED <<payloadHash, auxOut, payloadOut, aborted, payloadFinalized>>

TailAppend == \E t \in Seq(Token) : TailAppendOf(t)

\* Each payload handler, enterPayload ... addVotingPurpose, is a BodyAppend.
LEMMA PayloadHandlers ==
  /\ cVoteRegistration_enterPayload => BodyAppend
  /\ \A k \in VoteKeys : cVoteRegistration_addVoteKey(k) => BodyAppend
  /\ \A n \in 0 .. MaxDelegations :
       cVoteRegistration_enterDelegations(n) => BodyAppend
  /\ \A k \in VoteKeys, w \in Weights :
       cVoteRegistration_addDelegation(k, w) => BodyAppend
  /\ \A k \in VoteKeys : cVoteRegistration_addStakingKey(k) => BodyAppend
  /\ \A a \in Addresses, sz \in AddressSizes :
       cVoteRegistration_addPaymentAddress(a, sz) => BodyAppend
  /\ \A n \in Nonces : cVoteRegistration_addNonce(n) => BodyAppend
  /\ \A p \in VotingPurposes :
       cVoteRegistration_addVotingPurpose(p) => BodyAppend
<1> USE ConstantsAssumption
<1> USE DEF PayloadStates, BuilderStates, Emit, BOTH, HC_AUX_DATA,
            HC_CVOTE_REGISTRATION_PAYLOAD, Live
<1>1. ASSUME cVoteRegistration_enterPayload PROVE BodyAppend
  <2>1. PayloadMapSize \in Nat
    BY DEF PayloadMapSize
  <2>2. BodyAppendOf(<<Tok("UNSIGNED", METADATA_KEY_CVOTE_REGISTRATION_PAYLOAD),
                       Tok("MAP", PayloadMapSize)>>)
    BY <1>1 DEF cVoteRegistration_enterPayload, BodyAppendOf
  <2>3. QED
    BY <2>1, <2>2, EmittedTokens DEF BodyAppend
<1>2. ASSUME NEW k \in VoteKeys, cVoteRegistration_addVoteKey(k)
      PROVE  BodyAppend
  <2>1. BodyAppendOf(<<Tok("UNSIGNED", CVOTE_REGISTRATION_PAYLOAD_KEY_VOTE_KEY)>>
                     \o ByteString(k, PUBLIC_KEY_SIZE))
    BY <1>2, EmittedNonEmpty DEF cVoteRegistration_addVoteKey, BodyAppendOf
  <2>2. QED
    BY <2>1, EmittedTokens DEF BodyAppend
<1>3. ASSUME NEW n \in 0 .. MaxDelegations, cVoteRegistration_enterDelegations(n)
      PROVE  BodyAppend
  <2>1. BodyAppendOf(<<Tok("UNSIGNED", CVOTE_REGISTRATION_PAYLOAD_KEY_VOTE_KEY),
                       Tok("ARRAY", n)>>)
    BY <1>3 DEF cVoteRegistration_enterDelegations, BodyAppendOf
  <2>2. <<Tok("UNSIGNED", CVOTE_REGISTRATION_PAYLOAD_KEY_VOTE_KEY),
          Tok("ARRAY", n)>> \in Seq(Token)
    <3>1. n \in Nat
      OBVIOUS
    <3>2. QED
      BY <3>1, EmittedTokens
  <2>3. QED
    BY <2>1, <2>2 DEF BodyAppend
<1>4. ASSUME NEW k \in VoteKeys, NEW w \in Weights,
             cVoteRegistration_addDelegation(k, w)
      PROVE  BodyAppend
  <2>1. BodyAppendOf(<<Tok("ARRAY", 2)>> \o ByteString(k, PUBLIC_KEY_SIZE)
                     \o <<Tok("UNSIGNED", w)>>)
    BY <1>4, EmittedNonEmpty DEF cVoteRegistration_addDelegation, BodyAppendOf
  <2>2. QED
    BY <2>1, EmittedTokens DEF BodyAppend
<1>5. ASSUME NEW k \in VoteKeys, cVoteRegistration_addStakingKey(k)
      PROVE  BodyAppend
  <2>1. BodyAppendOf(<<Tok("UNSIGNED", CVOTE_REGISTRATION_PAYLOAD_KEY_STAKING_KEY)>>
                     \o ByteString(k, PUBLIC_KEY_SIZE))
    BY <1>5, EmittedNonEmpty DEF cVoteRegistration_addStakingKey, BodyAppendOf,
                                 StakingKeyAllowed
  <2>2. QED
    BY <2>1, EmittedTokens DEF BodyAppend
<1>6. ASSUME NEW a \in Addresses, NEW sz \in AddressSizes,
             cVoteRegistration_addPaymentAddress(a, sz)
      PROVE  BodyAppend
  <2>1. BodyAppendOf(<<Tok("UNSIGNED", CVOTE_REGISTRATION_PAYLOAD_PAYMENT_ADDRESS)>>
                     \o ByteString(a, sz))
    BY <1>6, EmittedNonEmpty DEF cVoteRegistration_addPaymentAddress, BodyAppendOf
  <2>2. QED
    BY <2>1, EmittedTokens DEF BodyAppend
<1>7. ASSUME NEW n \in Nonces, cVoteRegistration_addNonce(n) PROVE BodyAppend
  <2>1. BodyAppendOf(<<Tok("UNSIGNED", CVOTE_REGISTRATION_PAYLOAD_KEY_NONCE),
                       Tok("UNSIGNED", n)>>)
    BY <1>7 DEF cVoteRegistration_addNonce, BodyAppendOf
  <2>2. QED
    BY <2>1, EmittedTokens DEF BodyAppend
<1>8. ASSUME NEW p \in VotingPurposes, cVoteRegistration_addVotingPurpose(p)
      PROVE  BodyAppend
  <2>1. BodyAppendOf(<<Tok("UNSIGNED", CVOTE_REGISTRATION_PAYLOAD_VOTING_PURPOSE),
                       Tok("UNSIGNED", p)>>)
    BY <1>8 DEF cVoteRegistration_addVotingPurpose, BodyAppendOf
  <2>2. QED
    BY <2>1, EmittedTokens DEF BodyAppend
<1>9. QED
  BY <1>1, <1>2, <1>3, <1>4, <1>5, <1>6, <1>7, <1>8

\* addSignature and addAuxiliaryScripts are TailAppends.
LEMMA TailHandlers ==
  /\ \A s \in Signatures : cVoteRegistration_addSignature(s) => TailAppend
  /\ cVoteRegistration_addAuxiliaryScripts => TailAppend
<1> USE DEF PayloadStates, BuilderStates, Emit, HC_AUX_DATA,
            HC_CVOTE_REGISTRATION_PAYLOAD, Live, PayloadEnded
<1>1. ASSUME NEW s \in Signatures, cVoteRegistration_addSignature(s)
      PROVE  TailAppend
  <2>1. TailAppendOf(<<Tok("UNSIGNED", METADATA_KEY_CVOTE_REGISTRATION_SIGNATURE),
                       Tok("MAP", 1), Tok("UNSIGNED", CVOTE_REGISTRATION_SIGNATURE_KEY)>>
                     \o ByteString(s, ED25519_SIGNATURE_LENGTH))
    BY <1>1, EmittedNonEmpty DEF cVoteRegistration_addSignature, TailAppendOf
  <2>2. QED
    BY <2>1, EmittedTokens DEF TailAppend
<1>2. ASSUME cVoteRegistration_addAuxiliaryScripts PROVE TailAppend
  <2>1. TailAppendOf(<<Tok("ARRAY", 0)>>)
    BY <1>2 DEF cVoteRegistration_addAuxiliaryScripts, TailAppendOf
  <2>2. QED
    BY <2>1, EmittedTokens DEF TailAppend
<1>3. QED
  BY <1>1, <1>2

-----------------------------------------------------------------------------
\* The invariant holds initially.
LEMMA RInvInit == Init => RInv
<1> SUFFICES ASSUME Init PROVE RInv
  OBVIOUS
<1>1. IInv
  BY IInvInit
<1>2. DigestInv
  BY DEF Init, DigestInv
<1>3. QED
  BY <1>1, <1>2 DEF RInv

\* What RInv says of a state in which the payload is being written.
LEMMA PayloadStateFacts ==
  ASSUME RInv, state \in PayloadStates
  PROVE  /\ TypeOK /\ state # "INIT" /\ auxOut = NoDigest
         /\ AuxFramesPayload(auxHash, payloadHash)
         /\ Len(auxHash) = Len(payloadHash) + 1
BY DEF RInv, IInv, DigestInv, PayloadSharedWithAux, PayloadStates

\* Every builder call preserves DigestInv.
LEMMA DigestStep == RInv /\ [Next]_vars => DigestInv'
<1> SUFFICES ASSUME RInv, [Next]_vars PROVE DigestInv'
  OBVIOUS
<1> USE DEF PayloadStates, BuilderStates
<1>1. CASE auxDataHashBuilder_init
  BY <1>1 DEF auxDataHashBuilder_init, DigestInv
<1>2. ASSUME NEW f \in Formats, cVoteRegistration_enter(f) PROVE DigestInv'
  BY <1>2 DEF cVoteRegistration_enter, DigestInv, RInv
<1>3. CASE BodyAppend
  <2>1. PICK t \in Seq(Token) : BodyAppendOf(t)
    BY <1>3 DEF BodyAppend
  <2>2. auxOut = NoDigest
    BY <2>1, PayloadStateFacts DEF BodyAppendOf
  <2>3. QED
    BY <2>1, <2>2 DEF BodyAppendOf, DigestInv
<1>4. CASE TailAppend
  <2>1. PICK t \in Seq(Token) : TailAppendOf(t)
    BY <1>4 DEF TailAppend
  <2>2. /\ TypeOK /\ auxOut = NoDigest
        /\ Len(auxHash) >= Len(payloadHash) + 1
    <3>1. CASE state \in PayloadStates
      BY <3>1, PayloadStateFacts
    <3>2. CASE state = "SIGNATURE"
      BY <3>2 DEF RInv, IInv, DigestInv
    <3>3. QED
      BY <2>1, <3>1, <3>2 DEF TailAppendOf
  <2>3. Len(auxHash') = Len(auxHash) + Len(t)
    BY <2>1, <2>2, ConcatTokenProperties DEF TailAppendOf, TypeOK
  <2>4. Len(auxHash') >= Len(payloadHash') + 2
    BY <2>1, <2>2, <2>3 DEF TailAppendOf, TypeOK
  <2>5. QED
    BY <2>1, <2>2, <2>4 DEF TailAppendOf, DigestInv
<1>5. CASE cVoteRegistration_finalizePayload
  BY <1>5 DEF cVoteRegistration_finalizePayload, DigestInv, RInv
<1>6. CASE auxDataHashBuilder_finalize
  BY <1>6 DEF auxDataHashBuilder_finalize, DigestInv, RInv
<1>7. CASE AssertFails
  BY <1>7 DEF AssertFails, DigestInv, RInv
<1>8. CASE UNCHANGED vars
  BY <1>8 DEF vars, DigestInv, RInv
<1>9. QED
  BY <1>1, <1>2, <1>3, <1>4, <1>5, <1>6, <1>7, <1>8, PayloadHandlers,
     TailHandlers DEF Next

\* Every builder call preserves the invariant.
LEMMA RInvStep == RInv /\ [Next]_vars => RInv'
BY IInvStep, DigestStep DEF RInv

-----------------------------------------------------------------------------
\* A payload handler extends the abstract body.
LEMMA BodyRefines ==
  ASSUME RInv, NEW t \in Seq(Token), BodyAppendOf(t)
  PROVE  Abs!ExtendBody
<1>1. /\ TypeOK /\ state # "INIT" /\ auxOut = NoDigest
      /\ AuxFramesPayload(auxHash, payloadHash)
      /\ Len(auxHash) = Len(payloadHash) + 1
  BY PayloadStateFacts DEF BodyAppendOf
<1>2. state' # "INIT"
  BY DEF BodyAppendOf, PayloadStates
<1>3. auxHash \in Seq(Token) /\ payloadHash \in Seq(Token) /\ Len(payloadHash) >= 1
  BY <1>1 DEF TypeOK, AuxFramesPayload
<1>4. Abs!Extends(bodyBar, bodyBar')
  <2>1. bodyBar = Tail(payloadHash) /\ bodyBar' = Tail(payloadHash \o t)
    BY <1>1, <1>2 DEF bodyBar, BodyAppendOf
  <2>2. QED
    BY <2>1, <1>3, BodyGrows DEF BodyAppendOf
<1>5. tailBar = <<>>
  BY <1>1, <1>3, TailEmpty DEF tailBar
<1>6. tailBar' = <<>>
  <2>1. /\ auxHash \o t \in Seq(Token) /\ payloadHash \o t \in Seq(Token)
        /\ Len(auxHash \o t) = Len(auxHash) + Len(t)
        /\ Len(payloadHash \o t) = Len(payloadHash) + Len(t)
    BY <1>3, ConcatTokenProperties
  <2>2. Len(auxHash \o t) = Len(payloadHash \o t) + 1
    BY <2>1, <1>1
  <2>3. SubSeq(auxHash \o t, Len(payloadHash \o t) + 2, Len(auxHash \o t)) = <<>>
    BY <2>1, <2>2, TailEmpty
  <2>4. QED
    BY <2>3, <1>2 DEF tailBar, BodyAppendOf
<1>7. QED
  BY <1>1, <1>2, <1>4, <1>5, <1>6 DEF Abs!ExtendBody, Abs!Appending, BodyAppendOf

\* The signature and the scripts extend the abstract tail.
LEMMA TailRefines ==
  ASSUME RInv, NEW t \in Seq(Token), TailAppendOf(t)
  PROVE  Abs!ExtendTail
<1>1. /\ TypeOK /\ state # "INIT" /\ auxOut = NoDigest
      /\ Len(auxHash) >= Len(payloadHash) + 1
  <2>1. CASE state \in PayloadStates
    BY <2>1, PayloadStateFacts
  <2>2. CASE state = "SIGNATURE"
    BY <2>2 DEF RInv, IInv, DigestInv
  <2>3. QED
    BY <2>1, <2>2 DEF TailAppendOf
<1>2. state' # "INIT"
  BY DEF TailAppendOf
<1>3. auxHash \in Seq(Token) /\ payloadHash \in Seq(Token)
  BY <1>1 DEF TypeOK
<1>4. Abs!Extends(tailBar, tailBar')
  <2>1. /\ tailBar = SubSeq(auxHash, Len(payloadHash) + 2, Len(auxHash))
        /\ tailBar' = SubSeq(auxHash \o t, Len(payloadHash) + 2, Len(auxHash \o t))
    BY <1>1, <1>2 DEF tailBar, TailAppendOf
  <2>2. QED
    BY <2>1, <1>1, <1>3, TailGrows DEF TailAppendOf
<1>5. bodyBar' = bodyBar
  BY <1>1, <1>2 DEF bodyBar, TailAppendOf
<1>6. QED
  BY <1>1, <1>2, <1>4, <1>5 DEF Abs!ExtendTail, Abs!Appending, TailAppendOf

\* Every builder call is an abstract step or leaves the abstract state alone.
LEMMA MapStep == RInv /\ [Next]_vars => [Abs!AbsNext]_Abs!absVars
<1> SUFFICES ASSUME RInv, [Next]_vars PROVE [Abs!AbsNext]_Abs!absVars
  OBVIOUS
<1> USE DEF PayloadStates, BuilderStates
<1>1. CASE auxDataHashBuilder_init
  <2>1. Abs!Restart
    BY <1>1 DEF auxDataHashBuilder_init, Abs!Restart, bodyBar, tailBar
  <2>2. QED
    BY <2>1 DEF Abs!AbsNext
<1>2. ASSUME NEW f \in Formats, cVoteRegistration_enter(f)
      PROVE  [Abs!AbsNext]_Abs!absVars
  <2>1. /\ state = "INIT" /\ ~aborted /\ auxOut = NoDigest
        /\ auxHash = <<Tok("ARRAY", 2)>> /\ payloadHash = <<>>
    BY <1>2 DEF cVoteRegistration_enter, Live, RInv, IInv, DigestInv,
                PayloadSharedWithAux
  <2>2. /\ auxHash' = <<Tok("ARRAY", 2), Tok("MAP", 2)>>
        /\ payloadHash' = <<Tok("MAP", 1)>>
        /\ state' = "REGISTRATION_INIT"
    <3>1. /\ <<Tok("ARRAY", 2)>> \o <<Tok("MAP", 2)>>
               = <<Tok("ARRAY", 2), Tok("MAP", 2)>>
          /\ <<>> \o <<Tok("MAP", 1)>> = <<Tok("MAP", 1)>>
      <4>1. Tok("ARRAY", 2) \in Token /\ Tok("MAP", 2) \in Token
            /\ Tok("MAP", 1) \in Token
        BY TokenTypes DEF CborTypes
      <4>2. /\ <<Tok("ARRAY", 2)>> \in Seq(Token) /\ <<Tok("MAP", 2)>> \in Seq(Token)
            /\ <<Tok("MAP", 1)>> \in Seq(Token) /\ <<>> \in Seq(Token)
            /\ <<Tok("ARRAY", 2), Tok("MAP", 2)>> \in Seq(Token)
        BY <4>1
      <4>3. /\ <<Tok("ARRAY", 2)>> \o <<Tok("MAP", 2)>> \in Seq(Token)
            /\ Len(<<Tok("ARRAY", 2)>> \o <<Tok("MAP", 2)>>) = 2
            /\ \A i \in 1 .. 2 : (<<Tok("ARRAY", 2)>> \o <<Tok("MAP", 2)>>)[i]
                                 = IF i <= 1 THEN Tok("ARRAY", 2) ELSE Tok("MAP", 2)
        BY <4>2, ConcatTokenProperties
      <4>4. <<Tok("ARRAY", 2)>> \o <<Tok("MAP", 2)>> = <<Tok("ARRAY", 2), Tok("MAP", 2)>>
        <5>1. Len(<<Tok("ARRAY", 2), Tok("MAP", 2)>>) = 2
          OBVIOUS
        <5>2. ASSUME NEW i \in 1 .. 2
              PROVE  (<<Tok("ARRAY", 2)>> \o <<Tok("MAP", 2)>>)[i]
                       = <<Tok("ARRAY", 2), Tok("MAP", 2)>>[i]
          <6>1. CASE i = 1
            BY <6>1, <4>3
          <6>2. CASE i = 2
            BY <6>2, <4>3
          <6>3. QED
            BY <6>1, <6>2
        <5>3. QED
          BY <4>2, <4>3, <5>1, <5>2, TokenSeqEqual
      <4>5. /\ <<>> \o <<Tok("MAP", 1)>> \in Seq(Token)
            /\ Len(<<>> \o <<Tok("MAP", 1)>>) = 1
            /\ (<<>> \o <<Tok("MAP", 1)>>)[1] = Tok("MAP", 1)
        BY <4>2, ConcatTokenProperties
      <4>6. <<>> \o <<Tok("MAP", 1)>> = <<Tok("MAP", 1)>>
        BY <4>2, <4>5, TokenSeqEqual
      <4>7. QED
        BY <4>4, <4>6
    <3>2. QED
      BY <1>2, <2>1, <3>1 DEF cVoteRegistration_enter
  <2>3. bodyBar' = <<>> /\ tailBar' = <<>>
    BY <2>2 DEF bodyBar, tailBar
  <2>4. bodyBar = <<>> /\ tailBar = <<>>
    BY <2>1 DEF bodyBar, tailBar
  <2>5. Abs!Open
    BY <1>2, <2>1, <2>2, <2>3, <2>4
       DEF cVoteRegistration_enter, Abs!Open, Abs!Appending
  <2>6. QED
    BY <2>5 DEF Abs!AbsNext
<1>3. CASE BodyAppend
  <2>1. PICK t \in Seq(Token) : BodyAppendOf(t)
    BY <1>3 DEF BodyAppend
  <2>2. QED
    BY <2>1, BodyRefines DEF Abs!AbsNext
<1>4. CASE TailAppend
  <2>1. PICK t \in Seq(Token) : TailAppendOf(t)
    BY <1>4 DEF TailAppend
  <2>2. QED
    BY <2>1, TailRefines DEF Abs!AbsNext
<1>5. CASE cVoteRegistration_finalizePayload
  <2>1. /\ TypeOK /\ state # "INIT" /\ auxOut = NoDigest /\ ~aborted
        /\ AuxFramesPayload(auxHash, payloadHash)
        /\ Len(auxHash) = Len(payloadHash) + 1
    BY <1>5, PayloadStateFacts
       DEF cVoteRegistration_finalizePayload, PayloadEnded, Live
  <2>2. tailBar = <<>>
    BY <2>1, TailEmpty DEF tailBar, TypeOK
  <2>3. payloadHash = <<Tok("MAP", 1)>> \o bodyBar
    BY <2>1, PayloadIsFramedBody DEF bodyBar, TypeOK, AuxFramesPayload
  <2>4. UNCHANGED <<state, auxHash, payloadHash, auxOut>>
    BY <1>5 DEF cVoteRegistration_finalizePayload
  <2>5. UNCHANGED <<bodyBar, tailBar>>
    BY <2>4 DEF bodyBar, tailBar
  <2>6. CASE aborted' = aborted
    <3>1. payloadOut' \in {<<Tok("MAP", 1)>> \o bodyBar, BadDigest}
      BY <1>5, <2>1, <2>3, <2>6 DEF cVoteRegistration_finalizePayload
    <3>2. Abs!FinalizePayload
      BY <2>1, <2>2, <2>4, <2>5, <2>6, <3>1
         DEF Abs!FinalizePayload, Abs!Appending
    <3>3. QED
      BY <3>2 DEF Abs!AbsNext
  <2>7. CASE aborted' # aborted
    <3>1. aborted' = TRUE /\ payloadOut' = payloadOut
      BY <1>5, <2>7 DEF cVoteRegistration_finalizePayload
    <3>2. Abs!Abort
      BY <2>1, <2>4, <2>5, <3>1 DEF Abs!Abort
    <3>3. QED
      BY <3>2 DEF Abs!AbsNext
  <2>8. QED
    BY <2>6, <2>7
<1>6. CASE auxDataHashBuilder_finalize
  <2>1. /\ state = "AUXILIARY_SCRIPTS" /\ ~aborted /\ auxOut = NoDigest
        /\ TypeOK /\ AuxFramesPayload(auxHash, payloadHash)
        /\ Len(auxHash) >= Len(payloadHash) + 2
    BY <1>6 DEF auxDataHashBuilder_finalize, Live, RInv, IInv, DigestInv,
                PayloadSharedWithAux
  <2>2. auxHash \in Seq(Token) /\ payloadHash \in Seq(Token)
    BY <2>1 DEF TypeOK
  <2>3. auxHash = <<Tok("ARRAY", 2), Tok("MAP", 2)>> \o bodyBar \o tailBar
    BY <2>1, <2>2, AuxIsFramedBodyAndTail DEF bodyBar, tailBar
  <2>4. tailBar # <<>>
    <3>1. Len(SubSeq(auxHash, Len(payloadHash) + 2, Len(auxHash)))
            = Len(auxHash) - Len(payloadHash) - 1
      BY <2>1, <2>2, SubSeqProperties
    <3>2. Len(tailBar) >= 1
      BY <2>1, <3>1 DEF tailBar
    <3>3. QED
      BY <3>2
  <2>5. /\ auxOut' = auxHash /\ state' = "FINISHED"
        /\ UNCHANGED <<auxHash, payloadHash, payloadOut, aborted>>
    BY <1>6 DEF auxDataHashBuilder_finalize
  <2>6. UNCHANGED <<bodyBar, tailBar>>
    BY <2>1, <2>5 DEF bodyBar, tailBar
  <2>7. Abs!Finalize
    BY <2>1, <2>3, <2>4, <2>5, <2>6 DEF Abs!Finalize, Abs!Appending
  <2>8. QED
    BY <2>7 DEF Abs!AbsNext
<1>7. CASE AssertFails
  <2>1. UNCHANGED <<state, auxHash, payloadHash, auxOut, payloadOut>>
        /\ ~aborted /\ aborted' = TRUE
    BY <1>7 DEF AssertFails, Live
  <2>2. UNCHANGED <<bodyBar, tailBar>>
    BY <2>1 DEF bodyBar, tailBar
  <2>3. Abs!Abort
    BY <2>1, <2>2 DEF Abs!Abort
  <2>4. QED
    BY <2>3 DEF Abs!AbsNext
<1>8. CASE UNCHANGED vars
  BY <1>8 DEF vars, Abs!absVars, bodyBar, tailBar
<1>9. QED
  BY <1>1, <1>2, <1>3, <1>4, <1>5, <1>6, <1>7, <1>8, PayloadHandlers,
     TailHandlers DEF Next

(* The builder implements its abstract contract AuxDataHash for every set  *)
(* of keys, addresses, sizes and counts: the payload handlers of           *)
(* auxDataHashBuilder.c feed both contexts the same body, the signature    *)
(* and the scripts reach the aux data only after it, finalizePayload       *)
(* writes the digest of the framed body, finalize that of the framed body *)
(* and tail, and a failed ASSERT is an abort.                              *)
THEOREM Refines == Spec => BuilderImplementsAuxDataHash
<1>1. Init => Abs!AbsInit
  BY DEF Init, Abs!AbsInit, bodyBar, tailBar
<1>2. QED
  BY <1>1, RInvInit, RInvStep, MapStep, PTL
     DEF Spec, BuilderImplementsAuxDataHash, Abs!AbsSpec
=============================================================================
