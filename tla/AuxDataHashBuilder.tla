------------------------- MODULE AuxDataHashBuilder -------------------------
(***************************************************************************)
(* The streaming hash builder of src/src/auxDataHashBuilder/               *)
(* auxDataHashBuilder.c: the state machine that feeds the canonical CBOR   *)
(* encoding of a CIP-15/CIP-36 vote registration into two blake2b-256      *)
(* contexts, the auxiliary-data hash and the registration-payload hash.    *)
(*                                                                         *)
(* A hash context is modelled by the sequence of CBOR tokens appended to   *)
(* it: a digest is that sequence (the hash is taken to be injective).  A   *)
(* token is a record [t |-> CBOR type, v |-> value]; the raw bytes of a    *)
(* byte string are one "DATA" token whose value is the buffer, a model     *)
(* value.  Every call of the builder is one atomic step (the code is       *)
(* single-threaded).  A call whose ASSERT fails throws ERR_ASSERT, which   *)
(* ends the signing operation: the builder is then dead until the next     *)
(* auxDataHashBuilder_init.                                                *)
(***************************************************************************)
EXTENDS Naturals, Sequences

CONSTANTS
  VoteKeys,        \* public keys (vote keys, delegation keys, staking keys)
  Addresses,       \* payment address buffers
  AddressSizes,    \* lengths an address buffer may have
  Signatures,      \* registration signatures
  Nonces,          \* nonce values (uint64)
  Weights,         \* delegation weights (uint32)
  VotingPurposes,  \* voting purpose values (uint64)
  MaxDelegations,  \* largest numDelegations the caller passes
  NoDigest,        \* sentinel: no digest written to the output buffer
  BadDigest        \* bytes written by a finalize that are not a digest

\* Fixed sizes of cardano.h and the paranoia bound on buffer lengths.
PUBLIC_KEY_SIZE == 32
ED25519_SIGNATURE_LENGTH == 64
BUFFER_SIZE_PARANOIA == 1024

ASSUME ConstantsAssumption ==
  /\ Nonces \subseteq Nat
  /\ Weights \subseteq Nat
  /\ VotingPurposes \subseteq Nat
  /\ AddressSizes \subseteq 1 .. (BUFFER_SIZE_PARANOIA - 1)
  /\ MaxDelegations \in Nat

\* Metadata labels and map keys of the CIP-36 registration (cardano.h).
METADATA_KEY_CVOTE_REGISTRATION_PAYLOAD == 61284
METADATA_KEY_CVOTE_REGISTRATION_SIGNATURE == 61285
CVOTE_REGISTRATION_PAYLOAD_KEY_VOTE_KEY == 1
CVOTE_REGISTRATION_PAYLOAD_KEY_STAKING_KEY == 2
CVOTE_REGISTRATION_PAYLOAD_PAYMENT_ADDRESS == 3
CVOTE_REGISTRATION_PAYLOAD_KEY_NONCE == 4
CVOTE_REGISTRATION_PAYLOAD_VOTING_PURPOSE == 5
CVOTE_REGISTRATION_SIGNATURE_KEY == 1

\* cvote_registration_format_t
Formats == {"CIP15", "CIP36"}

\* The aux_data_hash_builder_state_t values the code uses.
BuilderStates ==
  {"INIT", "REGISTRATION_INIT", "PAYLOAD_INIT", "PAYLOAD_VOTE_KEY",
   "PAYLOAD_DELEGATIONS", "PAYLOAD_STAKING_KEY", "PAYLOAD_PAYMENT_ADDRESS",
   "PAYLOAD_NONCE", "PAYLOAD_VOTING_PURPOSE", "SIGNATURE",
   "AUXILIARY_SCRIPTS", "FINISHED"}

\* CBOR tokens: a typed header or the raw bytes of a byte string.
CborTypes == {"UNSIGNED", "BYTES", "ARRAY", "MAP"}
Data == VoteKeys \cup Addresses \cup Signatures
Token == [t : CborTypes, v : Nat] \cup [t : {"DATA"}, v : Data]
Tok(type, value) == [t |-> type, v |-> value]
Raw(buffer) == [t |-> "DATA", v |-> buffer]

\* The two hash contexts, the bits of the hashContexts mask.
HC_AUX_DATA == "HC_AUX_DATA"
HC_CVOTE_REGISTRATION_PAYLOAD == "HC_CVOTE_REGISTRATION_PAYLOAD"
BOTH == {HC_AUX_DATA, HC_CVOTE_REGISTRATION_PAYLOAD}

VARIABLES
  state,             \* builder->state
  format,            \* builder->cVoteRegistrationData.format
  remaining,         \* builder->cVoteRegistrationData.remainingDelegations
  auxHash,           \* tokens appended to builder->auxDataHash
  payloadHash,       \* tokens appended to ...cVoteRegistrationData.payloadHash
  payloadFinalized,  \* blake2b_256_finalize has been called on payloadHash
  auxOut,            \* digest written by auxDataHashBuilder_finalize
  payloadOut,        \* digest written by ..._cVoteRegistration_finalizePayload
  aborted            \* an ASSERT failed: the signing operation is over

vars == <<state, format, remaining, auxHash, payloadHash, payloadFinalized,
          auxOut, payloadOut, aborted>>
builderVars == <<state, format, remaining>>

Digest == Seq(Token) \cup {NoDigest, BadDigest}

\* The sentinels are not digests of a token stream.
ASSUME SentinelsAssumption ==
  NoDigest \notin Seq(Token) /\ BadDigest \notin Seq(Token)

TypeOK ==
  /\ state \in BuilderStates
  /\ format \in Formats
  /\ remaining \in 0 .. MaxDelegations
  /\ auxHash \in Seq(Token)
  /\ payloadHash \in Seq(Token)
  /\ payloadFinalized \in BOOLEAN
  /\ auxOut \in Digest
  /\ payloadOut \in Digest
  /\ aborted \in BOOLEAN

-----------------------------------------------------------------------------
(* APPEND_CBOR / APPEND_DATA: the tokens go to every context of the mask.  *)
Emit(hashContexts, tokens) ==
  /\ auxHash' = IF HC_AUX_DATA \in hashContexts
                  THEN auxHash \o tokens ELSE auxHash
  /\ payloadHash' = IF HC_CVOTE_REGISTRATION_PAYLOAD \in hashContexts
                      THEN payloadHash \o tokens ELSE payloadHash

\* A byte-string field: its CBOR BYTES header followed by the raw bytes.
ByteString(buffer, size) == <<Tok("BYTES", size), Raw(buffer)>>

\* The ordinary calls: the operation has not been aborted.
Live == ~aborted

(* auxDataHashBuilder_init: both contexts restarted, the outer array(2)    *)
(* opened.  format and remainingDelegations are left as they were.  The   *)
(* digests of the previous operation are no longer this one's.             *)
auxDataHashBuilder_init ==
  /\ auxHash' = <<Tok("ARRAY", 2)>>
  /\ payloadHash' = <<>>
  /\ state' = "INIT"
  /\ payloadFinalized' = FALSE
  /\ auxOut' = NoDigest
  /\ payloadOut' = NoDigest
  /\ aborted' = FALSE
  /\ UNCHANGED <<format, remaining>>

\* The builder memory before the first init holds arbitrary values in the
\* fields init does not write.
Init ==
  /\ format \in Formats
  /\ remaining \in 0 .. MaxDelegations
  /\ auxHash = <<Tok("ARRAY", 2)>>
  /\ payloadHash = <<>>
  /\ state = "INIT"
  /\ payloadFinalized = FALSE
  /\ auxOut = NoDigest
  /\ payloadOut = NoDigest
  /\ aborted = FALSE

cVoteRegistration_enter(f) ==
  /\ Live
  /\ state = "INIT"
  /\ format' = f
  \* APPEND_CBOR(HC_AUX_DATA, map 2); APPEND_CBOR(HC_..._PAYLOAD, map 1)
  /\ auxHash' = auxHash \o <<Tok("MAP", 2)>>
  /\ payloadHash' = payloadHash \o <<Tok("MAP", 1)>>
  /\ state' = "REGISTRATION_INIT"
  /\ UNCHANGED <<remaining, payloadFinalized, auxOut, payloadOut, aborted>>

\* The payload map has 5 entries for CIP-36 and 4 for CIP-15.
PayloadMapSize == IF format = "CIP36" THEN 5 ELSE 4

\* Mutant: the payload label reaches only the aux-data context.
MutantEnterPayloadAuxOnlyKey ==
  /\ Live
  /\ state = "REGISTRATION_INIT"
  /\ auxHash' = auxHash \o
       <<Tok("UNSIGNED", METADATA_KEY_CVOTE_REGISTRATION_PAYLOAD),
         Tok("MAP", PayloadMapSize)>>
  /\ payloadHash' = payloadHash \o <<Tok("MAP", PayloadMapSize)>>
  /\ state' = "PAYLOAD_INIT"
  /\ UNCHANGED <<format, remaining, payloadFinalized, auxOut, payloadOut,
                 aborted>>

cVoteRegistration_enterPayload ==
  /\ Live
  /\ state = "REGISTRATION_INIT"
  /\ Emit(BOTH, <<Tok("UNSIGNED", METADATA_KEY_CVOTE_REGISTRATION_PAYLOAD),
                  Tok("MAP", PayloadMapSize)>>)
  /\ state' = "PAYLOAD_INIT"
  /\ UNCHANGED <<format, remaining, payloadFinalized, auxOut, payloadOut,
                 aborted>>

cVoteRegistration_addVoteKey(voteKey) ==
  /\ Live
  /\ state = "PAYLOAD_INIT"
  /\ Emit(BOTH, <<Tok("UNSIGNED", CVOTE_REGISTRATION_PAYLOAD_KEY_VOTE_KEY)>>
                \o ByteString(voteKey, PUBLIC_KEY_SIZE))
  /\ state' = "PAYLOAD_VOTE_KEY"
  /\ UNCHANGED <<format, remaining, payloadFinalized, auxOut, payloadOut,
                 aborted>>

\* Mutant: the count is not stored, the countdown keeps a stale value.
MutantEnterDelegationsNoStore(numDelegations) ==
  /\ Live
  /\ state = "PAYLOAD_INIT"
  /\ Emit(BOTH, <<Tok("UNSIGNED", CVOTE_REGISTRATION_PAYLOAD_KEY_VOTE_KEY),
                  Tok("ARRAY", numDelegations)>>)
  /\ state' = "PAYLOAD_DELEGATIONS"
  /\ UNCHANGED <<format, remaining, payloadFinalized, auxOut, payloadOut,
                 aborted>>

\* The delegations share the vote-key slot of the payload map.
cVoteRegistration_enterDelegations(numDelegations) ==
  /\ Live
  /\ remaining' = numDelegations
  /\ state = "PAYLOAD_INIT"
  /\ Emit(BOTH, <<Tok("UNSIGNED", CVOTE_REGISTRATION_PAYLOAD_KEY_VOTE_KEY),
                  Tok("ARRAY", numDelegations)>>)
  /\ state' = "PAYLOAD_DELEGATIONS"
  /\ UNCHANGED <<format, payloadFinalized, auxOut, payloadOut, aborted>>

\* Mutant: the remainingDelegations > 0 check is dropped.
MutantAddDelegationUnguarded(voteKey, weight) ==
  /\ Live
  /\ state = "PAYLOAD_DELEGATIONS"
  /\ remaining' = remaining - 1
  /\ Emit(BOTH, <<Tok("ARRAY", 2)>> \o ByteString(voteKey, PUBLIC_KEY_SIZE)
                \o <<Tok("UNSIGNED", weight)>>)
  /\ UNCHANGED <<state, format, payloadFinalized, auxOut, payloadOut, aborted>>

cVoteRegistration_addDelegation(voteKey, weight) ==
  /\ Live
  /\ state = "PAYLOAD_DELEGATIONS"
  /\ remaining > 0
  /\ remaining' = remaining - 1
  /\ Emit(BOTH, <<Tok("ARRAY", 2)>> \o ByteString(voteKey, PUBLIC_KEY_SIZE)
                \o <<Tok("UNSIGNED", weight)>>)
  /\ UNCHANGED <<state, format, payloadFinalized, auxOut, payloadOut, aborted>>

\* Reached from the vote key, or from a delegation list with no entry left.
StakingKeyAllowed ==
  \/ state = "PAYLOAD_VOTE_KEY"
  \/ state = "PAYLOAD_DELEGATIONS" /\ remaining = 0

cVoteRegistration_addStakingKey(stakingKey) ==
  /\ Live
  /\ StakingKeyAllowed
  /\ Emit(BOTH, <<Tok("UNSIGNED", CVOTE_REGISTRATION_PAYLOAD_KEY_STAKING_KEY)>>
                \o ByteString(stakingKey, PUBLIC_KEY_SIZE))
  /\ state' = "PAYLOAD_STAKING_KEY"
  /\ UNCHANGED <<format, remaining, payloadFinalized, auxOut, payloadOut,
                 aborted>>

cVoteRegistration_addPaymentAddress(address, addressSize) ==
  /\ Live
  /\ state = "PAYLOAD_STAKING_KEY"
  /\ Emit(BOTH, <<Tok("UNSIGNED", CVOTE_REGISTRATION_PAYLOAD_PAYMENT_ADDRESS)>>
                \o ByteString(address, addressSize))
  /\ state' = "PAYLOAD_PAYMENT_ADDRESS"
  /\ UNCHANGED <<format, remaining, payloadFinalized, auxOut, payloadOut,
                 aborted>>

\* Mutant: the nonce field goes to the aux-data context only.
MutantAddNonceAuxOnly(nonce) ==
  /\ Live
  /\ state = "PAYLOAD_PAYMENT_ADDRESS"
  /\ Emit({HC_AUX_DATA}, <<Tok("UNSIGNED", CVOTE_REGISTRATION_PAYLOAD_KEY_NONCE),
                           Tok("UNSIGNED", nonce)>>)
  /\ state' = "PAYLOAD_NONCE"
  /\ UNCHANGED <<format, remaining, payloadFinalized, auxOut, payloadOut,
                 aborted>>

cVoteRegistration_addNonce(nonce) ==
  /\ Live
  /\ state = "PAYLOAD_PAYMENT_ADDRESS"
  /\ Emit(BOTH, <<Tok("UNSIGNED", CVOTE_REGISTRATION_PAYLOAD_KEY_NONCE),
                  Tok("UNSIGNED", nonce)>>)
  /\ state' = "PAYLOAD_NONCE"
  /\ UNCHANGED <<format, remaining, payloadFinalized, auxOut, payloadOut,
                 aborted>>

cVoteRegistration_addVotingPurpose(votingPurpose) ==
  /\ Live
  /\ state = "PAYLOAD_NONCE"
  /\ Emit(BOTH, <<Tok("UNSIGNED", CVOTE_REGISTRATION_PAYLOAD_VOTING_PURPOSE),
                  Tok("UNSIGNED", votingPurpose)>>)
  /\ state' = "PAYLOAD_VOTING_PURPOSE"
  /\ UNCHANGED <<format, remaining, payloadFinalized, auxOut, payloadOut,
                 aborted>>

\* The two states after which the payload may be closed or signed.
PayloadEnded == state \in {"PAYLOAD_NONCE", "PAYLOAD_VOTING_PURPOSE"}

(* finalizePayload leaves the state as it is.  A first call writes the    *)
(* digest of what the payload context has received.  blake2b_256_finalize *)
(* on a context already finalized is not specified by the code under src/ *)
(* (hash.c): the call then either fails or writes bytes that are not the  *)
(* digest of the stream.                                                   *)
cVoteRegistration_finalizePayload ==
  /\ Live
  /\ PayloadEnded
  /\ payloadFinalized' = TRUE
  /\ \/ ~payloadFinalized /\ payloadOut' = payloadHash /\ aborted' = aborted
     \/ payloadFinalized /\ payloadOut' = BadDigest /\ aborted' = aborted
     \/ payloadFinalized /\ payloadOut' = payloadOut /\ aborted' = TRUE
  /\ UNCHANGED <<state, format, remaining, auxHash, payloadHash, auxOut>>

cVoteRegistration_addSignature(signature) ==
  /\ Live
  /\ PayloadEnded
  /\ Emit({HC_AUX_DATA},
          <<Tok("UNSIGNED", METADATA_KEY_CVOTE_REGISTRATION_SIGNATURE),
            Tok("MAP", 1),
            Tok("UNSIGNED", CVOTE_REGISTRATION_SIGNATURE_KEY)>>
          \o ByteString(signature, ED25519_SIGNATURE_LENGTH))
  /\ state' = "SIGNATURE"
  /\ UNCHANGED <<format, remaining, payloadFinalized, auxOut, payloadOut,
                 aborted>>

\* Mutant: the scripts are appended with the two-context mask.
MutantAddAuxiliaryScriptsBoth ==
  /\ Live
  /\ state = "SIGNATURE"
  /\ Emit(BOTH, <<Tok("ARRAY", 0)>>)
  /\ state' = "AUXILIARY_SCRIPTS"
  /\ UNCHANGED <<format, remaining, payloadFinalized, auxOut, payloadOut,
                 aborted>>

\* Auxiliary scripts are hard-coded to an empty list.
cVoteRegistration_addAuxiliaryScripts ==
  /\ Live
  /\ state = "SIGNATURE"
  /\ Emit({HC_AUX_DATA}, <<Tok("ARRAY", 0)>>)
  /\ state' = "AUXILIARY_SCRIPTS"
  /\ UNCHANGED <<format, remaining, payloadFinalized, auxOut, payloadOut,
                 aborted>>

auxDataHashBuilder_finalize ==
  /\ Live
  /\ state = "AUXILIARY_SCRIPTS"
  /\ auxOut' = auxHash
  /\ state' = "FINISHED"
  /\ UNCHANGED <<format, remaining, auxHash, payloadHash, payloadFinalized,
                 payloadOut, aborted>>

(* A call whose ASSERT fails: the wrong state, a buffer of the wrong       *)
(* length, a count mismatch, an unknown format.  Such a call is always     *)
(* possible.  enter and enterDelegations write format and                  *)
(* remainingDelegations before they check the state.                       *)
AssertFails ==
  /\ Live
  /\ aborted' = TRUE
  /\ \/ \E f \in Formats :
           state # "INIT" /\ format' = f /\ UNCHANGED remaining
     \/ \E n \in 0 .. MaxDelegations :
           state # "PAYLOAD_INIT" /\ remaining' = n /\ UNCHANGED format
     \/ UNCHANGED <<format, remaining>>
  /\ UNCHANGED <<state, auxHash, payloadHash, payloadFinalized, auxOut,
                 payloadOut>>

Next ==
  \/ auxDataHashBuilder_init
  \/ \E f \in Formats : cVoteRegistration_enter(f)
  \/ cVoteRegistration_enterPayload
  \/ \E k \in VoteKeys : cVoteRegistration_addVoteKey(k)
  \/ \E n \in 0 .. MaxDelegations : cVoteRegistration_enterDelegations(n)
  \/ \E k \in VoteKeys, w \in Weights : cVoteRegistration_addDelegation(k, w)
  \/ \E k \in VoteKeys : cVoteRegistration_addStakingKey(k)
  \/ \E a \in Addresses, sz \in AddressSizes :
        cVoteRegistration_addPaymentAddress(a, sz)
  \/ \E n \in Nonces : cVoteRegistration_addNonce(n)
  \/ \E p \in VotingPurposes : cVoteRegistration_addVotingPurpose(p)
  \/ cVoteRegistration_finalizePayload
  \/ \E s \in Signatures : cVoteRegistration_addSignature(s)
  \/ cVoteRegistration_addAuxiliaryScripts
  \/ auxDataHashBuilder_finalize
  \/ AssertFails

Spec == Init /\ [][Next]_vars

-----------------------------------------------------------------------------
\* The states in which the registration payload is being written.
PayloadStates ==
  BuilderStates \ {"INIT", "SIGNATURE", "AUXILIARY_SCRIPTS", "FINISHED"}

\* Behind the framing of each context, aux carries the tokens of payload.
AuxFramesPayload(aux, payload) ==
  /\ Len(payload) >= 1
  /\ payload[1] = Tok("MAP", 1)
  /\ Len(aux) >= Len(payload) + 1
  /\ aux[1] = Tok("ARRAY", 2)
  /\ aux[2] = Tok("MAP", 2)
  /\ \A i \in 2 .. Len(payload) : aux[i + 1] = payload[i]

(* The payload context and the aux-data context are fed in lockstep: past *)
(* their different framing (a map of 1 entry in the payload context, an    *)
(* array of 2 and a map of 2 entries in the aux-data context), every token *)
(* the payload context received is, at the same position, in the aux-data *)
(* context, and until the signature the aux-data context has received      *)
(* nothing else.  This is what the shared APPEND_CBOR calls with the       *)
(* two-bit mask of the enterPayload ... addVotingPurpose handlers keep.    *)
PayloadSharedWithAux ==
  /\ state = "INIT" => auxHash = <<Tok("ARRAY", 2)>> /\ payloadHash = <<>>
  /\ state # "INIT" => AuxFramesPayload(auxHash, payloadHash)
  /\ state \in PayloadStates => Len(auxHash) = Len(payloadHash) + 1
=============================================================================
