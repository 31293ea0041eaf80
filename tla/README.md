# Verification of the auxiliary-data hash builder and the transaction witness signer

TLA+ models, TLC runs and TLAPS proofs for
`src/src/auxDataHashBuilder/auxDataHashBuilder.c` and `src/src/messageSigning.c` (Ledger Cardano app).
This is the streaming builder that hashes the canonical CBOR of a
CIP-15/CIP-36 vote registration into two blake2b-256 contexts at once:
- the auxiliary-data hash, which goes into the transaction body;
- the registration-payload hash, which the device signs.

## The system and its parts

| Part | Where | Status |
|---|---|---|
| Hash builder: 14 entry points over `aux_data_hash_builder_state_t` | `auxDataHashBuilder.c:81-341` | modelled (`AuxDataHashBuilder`) |
| Dual-sink append, `APPEND_CBOR`/`APPEND_DATA` with a two-bit mask | `auxDataHashBuilder.c:19-77` | modelled (`Emit`, `ByteString`) |
| `ASSERT` / `ERR_ASSERT`: a failed check throws and ends the signing operation | `common.h:61-68` | modelled (`AssertFails`, `aborted`) |
| Caller: the signTx vote-registration handler | not under `src/` | modelled from spec.md (`CVoteRegistrationCaller`) |
| Token encoder `cbor_writeToken`, called through the 10-byte buffer of `blake2b_256_append_cbor_aux_data` | `auxDataHashBuilder.c:52-63`; the encoder is not under `src/` | not modelled: the builder's tokens are abstract (type, value) records judged by `CborGrammar` |
| blake2b-256 | external | a digest is the token sequence hashed (hash taken to be injective) |
| `messageSigning.c` (`signRawMessage`, `getTxWitness`) | `messageSigning.c:5-60` | modelled (`MessageSigning`) |
| What the builder promises, without its states | spec.md §3 | abstract spec `AuxDataHash`, refined by the builder |
| `io.h`, `ui.h` | headers | not modelled: transport and display declarations only |

How the parts interact: the caller calls the builder's entry points in the
order of the registration fields. Each entry point checks the state and
appends tokens to one or both contexts through the mask. Then:
1. `finalizePayload` writes the payload digest.
2. The caller signs that digest, outside the builder.
3. `addSignature` puts the signature into the aux-data context.
4. `finalize` writes the aux-data digest.

Everything runs single-threaded and every call is atomic. The only thing
that can interleave is the caller's choice of the next call.

## Modules

- **AuxDataHashBuilder.tla** models the builder.
  - Variables:
    - `state`: `builder->state`.
    - `format`, `remaining`: `cVoteRegistrationData.format` and
      `.remainingDelegations`.
    - `auxHash`, `payloadHash`: the tokens each hash context has received.
    - `payloadFinalized`: blake2b finalize has run on the payload context.
    - `auxOut`, `payloadOut`: the digests written to the output buffers.
    - `aborted`: an ASSERT has failed.
  - Actions: one per C function, named after it, with the guard taken from its
    `ASSERT`s. Notes on particular actions:
    - The buffer-length `ASSERT`s are satisfied by construction: keys are
      32 bytes, the signature is 64 bytes, and address sizes are in
      `1..1023`. A call that breaks any `ASSERT` is `AssertFails`.
    - `enter` writes `format`, and `enterDelegations` writes
      `remainingDelegations`, before they check the state. A failing call of
      either therefore leaves the written value behind; `AssertFails` models
      these partial writes.
    - `init` resets neither `format` nor `remainingDelegations`. `Init`
      therefore starts them at any value.
    - `finalizePayload` leaves the state unchanged. Finalizing a context that
      is already finalized is not defined by code under `src/`, so the model
      lets it either abort or write a value that is not a digest
      (`BadDigest`).
- **CborGrammar.tla** is the reference for "one complete canonical CBOR
  item". It is a left-to-right parser with a stack of open containers:
  - sizes are definite;
  - a BYTES header is followed by its data;
  - map keys are unsigned and strictly ascending.

  It is written as a recursive function, not a RECURSIVE operator. It models
  no code.
- **CVoteRegistrationCaller.tla** is the builder under the caller contract of
  spec.md §3 and §8. Each caller step is the builder action unchanged, plus
  one extra condition:
  - a voting purpose is sent only for CIP-36;
  - `finalizePayload` is called once, when the payload is complete;
  - `addSignature` is called only after the payload digest is taken.

  The module also states the digest properties.
- **MC_AuxDataHashBuilder.tla** instantiates the model for TLC:
  - two vote keys (with symmetry), one address, one signature;
  - nonces `{0, 1234}`, one weight, voting purpose `{0}`;
  - address size 57;
  - at most 2 delegations.
- **AuxDataHashBuilder_proofs.tla** holds the TLAPS proofs.
- **AuxDataHash.tla** is the abstract contract of the builder, without its
  twelve states. Its variables are:
  - `opened`;
  - `body`: the tokens both digests receive;
  - `tail`: the tokens only the aux data receives;
  - the two digests and `aborted`.

  Its actions are `Restart`, `Open`, `ExtendBody`, `FinalizePayload`,
  `ExtendTail`, `Finalize` and `Abort`. The body grows only while the tail is
  empty. The payload digest is `map(1)` followed by the body (or `BadDigest`).
  The aux-data digest is `array(2) map(2)`, then the body, then a non-empty
  tail. Nothing is appended after it.
- **AuxDataHashBuilderRefinement.tla** maps the builder onto that contract:
  - `opened` is `state # "INIT"`;
  - `body` is the payload context without its `map(1)` header;
  - `tail` is what the aux-data context holds past its framing and the body.

  `BuilderImplementsAuxDataHash` is `Abs!AbsSpec`, and **MC_Refinement.tla**
  checks it with TLC. **AuxDataHashBuilderRefinement_proofs.tla** proves it.
- **MessageSigning.tla** models `getTxWitness` and `signRawMessage` of
  `messageSigning.c`. `pc` labels the statements that can throw:
  - `derivePrivateKey`;
  - the hash-length `ASSERT`;
  - `signRawMessage`'s size `ASSERT`s;
  - the heartbeat and `cx_eddsa_sign` calls;
  - the signature-size `ASSERT` and the copy.

  A throw jumps to `Finally`, which wipes `privateKey` and `chainCode` and
  returns or rethrows. Stack memory is `"zero"`, `"secret"` or `"stale"`.
  A call starts with uninitialised (`"stale"`) locals, and `derivePrivateKey`
  may throw after writing part of either buffer. **MC_MessageSigning.tla**
  gives each size its right value and a wrong one, and gives the output
  size a second wrong value that is too large. The `ASSERT` requires exactly
  64 bytes, so a larger buffer is rejected too.
- **MessageSigning_proofs.tla** holds its TLAPS proofs.
- **CVoteRegistrationCaller_proofs.tla** holds the proof of
  `SignedPayloadEmbedded`.

## Runs

| Run | cfg | Checks | Result |
|---|---|---|---|
| `builder_any` | `MC_AuxDataHashBuilder.cfg` | `TypeOK`, `PayloadSharedWithAux` | pass |
| `caller_contract` | `MC_Caller.cfg` | `DigestsWellFormed`, `SignedPayloadEmbedded` | pass |
| `any_digests_wellformed` | `MC_Any_DigestsWellFormed.cfg` | `DigestsWellFormed` under any caller | violation |
| `any_signed_payload_embedded` | `MC_Any_SignedPayloadEmbedded.cfg` | `SignedPayloadEmbedded` under any caller | violation |
| `builder_refines_contract` | `MC_Refinement.cfg` | `BuilderImplementsAuxDataHash` | pass |
| `msg_signing` | `MC_MessageSigning.cfg` | `KeyWipedOnReturn`, `WitnessMatchesResult`, `SignatureFromDerivedKey` | pass |

- **`builder_any`** allows any call sequence, including failing ASSERTs. The
  two contexts stay in lockstep: behind the different framing (array 2 with
  map 2, against map 1), every payload token is in the aux-data context at the
  same position, and until the signature the aux-data context receives
  nothing else.
- **`caller_contract`**:
  - every digest the builder writes is one complete canonical CBOR item;
  - the payload that was signed is exactly the one embedded in the aux data,
    and it is followed by the 61285 signature entry.
- **The two violation runs** are the findings below.
- **`builder_refines_contract`**: every call sequence of the builder, failing
  `ASSERT`s included, is a behaviour of `AuxDataHash`. In particular:
  - the signature and the scripts come after every payload field;
  - `finalize` writes exactly the framed body and tail;
  - nothing reaches a context after `finalize`.

  The mutant that appends the scripts to both contexts breaks it.
- **`msg_signing`**:
  - `KeyWipedOnReturn`: whichever statement throws, no secret is on the
    stack after return;
  - `WitnessMatchesResult`: the output holds a signature exactly when the
    call returned normally, and then only for the right sizes;
  - `SignatureFromDerivedKey` (an action property): the only step that puts
    a signature into the output buffer is the copy at the end of
    `signRawMessage`. It is taken with the key that `derivePrivateKey`
    completed for this call, after every size `ASSERT` passed. The mutant
    that swallows an exception of `derivePrivateKey` and signs with stale or
    partly derived bytes breaks it. No invariant notices that mutant,
    because the `FINALLY` still wipes the key and the call still ends "ok".

Four handlers append a token before a size `ASSERT` of theirs:
- `addVoteKey` (`auxDataHashBuilder.c:135` before `:139`);
- `addDelegation` (`:181` before `:183`);
- `addStakingKey` (`:217` before `:221`);
- `addSignature` (`:306` before `:308`).

`AssertFails` leaves both contexts as they were, so it drops these partial
appends. This cannot be observed: after a failed `ASSERT` only `init` is
enabled (`Live`), and `init` rebuilds both contexts. So the "failing
`ASSERT`s included" of `builder_any` and `builder_refines_contract` speaks
of the contexts as they stood before the aborted call.

Why these bounds are enough:
- Two delegations cover the empty list, the single entry and the countdown
  through several entries. `enterDelegations(0)` reaches `addStakingKey`
  directly.
- Two vote keys distinguish keys.
- The values never influence control flow. Only the countdown and the format
  do, and both are enumerated exhaustively.

No deadlock is possible: `init` and `AssertFails` are always enabled.

No liveness property is stated for the builder. The caller drives every
step, and the code never promises progress of its own.

No liveness property is stated for `MessageSigning` either. `getTxWitness`
is straight-line code, and every statement is enabled at its label, so
"every call returns" would hold by the shape of the model. Whether the SDK
calls return at all is outside this code. The specification therefore has
no fairness conjunct.

## Findings

1. **A payload digest can be taken at `PAYLOAD_NONCE` under CIP-36**
   (`auxDataHashBuilder.c:289`). `finalizePayload` does not check the format,
   so the digest is of a map declared with 5 entries that holds 4.
   Similarly, `addVotingPurpose` (line 272) does not check the format, so a
   CIP-15 map declared with 4 entries can receive a fifth. Spec §4.1 requires
   that the builder never produce a digest from a malformed sequence. Only
   the caller prevents it.
2. **`finalizePayload` leaves the state unchanged and does not block later
   payload appends** (lines 289-293). A voting purpose can follow the
   payload digest, and `addSignature` (line 303) does not require that digest
   to exist. The aux data then embeds a payload different from the one
   signed. Spec §3 says "each consumable only once", and §8's "digest
   independence" property is also affected. Only the caller prevents it.

## Proofs (TLAPS)

`AuxDataHashBuilder_proofs.tla` proves, for every value of the constants,
under `ConstantsAssumption`:
- the value sets are naturals;
- address sizes are in `1 .. BUFFER_SIZE_PARANOIA - 1`;
- `MaxDelegations \in Nat`.

The theorems:
- **`TypeCorrect`**: `Spec => []TypeOK`. It rests on `TypeInit` and
  `TypeStep`, which has one step per action. `TypeStep` uses `EmittedTokens`
  (every token sequence a handler appends is a `Seq(Token)`). It shows that
  the `remainingDelegations > 0` check keeps the countdown in range.
- **`PayloadShared`**: `Spec => []PayloadSharedWithAux`. Its inductive
  invariant is `IInv == TypeOK /\ PayloadSharedWithAux`. The type part is
  needed because the sequence lemmas need `Seq(Token)`. The argument has
  three parts:
  - The `LockstepAppend` lemma: the same tokens appended to both contexts
    preserve the alignment and the length difference of 1. It is proved from
    `ConcatProperties`. The `PayloadStep` lemma applies it to every payload
    handler.
  - The `AuxOnlyAppend` and `AuxStep` lemmas: appending to the aux-data
    context alone preserves the alignment. This covers the signature and the
    scripts.
  - `enter` is computed concretely from the `INIT` contexts.

`MessageSigning_proofs.tla` proves, under `SizesAssumption`:
- **`KeyWiped`**: `Spec => []KeyWipedOnReturn`.
- **`WitnessSound`**: `Spec => []WitnessMatchesResult`.
- **`SignsWithDerivedKey`**: `Spec => SignatureFromDerivedKey`, the action
  property. Its step lemma shows that under `IInv` every `Next` step that
  writes the signature is `signRawMessage_copy`. The conjuncts of `KeyInv`
  and `WitnessInv` then give the key and the sizes.
All three rest on `IInv == TypeOK /\ KeyInv /\ WitnessInv`:
- `KeyInv`: before `derivePrivateKey` the stack holds no secret of the call,
  and from its completion until the `FINALLY` it holds the derived key;
- `WitnessInv`: what each statement may rely on from the earlier ones.

The properties alone are not inductive. At `"finally"` they say nothing, so
the strengthening carries "the output holds a signature exactly when no
exception is pending" through the `FINALLY`.

`AuxDataHashBuilderRefinement_proofs.tla` proves **`Refines`**:
`Spec => BuilderImplementsAuxDataHash`, for every value of the constants.
- Its invariant is `RInv == IInv /\ DigestInv`. `DigestInv` adds two facts:
  - the aux-data digest is `NoDigest` before `FINISHED`;
  - from `SIGNATURE` on, the aux-data context is at least two tokens longer
    than the payload context.

  `Finalize` needs these facts to show the tail is non-empty, and the
  lockstep invariant alone does not give them.
- `PayloadHandlers` and `TailHandlers` group the handlers: the eight payload
  handlers append one non-empty sequence `t` to both contexts, and the
  signature and the scripts append one to the aux data only.
- `BodyRefines` turns the first kind into `ExtendBody` (`BodyGrows`,
  `TailEmpty`). `TailRefines` turns the second into `ExtendTail`
  (`TailGrows`).
- `AuxIsFramedBodyAndTail` shows that the aux-data context is exactly
  `array(2) map(2)`, then the body, then the tail. It is proved from
  `ThreeParts`, a pointwise split of a sequence into three. It gives the
  `Finalize` step.
- `MapStep` has one case per builder action, plus the stutter.
- `Refines` follows by PTL from `RInvInit`, `RInvStep` and `MapStep`.

`CVoteRegistrationCaller_proofs.tla` proves **`SignedPayloadIsEmbedded`**:
`CallerSpec => []SignedPayloadEmbedded`, for every value of the constants.
It reuses `RInv` from the refinement proofs, which gives the lockstep of the
two contexts. It adds `CallerInv`, which records what the signTx handler's
call order adds:
- the payload digest is `NoDigest` until `finalizePayload`;
- after `finalizePayload` the digest equals the payload context, and the
  state is at or past `PAYLOAD_NONCE`. So the handler never appends to the
  payload context again: under CIP-15 the nonce is its last field;
- from `SIGNATURE` on, the token after the payload part of the aux-data
  context is the 61285 label that `addSignature` wrote;
- the aux-data digest, once written, is the aux-data context at `FINISHED`.

`SignedPayloadEmbedded` alone is not inductive. It speaks only of the two
digests, and a step must know that the contexts they were taken from stay
frozen. `SentinelsAssumption` (in `AuxDataHashBuilder.tla`) states that
`NoDigest` and `BadDigest` are not token sequences. TLC evaluates it on every
run of that module.

Only model-checked, and why:
- `DigestsWellFormed`: it is stated with `CborGrammar`'s `Parse`, a
  recursive function over the whole token stream. An inductive invariant
  would relate `Parse` of each context to the builder state. Each handler
  step would then need `Parse(s \o t)` to equal `Parse(s)` followed by
  `Step` over `t`. That needs induction over the length of `s`, and the
  library's induction theorems take an operator parameter that the
  installed provers cannot instantiate. TLC checks the property on the
  caller instance.

## Not modelled

- The builder's tokens stay abstract (type, value) records. `cbor_writeToken`
  is in `cbor.c`, which is not under `src/`. A model of it could only
  restate the CBOR rule, and checking that against a decoder built from the
  same rule would hold whatever `cbor.c` does. The one fact of this code
  about it is that a token has at most 9 bytes, so it fits the 10-byte
  buffer of `blake2b_256_append_cbor_aux_data`.
- blake2b itself: a digest is the token sequence, so the hash is taken to be
  injective.
- `io.h` and `ui.h`: they declare APDU transport and display functions only,
  and hold no state the builder or the signer reads.
- The derivation inside `derivePrivateKey` and `cx_eddsa_sign`: they are
  external SDK code, modelled by what they return or whether they throw.

## Plan for later work

- An abstract specification of the registration as a record of fields, with
  the digests as functions of it, refined by `CVoteRegistrationCaller`.
- A proof of `DigestsWellFormed` from a lemma on `Parse` of a
  concatenation, once a prover in use can instantiate induction over the
  length of a sequence.
