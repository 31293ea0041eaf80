---------------------------- MODULE MessageSigning ----------------------------
(***************************************************************************)
(* getTxWitness and signRawMessage of src/src/messageSigning.c: derive the *)
(* private key of a path, check the sizes, sign the transaction hash into  *)
(* the output buffer, and wipe the key and chain code in a FINALLY.        *)
(*                                                                         *)
(* The function runs to its end on one thread; its steps are the          *)
(* statements that can throw (derivePrivateKey, the ASSERTs, the SDK calls *)
(* io_seproxyhal_io_heartbeat and cx_eddsa_sign), each an action labelled  *)
(* by pc.  A throw jumps to the FINALLY, after which END_TRY rethrows to   *)
(* the caller.  Memory holds "zero", "secret" (this key material) or      *)
(* "stale" (whatever the stack held before).                               *)
(***************************************************************************)
EXTENDS Naturals

CONSTANTS
  TxHashSizes,     \* txHashSize values a request may carry
  OutSizes,        \* outSize values a caller may pass
  SignatureSizes   \* values cx_eddsa_sign may return

\* TX_HASH_LENGTH (cardano.h), SIZEOF(signature) and the paranoia bound.
TX_HASH_LENGTH == 32
SIGNATURE_SIZE == 64
BUFFER_SIZE_PARANOIA == 1024

ASSUME SizesAssumption ==
  /\ TxHashSizes \subseteq Nat
  /\ OutSizes \subseteq Nat
  /\ SignatureSizes \subseteq Nat

Memory == {"zero", "secret", "stale"}
PcValues == {"idle", "derive", "assertHash", "signRaw", "eddsa", "checkSig",
             "finally"}

VARIABLES
  pc,             \* the statement getTxWitness is at; "idle" between calls
  privateKey,     \* the stack bytes of the local privateKey
  chainCode,      \* the stack bytes of the local chainCode
  outBuffer,      \* the caller's output buffer: "old" or "signature"
  txHashSize,     \* argument of the current (or last) call
  outSize,        \* argument of the current (or last) call
  signatureSize,  \* what cx_eddsa_sign returned
  exception,      \* an exception is pending through the FINALLY
  result          \* how the last call ended: "none", "ok" or "thrown"

vars == <<pc, privateKey, chainCode, outBuffer, txHashSize, outSize,
          signatureSize, exception, result>>

TypeOK ==
  /\ pc \in PcValues
  /\ privateKey \in Memory /\ chainCode \in Memory
  /\ outBuffer \in {"old", "signature"}
  /\ txHashSize \in TxHashSizes /\ outSize \in OutSizes
  /\ signatureSize \in SignatureSizes
  /\ exception \in BOOLEAN
  /\ result \in {"none", "ok", "thrown"}

-----------------------------------------------------------------------------
\* THROW: control leaves the TRY block for the FINALLY.
Throw ==
  /\ exception' = TRUE
  /\ pc' = "finally"

Init ==
  /\ pc = "idle"
  /\ privateKey = "stale" /\ chainCode = "stale"
  /\ outBuffer = "old"
  /\ txHashSize \in TxHashSizes /\ outSize \in OutSizes
  /\ signatureSize \in SignatureSizes
  /\ exception = FALSE
  /\ result = "none"

(* A caller invokes getTxWitness with a fresh output buffer; the locals    *)
(* privateKey and chainCode are uninitialised stack bytes.                 *)
getTxWitness(hashSize, outputSize) ==
  /\ pc = "idle"
  /\ pc' = "derive"
  /\ txHashSize' = hashSize /\ outSize' = outputSize
  /\ outBuffer' = "old"
  /\ privateKey' = "stale" /\ chainCode' = "stale"
  /\ exception' = FALSE /\ result' = "none"
  /\ UNCHANGED signatureSize

\* Mutant: an exception of derivePrivateKey is swallowed and signing goes on.
MutantDeriveErrorIgnored ==
  /\ pc = "derive"
  /\ privateKey' \in {privateKey, "secret"}
  /\ chainCode' \in {chainCode, "secret"}
  /\ pc' = "assertHash"
  /\ UNCHANGED <<outBuffer, txHashSize, outSize, signatureSize, exception,
                 result>>

(* derivePrivateKey fills privateKey and chainCode; it may throw (a path   *)
(* rejected, an SDK error) after writing part of either.                   *)
derivePrivateKey ==
  /\ pc = "derive"
  /\ \/ /\ privateKey' = "secret" /\ chainCode' = "secret"
        /\ pc' = "assertHash" /\ UNCHANGED exception
     \/ /\ privateKey' \in {privateKey, "secret"}
        /\ chainCode' \in {chainCode, "secret"}
        /\ Throw
  /\ UNCHANGED <<outBuffer, txHashSize, outSize, signatureSize, result>>

\* Mutant: the hash length is not checked.
MutantAssertTxHashDropped ==
  /\ pc = "assertHash"
  /\ pc' = "signRaw"
  /\ UNCHANGED <<privateKey, chainCode, outBuffer, txHashSize, outSize,
                 signatureSize, exception, result>>

\* ASSERT(txHashSize == TX_HASH_LENGTH), after the key is derived.
AssertTxHash ==
  /\ pc = "assertHash"
  /\ \/ txHashSize = TX_HASH_LENGTH /\ pc' = "signRaw" /\ UNCHANGED exception
     \/ txHashSize # TX_HASH_LENGTH /\ Throw
  /\ UNCHANGED <<privateKey, chainCode, outBuffer, txHashSize, outSize,
                 signatureSize, result>>

\* signRawMessage's ASSERTs on messageSize (the hash size) and outSize.
signRawMessage_checks ==
  /\ pc = "signRaw"
  /\ \/ /\ txHashSize < BUFFER_SIZE_PARANOIA /\ outSize = SIGNATURE_SIZE
        /\ pc' = "eddsa" /\ UNCHANGED exception
     \/ /\ ~(txHashSize < BUFFER_SIZE_PARANOIA /\ outSize = SIGNATURE_SIZE)
        /\ Throw
  /\ UNCHANGED <<privateKey, chainCode, outBuffer, txHashSize, outSize,
                 signatureSize, result>>

(* heartbeat, cx_eddsa_sign, heartbeat: each SDK call may throw; the sign  *)
(* returns a signature size.                                               *)
cx_eddsa_sign ==
  /\ pc = "eddsa"
  /\ \/ \E n \in SignatureSizes :
          signatureSize' = n /\ pc' = "checkSig" /\ UNCHANGED exception
     \/ Throw /\ UNCHANGED signatureSize
  /\ UNCHANGED <<privateKey, chainCode, outBuffer, txHashSize, outSize,
                 result>>

\* ASSERT(signatureSize == 64); os_memmove into the output buffer.
signRawMessage_copy ==
  /\ pc = "checkSig"
  /\ \/ /\ signatureSize = SIGNATURE_SIZE
        /\ outBuffer' = "signature" /\ pc' = "finally" /\ UNCHANGED exception
     \/ signatureSize # SIGNATURE_SIZE /\ Throw /\ UNCHANGED outBuffer
  /\ UNCHANGED <<privateKey, chainCode, txHashSize, outSize, signatureSize,
                 result>>

\* Mutant: the wipe runs only when the TRY block completed.
MutantFinallyOnlyOnSuccess ==
  /\ pc = "finally"
  /\ privateKey' = IF exception THEN privateKey ELSE "zero"
  /\ chainCode' = IF exception THEN chainCode ELSE "zero"
  /\ pc' = "idle"
  /\ result' = IF exception THEN "thrown" ELSE "ok"
  /\ UNCHANGED <<outBuffer, txHashSize, outSize, signatureSize, exception>>

(* FINALLY: both buffers wiped whatever happened; END_TRY then returns or  *)
(* rethrows the pending exception to the caller.                           *)
Finally ==
  /\ pc = "finally"
  /\ privateKey' = "zero" /\ chainCode' = "zero"
  /\ pc' = "idle"
  /\ result' = IF exception THEN "thrown" ELSE "ok"
  /\ UNCHANGED <<outBuffer, txHashSize, outSize, signatureSize, exception>>

\* One statement of a running call.
Step ==
  \/ derivePrivateKey
  \/ AssertTxHash
  \/ signRawMessage_checks
  \/ cx_eddsa_sign
  \/ signRawMessage_copy
  \/ Finally

Next ==
  \/ \E h \in TxHashSizes, o \in OutSizes : getTxWitness(h, o)
  \/ Step

Spec == Init /\ [][Next]_vars

-----------------------------------------------------------------------------
(* The key material never outlives a call: whenever getTxWitness has       *)
(* returned, normally or by an exception thrown from derivePrivateKey, an  *)
(* ASSERT or the SDK, the stack bytes of privateKey and chainCode hold no  *)
(* secret.  This is what the FINALLY block is for.                         *)
KeyWipedOnReturn ==
  pc = "idle" => privateKey # "secret" /\ chainCode # "secret"

(* The witness buffer holds a signature exactly when the call returned     *)
(* normally, and only for a request whose hash has TX_HASH_LENGTH bytes,   *)
(* whose output buffer has room for the signature and whose signature has *)
(* the expected size: a call that throws leaves no partial witness.        *)
WitnessMatchesResult ==
  pc = "idle" /\ result # "none" =>
    /\ (outBuffer = "signature" <=> result = "ok")
    /\ outBuffer = "signature" =>
         /\ txHashSize = TX_HASH_LENGTH
         /\ outSize = SIGNATURE_SIZE
         /\ signatureSize = SIGNATURE_SIZE

(* A step that puts a signature into the witness buffer is the os_memmove *)
(* at the end of signRawMessage, taken with the key derivePrivateKey       *)
(* completed for this call, after the hash, output and signature sizes    *)
(* were all checked: no signature is made from stale or partly derived    *)
(* key bytes.                                                              *)
SignatureFromDerivedKey ==
  [][outBuffer' = "signature" /\ outBuffer # "signature" =>
       /\ pc = "checkSig"
       /\ privateKey = "secret" /\ chainCode = "secret"
       /\ txHashSize = TX_HASH_LENGTH
       /\ outSize = SIGNATURE_SIZE
       /\ signatureSize = SIGNATURE_SIZE]_vars
=============================================================================
