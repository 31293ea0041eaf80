------------------------ MODULE MessageSigning_proofs ------------------------
(***************************************************************************)
(* Proofs about getTxWitness, for every set of sizes.                      *)
(***************************************************************************)
EXTENDS MessageSigning, TLAPS

\* A call in progress holds key material only where the TRY block put it:
\* before derivePrivateKey ran, the stack holds no secret of this call, and
\* after it completed, until the FINALLY, the stack holds the derived key.
KeyInv ==
  /\ pc \in {"idle", "derive"} => privateKey # "secret" /\ chainCode # "secret"
  /\ pc \in {"assertHash", "signRaw", "eddsa", "checkSig"} =>
       privateKey = "secret" /\ chainCode = "secret"

\* What each statement of the TRY block may rely on from the earlier ones.
WitnessInv ==
  /\ pc \in {"derive", "assertHash", "signRaw", "eddsa", "checkSig"} =>
       outBuffer = "old" /\ ~exception
  /\ pc \in {"signRaw", "eddsa", "checkSig"} => txHashSize = TX_HASH_LENGTH
  /\ pc \in {"eddsa", "checkSig"} => outSize = SIGNATURE_SIZE
  /\ pc = "finally" => (outBuffer = "signature" <=> ~exception)
  /\ outBuffer = "signature" =>
       /\ txHashSize = TX_HASH_LENGTH
       /\ outSize = SIGNATURE_SIZE
       /\ signatureSize = SIGNATURE_SIZE
  /\ WitnessMatchesResult

IInv == TypeOK /\ KeyInv /\ WitnessInv

LEMMA InitIInv == Init => IInv
  BY DEF Init, IInv, TypeOK, KeyInv, WitnessInv, WitnessMatchesResult,
         PcValues, Memory

LEMMA StepIInv == IInv /\ [Next]_vars => IInv'
<1> SUFFICES ASSUME TypeOK, KeyInv, WitnessInv, [Next]_vars
             PROVE  TypeOK' /\ KeyInv' /\ WitnessInv'
  BY DEF IInv
<1> USE SizesAssumption DEF PcValues, Memory
<1>1. ASSUME NEW h \in TxHashSizes, NEW o \in OutSizes, getTxWitness(h, o)
      PROVE  TypeOK' /\ KeyInv' /\ WitnessInv'
  <2>1. TypeOK'
    BY <1>1 DEF getTxWitness, TypeOK
  <2>2. KeyInv'
    BY <1>1 DEF getTxWitness, KeyInv
  <2>3. WitnessInv'
    BY <1>1 DEF getTxWitness, WitnessInv, WitnessMatchesResult
  <2>4. QED
    BY <2>1, <2>2, <2>3
<1>2. CASE derivePrivateKey
  <2>1. TypeOK'
    BY <1>2 DEF derivePrivateKey, Throw, TypeOK
  <2>2. KeyInv'
    BY <1>2 DEF derivePrivateKey, Throw, KeyInv
  <2>3. WitnessInv'
    BY <1>2 DEF derivePrivateKey, Throw, WitnessInv, WitnessMatchesResult, TypeOK
  <2>4. QED
    BY <2>1, <2>2, <2>3
<1>3. CASE AssertTxHash
  <2>1. TypeOK'
    BY <1>3 DEF AssertTxHash, Throw, TypeOK
  <2>2. KeyInv'
    BY <1>3 DEF AssertTxHash, Throw, KeyInv
  <2>3. WitnessInv'
    BY <1>3 DEF AssertTxHash, Throw, WitnessInv, WitnessMatchesResult, TypeOK
  <2>4. QED
    BY <2>1, <2>2, <2>3
<1>4. CASE signRawMessage_checks
  <2>1. TypeOK'
    BY <1>4 DEF signRawMessage_checks, Throw, TypeOK
  <2>2. KeyInv'
    BY <1>4 DEF signRawMessage_checks, Throw, KeyInv
  <2>3. WitnessInv'
    BY <1>4 DEF signRawMessage_checks, Throw, WitnessInv, WitnessMatchesResult, TypeOK
  <2>4. QED
    BY <2>1, <2>2, <2>3
<1>5. CASE cx_eddsa_sign
  <2>1. TypeOK'
    BY <1>5 DEF cx_eddsa_sign, Throw, TypeOK
  <2>2. KeyInv'
    BY <1>5 DEF cx_eddsa_sign, Throw, KeyInv
  <2>3. WitnessInv'
    BY <1>5 DEF cx_eddsa_sign, Throw, WitnessInv, WitnessMatchesResult, TypeOK
  <2>4. QED
    BY <2>1, <2>2, <2>3
<1>6. CASE signRawMessage_copy
  <2>1. TypeOK'
    BY <1>6 DEF signRawMessage_copy, Throw, TypeOK
  <2>2. KeyInv'
    BY <1>6 DEF signRawMessage_copy, Throw, KeyInv
  <2>3. WitnessInv'
    BY <1>6 DEF signRawMessage_copy, Throw, WitnessInv, WitnessMatchesResult, TypeOK
  <2>4. QED
    BY <2>1, <2>2, <2>3
<1>7. CASE Finally
  <2>1. TypeOK'
    BY <1>7 DEF Finally, TypeOK
  <2>2. KeyInv'
    BY <1>7 DEF Finally, KeyInv
  <2>3. WitnessInv'
    BY <1>7 DEF Finally, WitnessInv, WitnessMatchesResult, TypeOK
  <2>4. QED
    BY <2>1, <2>2, <2>3
<1>8. CASE UNCHANGED vars
  BY <1>8 DEF vars, TypeOK, KeyInv, WitnessInv, WitnessMatchesResult
<1>9. QED
  BY <1>1, <1>2, <1>3, <1>4, <1>5, <1>6, <1>7, <1>8 DEF Next, Step

(* The FINALLY of getTxWitness wipes the key material on every exit path:  *)
(* whenever the function has returned, normally or by an exception, the    *)
(* stack bytes of privateKey and chainCode hold no secret.                 *)
THEOREM KeyWiped == Spec => []KeyWipedOnReturn
<1>1. IInv => KeyWipedOnReturn
  BY DEF IInv, KeyInv, KeyWipedOnReturn
<1>2. QED
  BY InitIInv, StepIInv, <1>1, PTL DEF Spec

(* The output buffer of getTxWitness holds a signature exactly when the    *)
(* call returned normally, and then only for a hash of TX_HASH_LENGTH      *)
(* bytes, an output of 64 bytes and a 64-byte signature.                   *)
THEOREM WitnessSound == Spec => []WitnessMatchesResult
<1>1. IInv => WitnessMatchesResult
  BY DEF IInv, WitnessInv
<1>2. QED
  BY InitIInv, StepIInv, <1>1, PTL DEF Spec

(* getTxWitness writes a signature into the output buffer only in the      *)
(* os_memmove of signRawMessage, with the key derivePrivateKey completed   *)
(* for this call and after every size ASSERT passed.                       *)
THEOREM SignsWithDerivedKey == Spec => SignatureFromDerivedKey
<1> DEFINE Written == outBuffer' = "signature" /\ outBuffer # "signature"
           Checked == /\ pc = "checkSig"
                      /\ privateKey = "secret" /\ chainCode = "secret"
                      /\ txHashSize = TX_HASH_LENGTH
                      /\ outSize = SIGNATURE_SIZE
                      /\ signatureSize = SIGNATURE_SIZE
<1>1. IInv /\ [Next]_vars => [Written => Checked]_vars
  <2> SUFFICES ASSUME IInv, [Next]_vars, Written PROVE Checked
    OBVIOUS
  <2>1. signRawMessage_copy
    <3>1. CASE \E h \in TxHashSizes, o \in OutSizes : getTxWitness(h, o)
      BY <3>1 DEF getTxWitness
    <3>2. CASE UNCHANGED vars
      BY <3>2 DEF vars
    <3>3. QED
      BY <3>1, <3>2 DEF Next, Step, derivePrivateKey, AssertTxHash,
         signRawMessage_checks, cx_eddsa_sign, Finally, Throw
  <2>2. QED
    BY <2>1 DEF signRawMessage_copy, IInv, KeyInv, WitnessInv
<1>2. QED
  BY InitIInv, StepIInv, <1>1, PTL DEF Spec, SignatureFromDerivedKey
=============================================================================
