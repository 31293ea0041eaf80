CONSTANTS
  TxHashSizes <- MCTxHashSizes
  OutSizes <- MCOutSizes
  SignatureSizes <- MCSignatureSizes
SPECIFICATION Spec
INVARIANTS
  KeyWipedOnReturn
  WitnessMatchesResult
PROPERTY
  SignatureFromDerivedKey
