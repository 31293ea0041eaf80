CONSTANTS
  k1 = k1
  k2 = k2
  a1 = a1
  s1 = s1
  NoDigest = NoDigest
  BadDigest = BadDigest
  VoteKeys <- MCVoteKeys
  Addresses <- MCAddresses
  Signatures <- MCSignatures
  Nonces <- MCNonces
  Weights <- MCWeights
  VotingPurposes <- MCVotingPurposes
  AddressSizes <- MCAddressSizes
  MaxDelegations <- MCMaxDelegations
SPECIFICATION Spec
PROPERTY
  BuilderImplementsAuxDataHash
