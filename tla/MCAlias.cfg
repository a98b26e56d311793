CONSTANTS
  a = a
  b = b
  Nodes <- MCNodes
  Id <- MCId
  AliasOf <- MCAliasOf
  MaxLost = 1
  MaxRestarts = 1
SPECIFICATION FairSpec
INVARIANTS UniqueAlias
PROPERTIES SharingEnds EventuallyPermitted DuplicatesReported
