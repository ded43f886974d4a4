SPECIFICATION Spec
CONSTANTS
  g1 = g1
  Group <- MCGroup
  Member <- MCMember
  Partitions <- MCPartitions
INVARIANTS
  OneOwner
  CompleteAndBalanced
  FreshReadersDisjoint
