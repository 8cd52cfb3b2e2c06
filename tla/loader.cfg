\* Subsets of small datasets, and an epoch over them by up to two readers.
SPECIFICATION Spec
CONSTANTS
  GroupSize = 2
  Ast <- MCAst
  FlagOf <- MCFlagOf
  OffsetOf <- MCOffsetOf
  Datasets <- MCDatasets
  Wheres <- MCWheres
  Setups <- MCSetups
  MaxSubsets = 2
  MaxFailures = 1
  MaxResumes = 1
INVARIANTS TypeOK SubsetIsEager DeliveredOnce InOrder EndsWhole LenHonest
PROPERTY EpochEnds
