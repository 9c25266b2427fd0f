CONSTANTS
  g1 = g1
  g2 = g2
  g3 = g3
  alice = alice
  bob = bob
  None = None
  Procs <- ProcsMC
  Keys <- KeysMC
SPECIFICATION FairSpec
INVARIANT TypeOK
INVARIANT MutualExclusion
PROPERTY EntryIsForever
PROPERTY EveryCallReturns
PROPERTY ImplementsContactLock
