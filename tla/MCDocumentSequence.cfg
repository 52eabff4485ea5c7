SPECIFICATION NumberSpec
CONSTANTS
  t1 = t1
  t2 = t2
  Tenants = {t1, t2}
  SequenceKeys <- MCKeys
  Seeded <- MCSeeded
  ResetYearly <- MCResetYearly
  HasYear <- MCHasYear
  Txs = {p1, p2}
  NoTx = NoTx
  NoTenant = NoTenant
  SeedYear = 1
  MaxYear = 2
  MaxValue = 2
INVARIANT NoDuplicateNumber
PROPERTY ImplementsBook
SYMMETRY Symmetry
