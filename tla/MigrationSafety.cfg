CONSTANTS
  Runner = {p1, p2}
  Migration <- Ids
  Baseline = 1
  Text = {"t1", "t2"}
  Dep = {"d1", "d2"}
  None = None
  Release <- Releases
  Ledger0 <- Ledgers
SPECIFICATION FairSpec
INVARIANTS LedgerIsTruthful
PROPERTIES FailsClosed RowsAreOnlyHealed DoneMeansApplied EvolvesInOrder EveryRunEnds
