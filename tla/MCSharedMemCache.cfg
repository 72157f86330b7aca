SPECIFICATION SectorSpec
CONSTANTS
  k1 = k1  k2 = k2  e1 = e1  e2 = e2  short = short  long = long
  Hashes = {k1, k2}
  Values = {short, long}
  Size <- MCSize
  Entries = {e1, e2}
  DataBlocks = 3
  Position <- MCPosition
  Procs = {p1, p2}
  Times = {1}
  MaxBlocks = 2
  MaxCrashes = 1
  Nil = Nil
INVARIANTS SectorConsistent DumpIsWhole
PROPERTIES IsLossyCache WriterProceeds
