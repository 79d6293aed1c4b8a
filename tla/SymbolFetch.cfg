SPECIFICATION FairSpec
CONSTANTS
    Runs = {r1, r2}
    Inodes = {i1, i2, i3}
    Blocks = 2
    MaxKills = 1
    None = None
INVARIANT SettledPdbIsWhole
INVARIANT RowIsWhole
PROPERTY SettledPdbStays
PROPERTY HalfTableHeals
