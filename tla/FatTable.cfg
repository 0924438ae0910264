\* Any operations after the constructor, one of them a write; every disk call and
\* every request for pages may fail.
SPECIFICATION Spec
CONSTANTS
    Sectors = 8
    Reserved = 1
    TableSize = 3
    Copies = 1
    SectorsPerCluster = 1
    PerSector = 2
    Values = {0, 1, 2}
    Top = 2
    MaxRead = 2
    Run = 2
    Pages = 11
    MaxWrites = 1
    InitialDisks <- MCDisks
INVARIANTS PagesReturned SearchFindsFree
PROPERTIES WriteChangesOwnEntry
