----------------------------- MODULE MCFatTable -----------------------------
EXTENDS FatTable

MCSector(a, b) == [j \in 0 .. 1 |-> IF j = 0 THEN a ELSE b]

\* A boot sector, three table sectors of two entries, four clusters of a sector.
\* 2 is a free entry whose reserved bit is set.  Volumes with the first cluster
\* free, with the last only, and with none.
MCVolume(c2, c3, c4, c5) ==
    [s \in 0 .. 7 |-> CASE s = 1 -> MCSector(1, 1) [] s = 2 -> MCSector(c2, c3)
                        [] s = 3 -> MCSector(c4, c5) [] OTHER -> MCSector(0, 0)]

MCDisks == {MCVolume(0, 1, 1, 1), MCVolume(1, 1, 1, 2), MCVolume(1, 1, 1, 1)}
=============================================================================
