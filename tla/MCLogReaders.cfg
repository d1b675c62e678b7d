\* Either reader; three lines and two rotations, a window of two lines, two overlapping scans.
SPECIFICATION Spec
CONSTANTS
    MaxLines = 3
    MaxRotations = 2
    Window = 2
    s1 = s1
    s2 = s2
    Scans = {s1, s2}
    Installed = {"python", "go"}
INVARIANTS
    TypeOK
    AtMostTwice
    BlocksOfThisFile
    HitsConserved
PROPERTIES
    PyImplementsFeed
    GoImplementsFeed
    ReaderCatchesUp
