SPECIFICATION Spec
CONSTANTS
    p1 = p1
    p2 = p2
    e1 = e1
    e2 = e2
    eEmpty = eEmpty
    eBig = eBig
    b1 = b1
    b2 = b2
    bEmpty = bEmpty
    bBig = bBig
    partial = partial
    t1 = t1
    t2 = t2
    Updaters = {p1, p2}
    ETag = {e1, e2}
    NoETag = NoETag
    Body = {b1, b2, partial}
    Partial = partial
    Absent = Absent
    Content <- MCContentTwo
    Size <- MCSizeTwo
    Crc <- MCCrcTwo
    MaxBytes = 0
    DefaultMaxBytes = 2
    MaxInt64 = 7
    Temp = {t1, t2}
    NoTemp = NoTemp
    InstallAttempts = 1
    DownloadAttempts = 1
SYMMETRY MCSymmetry
PROPERTIES
    InstallIsSound
    SweepSparesFresh
