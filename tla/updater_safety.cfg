SPECIFICATION Spec
CONSTANTS
    p1 = p1
    p2 = p2
    e1 = e1
    e2 = e2
    eEmpty = eEmpty
    eBig = eBig
    b1 = b1
    b2 = b2
    bEmpty = bEmpty
    bBig = bBig
    partial = partial
    t1 = t1
    t2 = t2
    Updaters = {p1}
    ETag = {e1, e2, eEmpty, eBig}
    NoETag = NoETag
    Body = {b1, b2, bEmpty, bBig, partial}
    Partial = partial
    Absent = Absent
    Content <- MCContent
    Size <- MCSize
    Crc <- MCCrc
    MaxBytes = 0
    DefaultMaxBytes = 2
    MaxInt64 = 7
    Temp = {t1, t2}
    NoTemp = NoTemp
    InstallAttempts = 2
    DownloadAttempts = 3
INVARIANTS
    TypeOK
    RecordIsServedPair
PROPERTIES
    VerdictIsSound
    InstallIsSound
    NoLeakWhenCalm
    ImplementsPayloadSync
