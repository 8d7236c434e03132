SPECIFICATION FairSpec
CONSTANTS
    Seeds = {s1}
    Brought = {b1}
    Absent = Absent
    Torn = Torn
    MaxFaults = 3
    Tasks = {k1}
    Urls <- MCUrls
INVARIANT OwnAddresses
INVARIANT PhraseKept
INVARIANT WholeIsReadable
PROPERTY NeverOverwritten
PROPERTY StopTakesEffect
