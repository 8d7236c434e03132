SPECIFICATION Spec
CONSTANTS
    Seeds = {s1}
    Brought = {b1}
    Absent = Absent
    Torn = Torn
    MaxFaults = 2
    Tasks = {k1}
    Urls <- MCUrls
PROPERTY StopNotWithdrawn
