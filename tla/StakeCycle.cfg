SPECIFICATION FairSpec
CONSTANTS
    Ppm = 64
    NoCap = NoCap
    Keys <- MCKeys
    Heights = {1, 2}
    NoSecret = NoSecret
    Secrets = {NoSecret, 7}
    Digest <- MCDigest
    ProgramStart = 2
    Hosts = {h1, h2}
    h1 = h1
    h2 = h2
    d1 = d1
    d2 = d2
    Stakers <- MCStakers
    Value <- MCValue
    Winners <- MCWinners
    ProofOf <- MCProofOf
    HashOf <- MCHashOf
    TimeOf <- MCTimeOf
    PolicySet <- MCPolicies
    MaxLate = 1
    MaxHeight = 2
    MaxReorgs = 0
    Nobody = Nobody
INVARIANT CapOverrunBounded
INVARIANT Ungrindable
INVARIANT ChanceDiminishes
PROPERTY CycleEnds
