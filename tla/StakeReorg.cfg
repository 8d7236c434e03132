SPECIFICATION Spec
CONSTANTS
    Ppm = 64
    NoCap = NoCap
    Keys <- MCKeys
    Heights = {1, 2}
    NoSecret = NoSecret
    Secrets = {NoSecret, 7}
    Digest <- MCDigest
    ProgramStart = 2
    Hosts = {h1, h2}
    h1 = h1
    h2 = h2
    d1 = d1
    d2 = d2
    Stakers <- MCOne
    Value <- MCValue
    Winners <- MCWinOne
    ProofOf <- MCProofOf
    HashOf <- MCHashOf
    TimeOf <- MCTimeOf
    PolicySet <- MCSure
    MaxLate = 1
    MaxHeight = 2
    MaxReorgs = 1
    Nobody = Nobody
INVARIANT OutcomesTrue
INVARIANT OneAwardPerBlock
