SPECIFICATION Spec
CONSTANTS
    LimbBits = 2
    ByteBits = 1
    None = None
    TimeBits = 3
    MaxAgeWeight = 5
    CoinUnit = 2
    AgeUnit = 2
    MaxValue = 3
    c1 = c1
    c2 = c2
    c3 = c3
    s1 = s1
    s2 = s2
    Coins <- MCCoins
    Value <- MCValue
    Start <- MCStart
    Stakers = {s1, s2}
    Owner <- MCOwner
    Modifiers = {0, 1, 2}
    StakeHash <- MCStakeHash
    Tips <- MCTips
    Ahead = 2
    MaxTipAge = 3
    MinAge = 2
    NoTick = NoTick
INVARIANT WinTimesSound
INVARIANT EarliestOfAll
INVARIANT WinsVerify
