SPECIFICATION Spec
CONSTANTS
    small = small
    large = large
    foreign = foreign
    mine = mine
    theirs = theirs
    older = older
    rival = rival
    newer = newer
    Empty = Empty
    NullOut = NullOut
    NoNotice = NoNotice
    NoTemplate = NoTemplate
    Coins <- MCCoins
    Own <- MCOwn
    Value <- MCValue
    Scripts = {mine, theirs}
    ScriptOf <- MCScriptOf
    Blocks = {older, rival, newer}
    HeightOf <- MCHeightOf
    Amounts = {1, 3}
    Coinstakes <- MCCoinstakes
    I64Max = 3
    MaxMoney = 3
    MaxSigned = 1
INVARIANT PrincipalSafe
INVARIANT SignedStakesPayBack
INVARIANT HonestWinSigned
