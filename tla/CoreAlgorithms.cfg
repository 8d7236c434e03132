SPECIFICATION CoreSpec
CONSTANTS
    LimbBits = 2
    ByteBits = 1
    None = None
    TimeBits = 3
    MaxAgeWeight = 5
    CoinUnit = 2
    AgeUnit = 2
    MaxValue = 3
    AskedBits <- MCBits
    Starts = {0, 3}
    Unasked = Unasked
    Octets = 4
    HexBase = 2
    W16 = 1
    W32 = 2
    W64 = 4
    HashLen = 2
    UsizeOctets = 3
    Malformed = Malformed
    Txs <- MCTxs
    ScriptOf <- MCScriptOf
    SigScripts <- MCSigScripts
    Headers <- MCHeaders
    Txids = {1, 2}
    MaxTxids = 7
    Heights <- MCHeights
    Modifiers <- MCModifiers
    Texts <- MCTexts
    ByteStrings <- MCByteStrings
    WalletSeeds = {0, 1}
    Entropies <- MCEntropies
    Phrases <- MCPhrases
    AddrBytes = 8
    Radix = 3
    SecretLen = 1
    KeyHashLen = 2
    Main = Main
    Test = Test
    PubkeyVersion <- MCPubkeyVersion
    SecretVersion <- MCSecretVersion
    CheckLen = 1
    Checksum <- MCChecksum
    Rejected = Rejected
    MaxText = 8
    MaxBytes = 4
    HardBit = 4
    Purpose = 2
    CoinType <- MCCoinType
    KeyHash <- MCKeyHash
    PhraseBits = 2
    UnitBits = 8
    WordBits = 3
    WordCounts = {3, 6}
    EntropyHash <- MCEntropyHash
    Invalid = Invalid
    MaxCoins = 3
    Hints = {2, 12, 15, 40, 120}
    TrueValues = {2, 12, 15, 40}
    Amounts = {0, 1, 5, 7, 8, 13, 22, 24, 126}
    BaseSize = 1
    InputSize = 4
    OutputSize = 1
    FeeRate = 1
    FastMultiple = 2
    FeeCap = 16
    Dust = 2
    I64Max = 127
    Unverified = Unverified
    Limit = 2
    Window = 3
    MaxNow = 9
INVARIANT KernelExact
INVARIANT ParserExact
INVARIANT SighashExact
INVARIANT BlockCommits
INVARIANT HexCopiesAgree
INVARIANT KeyTextExact
INVARIANT WatchedIsSpendable
INVARIANT PhraseExact
INVARIANT NothingBurned
INVARIANT RefusalsTrue
INVARIANT AtMostTwiceLimit
INVARIANT RefusedOnlyOverLimit
CHECK_DEADLOCK FALSE
