SPECIFICATION Spec
CONSTANTS
    mine = mine
    spare = spare
    theirs = theirs
    padded = padded
    typo = typo
    NoScript = NoScript
    Txs <- MCTxs
    Addresses <- MCAddresses
    Strings <- MCStrings
    Script <- MCScript
    Watched <- MCWatched
    Fed = {1, 2}
    Limit = 2
    MaxHeight = 2
    MaxReads = 1
    Unread = Unread
INVARIANT OverviewExact
INVARIANT BalanceAddsUp
 
