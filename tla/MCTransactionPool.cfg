SPECIFICATION FairSpec
CONSTANTS
    Trx = {"t1", "t2"}
    Expiration <- SameExpiration
    Deferred = {"d"}
    Creator <- CreatedByFirst
    Requests = {"r1", "r2"}
    TrxOf <- BringsItsOwn
    Persist = {"r2"}
    MaxTime = 2
    Contents <- Contained
    MaxBlocks = 3
INVARIANTS AppliedOnce AnsweredOnce
PROPERTIES NothingLost EventuallyAnswered
