CONSTANTS
    s1 = s1
    def = def  boost = boost
    binder = binder  channel = channel  Worker = worker
    BoostSessions <- MCOneSession
    Votes <- MCVotes
    DefaultVote = def
    BoostVotes <- MCBoostVotes
    Threads <- MCThreads
    Deadlines = {1, 2}
    MaxTime = 2
    MaxIds = 3
SPECIFICATION Spec
INVARIANT UniquePackageIds
CHECK_DEADLOCK FALSE
