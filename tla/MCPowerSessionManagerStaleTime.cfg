CONSTANTS
    s1 = s1  s2 = s2  t1 = t1  t2 = t2
    binder = binder  channel = channel
    default = default  loadUp = loadUp  gpuLoadUp = gpuLoadUp  gpuCapacity = gpuCapacity
    Sessions = {s1, s2}
    Tasks = {t1}
    Binder = binder
    Channels = {channel}
    CpuVotes = {default, loadUp}
    GpuVotes = {}
    DefaultVote = default
    BoostVotes = {loadUp}
    Levels = {1, 2}
    Durations = {1, 2}
    Janks = {FALSE}
    Mortal = {}
    Losable = {}
    MaxTime = 3
    MaxCalls = 4
SPECIFICATION Spec
CHECK_DEADLOCK FALSE
INVARIANTS
    BoostsApplied
