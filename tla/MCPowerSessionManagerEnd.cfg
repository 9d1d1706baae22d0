CONSTANTS
    s1 = s1  s2 = s2  t1 = t1  t2 = t2
    binder = binder  channel = channel
    default = default  loadUp = loadUp  gpuLoadUp = gpuLoadUp  gpuCapacity = gpuCapacity
    Sessions = {s1}
    Tasks = {t1}
    Binder = binder
    Channels = {channel}
    CpuVotes = {default, loadUp}
    GpuVotes = {gpuCapacity}
    DefaultVote = default
    BoostVotes = {loadUp}
    Levels = {1}
    Durations = {1}
    Janks = {TRUE, FALSE}
    Mortal = {t1}
    Losable = {default, loadUp}
    MaxTime = 2
    MaxCalls = 3
SPECIFICATION Spec
CHECK_DEADLOCK FALSE
PROPERTIES
    BoostsEnd
