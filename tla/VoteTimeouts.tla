---------------------------- MODULE VoteTimeouts ----------------------------
(***************************************************************************)
(* How an ADPF vote is retired.  voteSet stores a vote of a session with   *)
(* its timeout and, when no timeout event is due by then, schedules one on *)
(* the worker "adpf_handler"; handleEvent retires the vote or requeues the *)
(* event (PowerSessionManager.cpp, BackgroundWorker.h, BackgroundWorker.cpp*)
(* in power-libperfmgr/aidl).                                              *)
(*                                                                         *)
(* TemplatePriorityQueueWorker::schedule stores the package under mMutex   *)
(* and reads mPackageIdCounter again after the unlock, so it is three      *)
(* steps here.  voteSet calls it with mSessionTaskMapMutex released, the   *)
(* handler while it holds that mutex.  A thread works on a session under   *)
(* that session's mPowerHintSessionLock, schedule included.                *)
(*                                                                         *)
(* What a vote asks for, and its effect on threads and GPU, is the subject *)
(* of PowerSessionManager.                                                 *)
(***************************************************************************)
EXTENDS Integers, FiniteSets

CONSTANTS BoostSessions,     \* session ids, each used once (++sSessionIDCounter)
          Votes,        \* vote ids (AdpfVoteType)
          DefaultVote,  \* CPU_VOTE_DEFAULT, the one updateTargetWorkDuration changes
          BoostVotes,   \* the ones disableBoosts switches off
          Threads,      \* binder thread and channel group threads
          Worker,       \* the pool's only thread
          Deadlines,    \* values of startTime + durationNs
          MaxTime,      \* bound of the clock
          MaxIds        \* clients stop voting when this many packages were made

Schedulers == Threads \cup {Worker}

Events == [s : BoostSessions, v : Votes]

ASSUME TimeoutsAssumption ==
    /\ BoostSessions # {}
    /\ DefaultVote \in Votes
    /\ BoostVotes \subseteq Votes \ {DefaultVote}
    /\ Worker \notin Threads
    /\ MaxTime \in Nat
    /\ MaxIds \in Nat
    /\ Deadlines \subseteq 0..MaxTime

VARIABLES now,
          live, closed,       \* sessions in mSessionTaskMap, and removed ones
          vote,               \* [active, timeout] of every vote
          mPackageIdCounter, mPackages,
          mPackageQueue,      \* entries [deadline, id]
          sch,                \* progress of each thread in schedule()
          wk,                 \* progress of the worker
          overlapped          \* two schedule() calls overlapped, see Emplace

vars == <<now, live, closed, vote, mPackageIdCounter, mPackages, mPackageQueue,
          sch, wk, overlapped>>

packages == <<mPackageIdCounter, mPackages, mPackageQueue>>

\* Without a vote voteIsActive is false, like for one that was switched off.
NoVote == [active |-> FALSE, timeout |-> 0]

AnEvent == CHOOSE e \in Events : TRUE

NotScheduling == [at |-> "idle", ev |-> AnEvent, deadline |-> 0, id |-> 0]

WorkerIdle == [at |-> "idle", id |-> 0, ev |-> AnEvent, t |-> 0]

Init ==
    /\ now = 0
    /\ live = {}
    /\ closed = {}
    /\ vote = [s \in BoostSessions |-> [v \in Votes |-> NoVote]]
    /\ mPackageIdCounter = 0
    /\ mPackages = [i \in {} |-> AnEvent]
    /\ mPackageQueue = {}
    /\ sch = [k \in Schedulers |-> NotScheduling]
    /\ wk = WorkerIdle
    /\ overlapped = FALSE

\* Nobody holds mSessionTaskMapMutex: only the handler keeps it from one step
\* to the next, while it requeues an event.
MapMutexFree == sch[Worker].at = "idle"

\* Thread th may enter a call on session s: no other thread holds the session's
\* mPowerHintSessionLock.
MayCall(th, s) ==
    /\ sch[th].at = "idle"
    /\ \A o \in Threads : sch[o].at # "idle" => sch[o].ev.s # s
    /\ MapMutexFree
-----------------------------------------------------------------------------
\* Calls of PowerSessionManager.  On an unknown session they return early.

addPowerSession(th, s) ==
    /\ MayCall(th, s)
    /\ s \notin live \cup closed
    /\ live' = live \cup {s}
    /\ UNCHANGED <<now, closed, vote, packages, sch, wk, overlapped>>

removePowerSession(th, s) ==
    /\ MayCall(th, s)
    /\ s \in live
    /\ live' = live \ {s}
    /\ closed' = closed \cup {s}
    /\ UNCHANGED <<now, vote, packages, sch, wk, overlapped>>

\* Mutation of shouldScheduleTimeout: an inactive vote is not looked at.
ShouldScheduleEarlierOnly(w, deadline) == deadline < w.timeout

shouldScheduleTimeout(w, deadline) == ~w.active \/ deadline < w.timeout

\* startTime was read before the lock was taken, so the deadline may have passed.
voteSet(th, s, v, deadline) ==
    /\ MayCall(th, s)
    /\ s \in live
    /\ mPackageIdCounter < MaxIds
    /\ vote' = [vote EXCEPT ![s][v] = [active |-> TRUE, timeout |-> deadline]]
    /\ sch' = IF shouldScheduleTimeout(vote[s][v], deadline)
              THEN [sch EXCEPT ![th] = [at |-> "emplace", ev |-> [s |-> s, v |-> v],
                                        deadline |-> deadline, id |-> 0]]
              ELSE sch
    /\ UNCHANGED <<now, live, closed, packages, wk, overlapped>>

\* "Note, for now we are not recalculating": the vote's duration changes and
\* nothing is scheduled.
updateTargetWorkDuration(th, s, timeout) ==
    /\ MayCall(th, s)
    /\ s \in live
    /\ vote' = [vote EXCEPT ![s][DefaultVote].timeout = timeout]
    /\ UNCHANGED <<now, live, closed, packages, sch, wk, overlapped>>

disableBoosts(th, s) ==
    /\ MayCall(th, s)
    /\ s \in live
    /\ vote' = [vote EXCEPT ![s] = [v \in Votes |->
                    IF v \in BoostVotes THEN [@[v] EXCEPT !.active = FALSE] ELSE @[v]]]
    /\ UNCHANGED <<now, live, closed, packages, sch, wk, overlapped>>
-----------------------------------------------------------------------------
\* TemplatePriorityQueueWorker::schedule and PriorityQueueWorkerPool::schedule.

Emplace(k) ==
    /\ sch[k].at = "emplace"
    /\ mPackageIdCounter' = mPackageIdCounter + 1
    /\ mPackages' = [i \in DOMAIN mPackages \cup {mPackageIdCounter + 1} |->
                        IF i = mPackageIdCounter + 1 THEN sch[k].ev ELSE mPackages[i]]
    /\ sch' = [sch EXCEPT ![k].at = "read"]
    /\ overlapped' = (overlapped \/ \E o \in Schedulers \ {k} : sch[o].at = "read")
    /\ UNCHANGED <<now, live, closed, vote, mPackageQueue, wk>>

\* mPackageIdCounter is read without mMutex.
ReadCounter(k) ==
    /\ sch[k].at = "read"
    /\ sch' = [sch EXCEPT ![k] = [at |-> "enqueue", ev |-> sch[k].ev,
                                  deadline |-> sch[k].deadline, id |-> mPackageIdCounter]]
    /\ UNCHANGED <<now, live, closed, vote, packages, wk, overlapped>>

\* The queue is a set: a second entry with the same deadline and id would find
\* its package gone.
Enqueue(k) ==
    /\ sch[k].at = "enqueue"
    /\ mPackageQueue' = mPackageQueue \cup {[deadline |-> sch[k].deadline, id |-> sch[k].id]}
    /\ sch' = [sch EXCEPT ![k] = NotScheduling]
    /\ UNCHANGED <<now, live, closed, vote, mPackageIdCounter, mPackages, wk, overlapped>>

Schedule(k) == Emplace(k) \/ ReadCounter(k) \/ Enqueue(k)
-----------------------------------------------------------------------------
\* The worker: loop(), process(), handleEvent().

\* The earliest deadline comes first and is due.
Pop ==
    /\ wk.at = "idle"
    /\ MapMutexFree
    /\ \E e \in mPackageQueue :
        /\ \A f \in mPackageQueue : e.deadline =< f.deadline
        /\ e.deadline =< now
        /\ mPackageQueue' = mPackageQueue \ {e}
        /\ wk' = [wk EXCEPT !.at = "process", !.id = e.id]
    /\ UNCHANGED <<now, live, closed, vote, mPackageIdCounter, mPackages, sch, overlapped>>

\* A package that is not there is dropped.
Process ==
    /\ wk.at = "process"
    /\ \/ /\ wk.id \notin DOMAIN mPackages
          /\ wk' = WorkerIdle
          /\ UNCHANGED mPackages
       \/ /\ wk.id \in DOMAIN mPackages
          /\ wk' = [at |-> "event", id |-> 0, ev |-> mPackages[wk.id], t |-> now]
          /\ mPackages' = [i \in DOMAIN mPackages \ {wk.id} |-> mPackages[i]]
    /\ UNCHANGED <<now, live, closed, vote, mPackageIdCounter, mPackageQueue, sch, overlapped>>

\* Mutation of handleEvent: the vote is retired whatever its timeout.
HandleAlwaysRetires ==
    LET s == wk.ev.s
        v == wk.ev.v
    IN  /\ wk.at = "event"
        /\ wk' = WorkerIdle
        /\ vote' = IF s \in live THEN [vote EXCEPT ![s][v].active = FALSE] ELSE vote
        /\ UNCHANGED <<now, live, closed, packages, sch, overlapped>>

\* Mutation of handleEvent: the event is not requeued.
HandleNeverRequeues ==
    LET s == wk.ev.s
        v == wk.ev.v
    IN  /\ wk.at = "event"
        /\ wk' = WorkerIdle
        /\ vote' = IF s \in live /\ vote[s][v].timeout =< now
                   THEN [vote EXCEPT ![s][v].active = FALSE] ELSE vote
        /\ UNCHANGED <<now, live, closed, packages, sch, overlapped>>

\* tNow was read some time after process() and before the lock.
handleEvent ==
    LET s == wk.ev.s
        v == wk.ev.v
        w == vote[s][v]
    IN  \E tNow \in wk.t..now :
        /\ wk.at = "event"
        /\ wk' = WorkerIdle
        /\ \/ /\ s \notin live \/ ~w.active
              /\ UNCHANGED <<vote, sch>>
           \/ /\ s \in live /\ w.active /\ w.timeout =< tNow
              /\ vote' = [vote EXCEPT ![s][v].active = FALSE]
              /\ UNCHANGED sch
           \/ /\ s \in live /\ w.active /\ w.timeout > tNow
              /\ sch' = [sch EXCEPT ![Worker] = [at |-> "emplace", ev |-> wk.ev,
                                                 deadline |-> w.timeout, id |-> 0]]
              /\ UNCHANGED vote
        /\ UNCHANGED <<now, live, closed, packages, overlapped>>

WorkerStep == Pop \/ Process \/ handleEvent
-----------------------------------------------------------------------------

Tick ==
    /\ now < MaxTime
    /\ now' = now + 1
    /\ UNCHANGED <<live, closed, vote, packages, sch, wk, overlapped>>

Call(th) ==
    \E s \in BoostSessions :
        \/ addPowerSession(th, s)
        \/ removePowerSession(th, s)
        \/ \E v \in Votes, d \in Deadlines : voteSet(th, s, v, d)
        \/ \E d \in Deadlines : updateTargetWorkDuration(th, s, d)
        \/ disableBoosts(th, s)

Next ==
    \/ \E th \in Threads : Call(th)
    \/ \E k \in Schedulers : Schedule(k)
    \/ WorkerStep
    \/ Tick

\* A call that was begun is finished, the worker's thread runs, time passes.
Fairness ==
    /\ \A k \in Schedulers : WF_vars(Schedule(k))
    /\ WF_vars(WorkerStep)
    /\ WF_vars(Tick)

Spec == Init /\ [][Next]_vars /\ Fairness
-----------------------------------------------------------------------------
\* The type of the state; schedule() never hands the pool an id that was not given
\* out yet, and every package has one that was.
TypeOK ==
    /\ now \in 0..MaxTime
    /\ live \subseteq BoostSessions
    /\ closed \subseteq BoostSessions
    /\ vote \in [BoostSessions -> [Votes -> [active : BOOLEAN, timeout : 0..MaxTime]]]
    /\ mPackageIdCounter \in Nat
    /\ DOMAIN mPackages \subseteq 1..mPackageIdCounter
    /\ mPackages \in [DOMAIN mPackages -> Events]
    /\ mPackageQueue \subseteq [deadline : 0..MaxTime, id : 0..mPackageIdCounter]
    /\ sch \in [Schedulers -> [at : {"idle", "emplace", "read", "enqueue"}, ev : Events,
                               deadline : 0..MaxTime, id : 0..mPackageIdCounter]]
    /\ wk \in [at : {"idle", "process", "event"}, id : 0..mPackageIdCounter, ev : Events,
               t : 0..MaxTime]
    /\ overlapped \in BOOLEAN

\* Scheduler k is past Emplace and is about to put package i into the queue.
Carries(k, i) ==
    \/ sch[k].at = "read" /\ i = mPackageIdCounter
    \/ sch[k].at = "enqueue" /\ i = sch[k].id

\* An event for e will reach handleEvent, by deadline d or as soon as the worker
\* gets to it.
Pending(e, d) ==
    \/ \E k \in Schedulers : sch[k].at = "emplace" /\ sch[k].ev = e /\ sch[k].deadline =< d
    \/ \E i \in DOMAIN mPackages :
        /\ mPackages[i] = e
        /\ \/ \E k \in Schedulers : Carries(k, i) /\ sch[k].deadline =< d
           \/ \E q \in mPackageQueue : q.id = i /\ q.deadline =< d
           \/ wk.at = "process" /\ wk.id = i
    \/ wk.at = "event" /\ wk.ev = e

\* The deadline by which the event of a vote is due.
Due(s, v) == IF v = DefaultVote THEN MaxTime ELSE vote[s][v].timeout

\* Unless two schedule() calls overlapped, a vote in force always has a timeout
\* event under way, however voteSet, disableBoosts, updateTargetWorkDuration and
\* the handler interleave; the event is due no later than the vote's timeout,
\* except for the default vote, whose duration updateTargetWorkDuration may
\* shorten afterwards.
VotesCovered ==
    ~overlapped =>
        \A s \in live, v \in Votes : vote[s][v].active =>
            Pending([s |-> s, v |-> v], Due(s, v))

\* No vote in force is without its timeout event, and no id is used that
\* schedule() has not given out.
VotesAccounted == TypeOK /\ VotesCovered

\* The handler never switches a vote off before its timeout, though it looks at
\* the clock before it takes the lock and votes are extended meanwhile: only
\* disableBoosts, which is not the worker's, and the removal of the session may
\* end a vote early.
NoEarlyRetirement ==
    [][\A s \in live \cap live', v \in Votes :
        vote[s][v].active /\ ~vote'[s][v].active =>
            \/ vote[s][v].timeout =< now
            \/ v \in BoostVotes /\ UNCHANGED wk]_vars

\* A vote does not stay in force for ever: its timeout is handled, unless two
\* schedule() calls overlapped.
VotesRetired ==
    \A s \in BoostSessions, v \in Votes :
        vote[s][v].active ~> (overlapped \/ s \notin live \/ ~vote[s][v].active)

\* BackgroundWorker.h:122, "Counter is used as a unique identifier for work
\* packages": no two schedule() calls put the same id into the queue.
UniquePackageIds ==
    \A k, o \in Schedulers :
        sch[k].at = "enqueue" /\ sch[o].at = "enqueue" /\ k # o => sch[k].id # sch[o].id
=============================================================================
