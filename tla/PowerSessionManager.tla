------------------------ MODULE PowerSessionManager ------------------------
(***************************************************************************)
(* What the ADPF sessions do to threads and to the GPU                     *)
(* (PowerHintSession.cpp, PowerSessionManager.cpp, UClampVoter.cpp in      *)
(* power-libperfmgr/aidl).                                                 *)
(*                                                                         *)
(* A call on a session holds the session's mPowerHintSessionLock to its    *)
(* end and consists of several sections under mSessionTaskMapMutex; the    *)
(* sections of different calls interleave.  A call is a job, the sequence  *)
(* of its sections still to come, and every section is one action.  The    *)
(* clock is read outside the mutex: a section may use any time between the *)
(* end of the one before it and now.                                       *)
(*                                                                         *)
(* The session/thread mapping is the relation of SessionLinks, which       *)
(* SessionTaskMap is proved to implement.  The queue of timeout events is  *)
(* left to VoteTimeouts: here the worker may retire any vote whose timeout *)
(* has passed and whose event was not lost.  An event is lost when two     *)
(* schedule() calls overlap, which takes two votes in force, the other     *)
(* thread's or the one the worker requeues.  uclampMax is not modelled: in *)
(* the end a thread's uclampMin is the boost it gets.                      *)
(***************************************************************************)
EXTENDS Integers, Sequences, FiniteSetsExt

CONSTANTS Sessions,     \* session ids, each used once (++sSessionIDCounter)
          Tasks,        \* thread ids
          Binder,       \* the HAL's binder thread
          Channels,     \* threads of the channel groups
          CpuVotes, GpuVotes,
          DefaultVote,  \* CPU_VOTE_DEFAULT
          BoostVotes,   \* votes that disableBoosts switches off
          Levels,       \* uclampMin or GPU capacity of a vote
          Durations,    \* durations of a vote
          Janks,        \* janky levels a report may find: subset of BOOLEAN
          Mortal,       \* threads that may exit
          Losable,      \* votes whose timeout event may be lost
          MaxTime,      \* bound of the clock; timeouts are cut off there
          MaxCalls      \* number of calls the clients make

ASSUME ManagerAssumption ==
    /\ Binder \notin Channels
    /\ CpuVotes \cap GpuVotes = {}
    /\ DefaultVote \in CpuVotes
    /\ BoostVotes \subseteq (CpuVotes \cup GpuVotes) \ {DefaultVote}
    /\ Levels \subseteq Nat
    /\ Durations \subseteq Nat
    /\ Janks \subseteq BOOLEAN
    /\ Losable \subseteq CpuVotes \cup GpuVotes
    /\ MaxTime \in Nat

Threads == {Binder} \cup Channels

Votes == CpuVotes \cup GpuVotes

VARIABLES now, calls,
          session,      \* PowerHintSession: [state, is_active, thread_ids]
          known,        \* sessions in mSessionTaskMap
          isActive, rampupBoostActive, vote, links,  \* what the map holds on them
          alive,
          uclamp,       \* uclampMin last set on each thread
          profile,      \* TRUE: thread has a SCHED_QOS_SENSITIVE profile
          rampup,       \* TRUE: thread has the high ramp-up multiplier
          gpu,          \* capacity last written to the GPU node
          job,          \* call under way on each thread
          wk,           \* the worker: busy between the two sections of handleEvent;
                        \* tNow, when idle, is when it was last busy
          lost          \* votes in force that have no timeout event any more

manager == <<known, isActive, rampupBoostActive, vote, links>>
effects == <<uclamp, profile, rampup, gpu>>
vars == <<now, calls, session, manager, alive, effects, job, wk, lost>>

\* No vote, or one that was switched off: its times and its level are not read
\* again before voteSet replaces them.
NoVote == [active |-> FALSE, start |-> 0, timeout |-> 0, level |-> 0]

ASession == CHOOSE s \in Sessions : TRUE

Idle == [s |-> ASession, todo |-> <<>>, since |-> 0, added |-> {}, removed |-> {}]

WorkerIdle == [busy |-> FALSE, s |-> ASession, tNow |-> 0]

Init ==
    /\ now = 0
    /\ calls = 0
    /\ session = [s \in Sessions |->
                    [state |-> "none", is_active |-> TRUE, thread_ids |-> {}]]
    /\ known = {}
    /\ isActive = [s \in Sessions |-> FALSE]
    /\ rampupBoostActive = [s \in Sessions |-> FALSE]
    /\ vote = [s \in Sessions |-> [v \in Votes |-> NoVote]]
    /\ links = {}
    /\ alive = Tasks
    /\ uclamp = [t \in Tasks |-> 0]
    /\ profile = [t \in Tasks |-> FALSE]
    /\ rampup = [t \in Tasks |-> FALSE]
    /\ gpu = 0
    /\ job = [th \in Threads |-> Idle]
    /\ wk = WorkerIdle
    /\ lost = {}
-----------------------------------------------------------------------------
\* What the votes amount to.

TasksOf(s) == {t \in Tasks : <<s, t>> \in links}

Linked(l) == {t \in Tasks : \E s \in Sessions : <<s, t>> \in l}

VotesInForce(vt) == {p \in Sessions \X Votes : vt[p[1]][p[2]].active}

isTimeInRange(w, t) == w.active /\ w.start =< t /\ t =< w.timeout

\* Levels of the CPU votes that count for a thread at time t.
Counting(vt, task, t) ==
    {vt[p[1]][p[2]].level : p \in {q \in Sessions \X CpuVotes :
        /\ <<q[1], task>> \in links
        /\ isActive[q[1]]
        /\ isTimeInRange(vt[q[1]][q[2]], t)}}

\* The boost of a thread: the largest uclampMin of the votes in range.
getTaskVoteRange(vt, task, t) == Max({0} \cup Counting(vt, task, t))

\* Sum of a session's GPU votes in range.
getGpuCapacityRequest(w, t) ==
    MapThenSumSet(LAMBDA v : w[v].level, {v \in GpuVotes : isTimeInRange(w[v], t)})

\* isActive is not looked at.
getSessionsGpuCapacity(vt, t) ==
    Max({0} \cup {getGpuCapacityRequest(vt[s], t) : s \in known})

\* Threads that are gone (ESRCH) lose their link to the session.
applyUclampLocked(s, t, vt) ==
    IF s \notin known THEN UNCHANGED <<uclamp, links>>
    ELSE /\ uclamp' = [x \in Tasks |-> IF x \in TasksOf(s) \cap alive
                                       THEN getTaskVoteRange(vt, x, t) ELSE uclamp[x]]
         /\ links' = links \ ({s} \X (Tasks \ alive))

applyGpuVotesLocked(s, t, vt) ==
    gpu' = IF s \in known THEN getSessionsGpuCapacity(vt, t) ELSE gpu

\* Threads of s that no other session boosts get the new multiplier.
voteRampupBoostLocked(s, on) ==
    rampup' = [x \in Tasks |->
        IF /\ x \in TasksOf(s) \cap alive
           /\ ~\E o \in Sessions \ {s} : <<o, x>> \in links /\ rampupBoostActive[o]
        THEN on ELSE rampup[x]]
-----------------------------------------------------------------------------
\* The sections a call is made of.  A call on a session finds the session in the
\* map, because removePowerSession runs under the same lock; the early returns for
\* an unknown session are left out.

At(th, op) == job[th].todo # <<>> /\ Head(job[th].todo).op = op

Proceed(th, rest) ==
    job' = [job EXCEPT ![th] = IF rest = <<>> THEN Idle
                               ELSE [@ EXCEPT !.todo = rest, !.since = now]]

Rest(th) == Tail(job[th].todo)

add(th) ==
    LET s == job[th].s
    IN  /\ At(th, "add")
        /\ known' = known \cup {s}
        /\ isActive' = [isActive EXCEPT ![s] = TRUE]
        /\ Proceed(th, Rest(th))
        /\ UNCHANGED <<now, calls, session, rampupBoostActive, vote, links, alive, effects, wk, lost>>

forceSessionActive(th) ==
    LET s == job[th].s
    IN  /\ At(th, "force")
        /\ isActive' = [isActive EXCEPT ![s] = Head(job[th].todo).on]
        /\ Proceed(th, Rest(th))
        /\ UNCHANGED <<now, calls, session, known, rampupBoostActive, vote, links, alive,
                       effects, wk, lost>>

applyCpuAndGpuVotes(th) ==
    \E t \in job[th].since..now :
        /\ At(th, "apply")
        /\ applyUclampLocked(job[th].s, t, vote)
        /\ applyGpuVotesLocked(job[th].s, t, vote)
        /\ Proceed(th, Rest(th))
        /\ UNCHANGED <<now, calls, session, known, isActive, rampupBoostActive, vote, alive,
                       profile, rampup, wk, lost>>

\* The relation after replace, and the section itself; remove is replace with no
\* threads followed by the removal of the session and all it holds.
Replaced(s, T) == {p \in links : p[1] # s} \cup ({s} \X T)

\* Mutation of replace: threads that other sessions have are removed as well.
ReplaceForgetsOthers(th) ==
    LET s == job[th].s
        T == Head(job[th].todo).threads
    IN  /\ At(th, "replace")
        /\ links' = Replaced(s, T)
        /\ job' = [job EXCEPT ![th].todo = Rest(th), ![th].since = now,
                              ![th].added = Linked(links') \ Linked(links),
                              ![th].removed = TasksOf(s) \ T]
        /\ UNCHANGED <<now, calls, session, known, isActive, rampupBoostActive, vote, alive,
                       effects, wk, lost>>

replace(th) ==
    LET s == job[th].s
        T == Head(job[th].todo).threads
    IN  /\ At(th, "replace")
        /\ links' = Replaced(s, T)
        /\ job' = [job EXCEPT ![th].todo = Rest(th), ![th].since = now,
                              ![th].added = Linked(links') \ Linked(links),
                              ![th].removed = Linked(links) \ Linked(links')]
        /\ UNCHANGED <<now, calls, session, known, isActive, rampupBoostActive, vote, alive,
                       effects, wk, lost>>

remove(th) ==
    LET s == job[th].s
    IN  /\ At(th, "remove")
        /\ links' = Replaced(s, {})
        /\ known' = known \ {s}
        /\ vote' = [vote EXCEPT ![s] = [v \in Votes |-> NoVote]]
        /\ lost' = lost \cap VotesInForce(vote')
        /\ rampupBoostActive' = [rampupBoostActive EXCEPT ![s] = FALSE]
        /\ job' = [job EXCEPT ![th].todo = Rest(th), ![th].since = now,
                              ![th].removed = Linked(links) \ Linked(links')]
        /\ UNCHANGED <<now, calls, session, isActive, alive, effects, wk>>

\* The loops over addedThreads and removedThreads, outside the mutex.
SetTaskProfiles(th) ==
    /\ At(th, "profiles")
    /\ profile' = [t \in Tasks |-> profile[t] \/ t \in job[th].added \cap alive]
    /\ Proceed(th, Rest(th))
    /\ UNCHANGED <<now, calls, session, manager, alive, uclamp, rampup, gpu, wk, lost>>

ClearTaskProfiles(th) ==
    /\ At(th, "unprofile")
    /\ profile' = [t \in Tasks |-> profile[t] /\ t \notin job[th].removed \cap alive]
    /\ Proceed(th, Rest(th))
    /\ UNCHANGED <<now, calls, session, manager, alive, uclamp, rampup, gpu, wk, lost>>

\* An inactive session is not paused, and applyCpuAndGpuVotes is skipped.
managerPause(th) ==
    LET s == job[th].s
    IN  /\ At(th, "pause")
        /\ isActive' = [isActive EXCEPT ![s] = FALSE]
        /\ IF isActive[s] /\ rampupBoostActive[s]
           THEN /\ rampupBoostActive' = [rampupBoostActive EXCEPT ![s] = FALSE]
                /\ voteRampupBoostLocked(s, FALSE)
           ELSE UNCHANGED <<rampupBoostActive, rampup>>
        /\ Proceed(th, IF isActive[s] THEN Rest(th) ELSE Tail(Rest(th)))
        /\ UNCHANGED <<now, calls, session, known, vote, links, alive, uclamp, profile, gpu, wk, lost>>

managerResume(th) ==
    LET s == job[th].s
    IN  /\ At(th, "resume")
        /\ isActive' = [isActive EXCEPT ![s] = TRUE]
        /\ Proceed(th, IF isActive[s] THEN Tail(Rest(th)) ELSE Rest(th))
        /\ UNCHANGED <<now, calls, session, known, rampupBoostActive, vote, links, alive,
                       effects, wk, lost>>

shouldScheduleTimeout(w, deadline) == ~w.active \/ deadline < w.timeout

\* schedule(), after the section: the vote has an event again, unless it overlaps with
\* schedule() for another vote in force; then the event of one of the two is lost.
Scheduled(s, v) ==
    LET others == VotesInForce(vote) \ {<<s, v>>}
        losers == IF others = {} THEN {} ELSE (others \cup {<<s, v>>}) \cap (Sessions \X Losable)
    IN  lost' \in {(lost \ {<<s, v>>}) \cup l : l \in {{}} \cup {{p} : p \in losers}}

\* The vote starts at startTime, which the caller read, and is applied as of then.
voteSet(th) ==
    LET s == job[th].s
        v == Head(job[th].todo).vote
    IN  \E startTime \in job[th].since..now, level \in Levels, d \in Durations :
        LET vt == [vote EXCEPT ![s][v] = [active |-> TRUE, start |-> startTime,
                                          timeout |-> Min({startTime + d, MaxTime}),
                                          level |-> level]]
        IN  /\ At(th, "vote")
            /\ vote' = vt
            /\ IF shouldScheduleTimeout(vote[s][v], vt[s][v].timeout)
               THEN Scheduled(s, v) ELSE UNCHANGED lost
            /\ IF v \in CpuVotes
               THEN applyUclampLocked(s, startTime, vt) /\ UNCHANGED gpu
               ELSE applyGpuVotesLocked(s, startTime, vt) /\ UNCHANGED <<uclamp, links>>
            /\ Proceed(th, Rest(th))
            /\ UNCHANGED <<now, calls, session, known, isActive, rampupBoostActive, alive,
                           profile, rampup, wk>>

\* Nothing is applied here.
disableBoosts(th) ==
    LET s == job[th].s
    IN  /\ At(th, "disable")
        /\ vote' = [vote EXCEPT ![s] = [v \in Votes |->
                        IF v \in BoostVotes THEN NoVote ELSE @[v]]]
        /\ lost' = lost \cap VotesInForce(vote')
        /\ Proceed(th, Rest(th))
        /\ UNCHANGED <<now, calls, session, known, isActive, rampupBoostActive, links, alive,
                       effects, wk>>

updateDuration(th) ==
    LET s == job[th].s
    IN  \E d \in Durations :
        /\ At(th, "duration")
        /\ vote' = IF vote[s][DefaultVote].active
                   THEN [vote EXCEPT ![s][DefaultVote].timeout =
                            Min({vote[s][DefaultVote].start + d, MaxTime})]
                   ELSE vote
        /\ Proceed(th, Rest(th))
        /\ UNCHANGED <<now, calls, session, known, isActive, rampupBoostActive, links, alive,
                       effects, wk, lost>>

updateRampupBoostMode(th) ==
    LET s == job[th].s
    IN  \E jank \in Janks :
        LET on == isActive[s] /\ jank
        IN  /\ At(th, "rampup")
            /\ rampupBoostActive' = [rampupBoostActive EXCEPT ![s] = on]
            /\ IF on # rampupBoostActive[s] THEN voteRampupBoostLocked(s, on)
                                           ELSE UNCHANGED rampup
            /\ Proceed(th, Rest(th))
            /\ UNCHANGED <<now, calls, session, known, isActive, vote, links, alive,
                           uclamp, profile, gpu, wk, lost>>

\* The clock is read under the mutex.  Without a change of the mode nothing is
\* applied.
setPreferPowerEfficiency(th) ==
    /\ At(th, "efficiency")
    /\ \/ applyUclampLocked(job[th].s, now, vote)
       \/ UNCHANGED <<uclamp, links>>
    /\ Proceed(th, Rest(th))
    /\ UNCHANGED <<now, calls, session, known, isActive, rampupBoostActive, vote, alive,
                   profile, rampup, gpu, wk, lost>>
-----------------------------------------------------------------------------
\* The sections of a call, in order.

Force(b) == [op |-> "force", on |-> b]

Op(name) == [op |-> name]

Vote(v) == [op |-> "vote", vote |-> v]

setThreadsFromPowerSession(T) ==
    << Force(FALSE), Op("apply"), [op |-> "replace", threads |-> T],
       Op("profiles"), Op("unprofile"), Force(TRUE), Op("apply") >>

\* Mutation of removePowerSession: no forceSessionActive.
RemoveWithoutForce == << Op("remove"), Op("unprofile") >>

removePowerSession == << Force(FALSE), Op("apply"), Op("remove"), Op("unprofile") >>

Busy(s) == \E th \in Threads : job[th].todo # <<>> /\ job[th].s = s

Call(th, s, todo) ==
    /\ calls < MaxCalls
    /\ job[th].todo = <<>>
    /\ ~Busy(s)
    /\ calls' = calls + 1
    /\ job' = [job EXCEPT ![th] = [s |-> s, todo |-> todo, since |-> now,
                                   added |-> {}, removed |-> {}]]
    /\ UNCHANGED <<now, manager, alive, effects, wk, lost>>

\* The constructor, from createHintSessionWithConfig; CPU_LOAD_RESET is its boost.
createHintSession(th, s) ==
    \E T \in SUBSET Tasks \ {{}}, v \in BoostVotes \cap CpuVotes :
        /\ session[s].state = "none"
        /\ session' = [session EXCEPT ![s].state = "open", ![s].thread_ids = T]
        /\ Call(th, s, <<Op("add")>> \o setThreadsFromPowerSession(T)
                        \o <<Vote(v), Vote(DefaultVote)>>)

pause(th, s) ==
    /\ session[s].state = "open" /\ session[s].is_active
    /\ session' = [session EXCEPT ![s].is_active = FALSE]
    /\ Call(th, s, <<Op("pause"), Op("apply")>> \o setThreadsFromPowerSession({}))

resume(th, s) ==
    /\ session[s].state = "open" /\ ~session[s].is_active
    /\ session' = [session EXCEPT ![s].is_active = TRUE]
    /\ Call(th, s, setThreadsFromPowerSession(session[s].thread_ids)
                    \o <<Op("resume"), Op("apply")>>)

close(th, s) ==
    /\ session[s].state = "open"
    /\ session' = [session EXCEPT ![s].state = "closed", ![s].is_active = FALSE,
                                    ![s].thread_ids = {}]
    /\ Call(th, s, removePowerSession)

setThreads(th, s) ==
    \E T \in SUBSET Tasks \ {{}} :
        /\ session[s].state = "open"
        /\ session' = [session EXCEPT ![s].thread_ids = T]
        /\ Call(th, s, setThreadsFromPowerSession(T) \o <<Vote(DefaultVote)>>)

updateTargetWorkDuration(th, s) ==
    /\ session[s].state = "open"
    /\ Call(th, s, <<Op("duration")>>)
    /\ UNCHANGED session

\* With and without heuristic boost, and with and without a GPU_CAPACITY vote.
reportActualWorkDuration(th, s) ==
    \E heuristic \in {<<>>, <<Op("rampup")>>},
       capacity \in {<<>>} \cup {<<Vote(v)>> : v \in GpuVotes \ BoostVotes} :
        /\ session[s].state = "open" /\ session[s].is_active
        /\ Call(th, s, <<Op("disable")>> \o heuristic \o <<Vote(DefaultVote)>> \o capacity)
        /\ UNCHANGED session

\* CPU_LOAD_DOWN; CPU_LOAD_UP; CPU_LOAD_RESET, CPU_LOAD_RESUME and GPU_LOAD_UP;
\* POWER_EFFICIENCY, which is setMode.
sendHint(th, s) ==
    \E todo \in {<<Vote(DefaultVote)>>, <<Op("efficiency")>>}
                \cup {<<Vote(DefaultVote), Vote(v)>> : v \in BoostVotes \cap CpuVotes}
                \cup {<<Vote(v)>> : v \in BoostVotes} :
        /\ session[s].state = "open"
        /\ Call(th, s, todo)
        /\ UNCHANGED session

\* Over a channel come hints, durations and modes; the last reference to a session
\* may be a channel thread's, whose destructor then closes it.
Calls(th, s) ==
    \/ th = Binder /\ (createHintSession(th, s) \/ pause(th, s) \/ resume(th, s)
                        \/ setThreads(th, s))
    \/ close(th, s)
    \/ updateTargetWorkDuration(th, s)
    \/ reportActualWorkDuration(th, s)
    \/ sendHint(th, s)

Section(th) ==
    \/ add(th) \/ forceSessionActive(th) \/ applyCpuAndGpuVotes(th)
    \/ replace(th) \/ remove(th) \/ SetTaskProfiles(th) \/ ClearTaskProfiles(th)
    \/ managerPause(th) \/ managerResume(th)
    \/ voteSet(th) \/ disableBoosts(th) \/ updateDuration(th)
    \/ updateRampupBoostMode(th) \/ setPreferPowerEfficiency(th)
-----------------------------------------------------------------------------
\* handleEvent: the section that retires a vote, and the one that applies the rest
\* as of the time read before the first.
RetireVote ==
    \E s \in known, v \in Votes : \E tNow \in wk.tNow..now :
        /\ ~wk.busy
        /\ vote[s][v].active /\ <<s, v>> \notin lost
        /\ vote[s][v].timeout =< tNow
        /\ vote' = [vote EXCEPT ![s][v] = NoVote]
        /\ wk' = [busy |-> TRUE, s |-> s, tNow |-> tNow]
        /\ UNCHANGED <<now, calls, session, known, isActive, rampupBoostActive, links, alive,
                       effects, job, lost>>

\* Mutation of ApplyAfterRetirement: recalcUclamp is not set.
RetirementNotApplied ==
    /\ wk.busy
    /\ wk' = [WorkerIdle EXCEPT !.tNow = now]
    /\ UNCHANGED <<now, calls, session, manager, alive, effects, job, lost>>

ApplyAfterRetirement ==
    /\ wk.busy
    /\ applyUclampLocked(wk.s, wk.tNow, vote)
    /\ applyGpuVotesLocked(wk.s, wk.tNow, vote)
    /\ wk' = [WorkerIdle EXCEPT !.tNow = now]
    /\ UNCHANGED <<now, calls, session, known, isActive, rampupBoostActive, vote, alive,
                   profile, rampup, job, lost>>

handleEvent == RetireVote \/ ApplyAfterRetirement

Exit(t) ==
    /\ t \in alive
    /\ alive' = alive \ {t}
    /\ UNCHANGED <<now, calls, session, manager, effects, job, wk, lost>>

Tick ==
    /\ now < MaxTime
    /\ now' = now + 1
    /\ UNCHANGED <<calls, session, manager, alive, effects, job, wk, lost>>

Next ==
    \/ \E th \in Threads : (\E s \in Sessions : Calls(th, s)) \/ Section(th)
    \/ handleEvent
    \/ \E t \in Mortal : Exit(t)
    \/ Tick

\* A call that was begun is finished, the worker runs, time passes.
Fairness ==
    /\ \A th \in Threads : WF_vars(Section(th))
    /\ WF_vars(handleEvent)
    /\ WF_vars(Tick)

Spec == Init /\ [][Next]_vars /\ Fairness
-----------------------------------------------------------------------------
\* The type of the state; only sessions in the map have threads, and a thread's
\* boost is always one of the levels voted for.
TypeOK ==
    /\ now \in 0..MaxTime
    /\ calls \in 0..MaxCalls
    /\ session \in [Sessions -> [state : {"none", "open", "closed"}, is_active : BOOLEAN,
                                 thread_ids : SUBSET Tasks]]
    /\ known \subseteq Sessions
    /\ isActive \in [Sessions -> BOOLEAN]
    /\ rampupBoostActive \in [Sessions -> BOOLEAN]
    /\ vote \in [Sessions -> [Votes -> [active : BOOLEAN, start : 0..MaxTime,
                                       timeout : 0..MaxTime, level : Levels \cup {0}]]]
    /\ links \subseteq known \X Tasks
    /\ alive \subseteq Tasks
    /\ uclamp \in [Tasks -> Levels \cup {0}]
    /\ profile \in [Tasks -> BOOLEAN]
    /\ rampup \in [Tasks -> BOOLEAN]
    /\ gpu \in Nat
    /\ \A th \in Threads : /\ job[th].s \in Sessions
                           /\ job[th].since \in 0..now
                           /\ job[th].added \cup job[th].removed \subseteq Tasks
    /\ wk \in [busy : BOOLEAN, s : Sessions, tNow : 0..now]
    /\ lost \subseteq VotesInForce(vote)

AtRest == (\A th \in Threads : job[th].todo = <<>>) /\ ~wk.busy

\* Votes that have not been retired, of active sessions that have the thread.
InForce(t) ==
    {vote[p[1]][p[2]].level : p \in {q \in Sessions \X CpuVotes :
        <<q[1], t>> \in links /\ isActive[q[1]] /\ vote[q[1]][q[2]].active}}

\* When no call is under way, no thread is boosted beyond the votes in force for it,
\* and a thread that belongs to no active session is not boosted at all, however
\* pause, close, setThreads, reports and timeouts of the sessions that share it
\* interleaved.
NoLeftoverBoost ==
    AtRest => \A t \in alive : uclamp[t] =< Max({0} \cup InForce(t))

\* When no call is under way, a thread that belongs to no session has the default
\* task profile again (SCHED_QOS_NONE), though SetTaskProfiles is called outside
\* the mutex.
UnlinkedUnprofiled ==
    AtRest => \A t \in alive \ Linked(links) : ~profile[t]

\* Nothing of a session outlives it on its threads when no call is under way: no
\* boost beyond the votes in force, no task profile without a session, and no
\* thread linked to a session that was removed.
NothingLeftOver == TypeOK /\ NoLeftoverBoost /\ UnlinkedUnprofiled

\* Calls made by the binder thread alone leave every thread of a session with a
\* profile, also when the sessions that share it come and go.
LinkedProfiled ==
    AtRest => \A t \in alive \cap Linked(links) : profile[t]

\* When the clients have fallen silent the boost of a thread is withdrawn in the end,
\* unless a session that has it has a vote in force whose timeout event was lost: the
\* worker retires each other vote and applies what is left.
BoostsEnd ==
    \A t \in Tasks :
        calls = MaxCalls ~> \/ t \notin alive \/ uclamp[t] = 0
                           \/ \E p \in lost : <<p[1], t>> \in links

\* PowerSessionManager.cpp:502, "It is important to use the correct time here":
\* when no call is under way, a thread has at least the boost of every vote that is
\* in range now.
BoostsApplied ==
    AtRest => \A s \in known, t \in alive, v \in CpuVotes :
        <<s, t>> \in links /\ isActive[s] /\ isTimeInRange(vote[s][v], now)
            => vote[s][v].level =< uclamp[t]

\* PowerSessionManager.cpp:155-157, "To remove a session we also need to undo the
\* effects the session has on currently enabled votes": when every session is gone
\* the GPU is asked for nothing.
GpuVotesUndone == AtRest /\ known = {} => gpu = 0
=============================================================================
