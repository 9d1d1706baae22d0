------------------------- MODULE VoteTimeoutsProofs -------------------------
(***************************************************************************)
(* The safety properties of VoteTimeouts, for any number of sessions,      *)
(* votes and threads, any deadlines and any number of packages.            *)
(***************************************************************************)
EXTENDS VoteTimeouts, TLAPS

\* A session that was never added has no vote in force.
FreshInv ==
    \A s \in BoostSessions \ (live \cup closed), v \in Votes : ~vote[s][v].active

\* The worker does not process a package while it requeues another.
WorkerInv == wk.at # "idle" => sch[Worker].at = "idle"

IInv == TypeOK /\ FreshInv /\ WorkerInv /\ VotesCovered

\* The three ways in which an event can be under way, one by one.
InEmplace(e, d) ==
    \E k \in Schedulers : sch[k].at = "emplace" /\ sch[k].ev = e /\ sch[k].deadline =< d

Stored(i, e, d) ==
    /\ i \in DOMAIN mPackages
    /\ mPackages[i] = e
    /\ \/ \E k \in Schedulers : Carries(k, i) /\ sch[k].deadline =< d
       \/ \E q \in mPackageQueue : q.id = i /\ q.deadline =< d
       \/ wk.at = "process" /\ wk.id = i

InHandler(e) == wk.at = "event" /\ wk.ev = e

\* An event under way is in exactly the three places named above.
LEMMA PendingCases ==
    ASSUME NEW e, NEW d
    PROVE  Pending(e, d) <=> \/ InEmplace(e, d)
                             \/ \E i : Stored(i, e, d)
                             \/ InHandler(e)
  BY DEF Pending, InEmplace, Stored, InHandler
-----------------------------------------------------------------------------
\* There is an event to fill unused fields with.
LEMMA AnEventType == AnEvent \in Events
<1>1. PICK s \in BoostSessions : TRUE
  BY TimeoutsAssumption
<1>2. [s |-> s, v |-> DefaultVote] \in Events
  BY TimeoutsAssumption DEF Events
<1> QED BY <1>2 DEF AnEvent

\* The idle values of the schedulers and of the worker are well typed.
LEMMA IdleTypes ==
    ASSUME mPackageIdCounter \in Nat
    PROVE  /\ NotScheduling \in [at : {"idle", "emplace", "read", "enqueue"}, ev : Events,
                                 deadline : 0..MaxTime, id : 0..mPackageIdCounter]
           /\ NotScheduling.at = "idle"
           /\ WorkerIdle \in [at : {"idle", "process", "event"}, id : 0..mPackageIdCounter,
                              ev : Events, t : 0..MaxTime]
           /\ WorkerIdle.at = "idle"
  BY AnEventType, TimeoutsAssumption DEF NotScheduling, WorkerIdle

\* At start no session exists and no vote is in force.
LEMMA InitHasIInv == Init => IInv
<1> SUFFICES ASSUME Init PROVE IInv
  OBVIOUS
<1>1. mPackageIdCounter \in Nat
  BY DEF Init
<1>2. overlapped \in BOOLEAN
  BY Zenon DEF Init
<1>3. vote \in [BoostSessions -> [Votes -> [active : BOOLEAN, timeout : 0..MaxTime]]]
  BY TimeoutsAssumption DEF Init, NoVote
<1>4. TypeOK
  BY <1>1, <1>2, <1>3, IdleTypes, TimeoutsAssumption DEF Init, TypeOK
<1>5. FreshInv
  BY DEF Init, FreshInv, NoVote
<1>6. WorkerInv
  BY <1>1, IdleTypes DEF Init, WorkerInv
<1>7. VotesCovered
  BY DEF Init, VotesCovered
<1> QED BY <1>4, <1>5, <1>6, <1>7 DEF IInv

\* Types are kept by every step.
LEMMA StepKeepsTypeOK == TypeOK /\ [Next]_vars => TypeOK'
<1> SUFFICES ASSUME TypeOK, [Next]_vars PROVE TypeOK'
  OBVIOUS
<1> USE TimeoutsAssumption
<1>1. CASE UNCHANGED vars
  BY <1>1 DEF vars, TypeOK
<1>2. ASSUME NEW th \in Threads, Call(th)
      PROVE  TypeOK'
  <2>0. UNCHANGED <<now, packages, wk, overlapped>>
    BY <1>2 DEF Call, addPowerSession, removePowerSession, voteSet,
       updateTargetWorkDuration, disableBoosts
  <2>1. PICK s \in BoostSessions :
          \/ addPowerSession(th, s)
          \/ removePowerSession(th, s)
          \/ \E v \in Votes, d \in Deadlines : voteSet(th, s, v, d)
          \/ \E d \in Deadlines : updateTargetWorkDuration(th, s, d)
          \/ disableBoosts(th, s)
    BY <1>2 DEF Call
  <2>2. CASE addPowerSession(th, s)
    BY <2>2 DEF addPowerSession, packages, TypeOK
  <2>3. CASE removePowerSession(th, s)
    BY <2>3 DEF removePowerSession, packages, TypeOK
  <2>4. ASSUME NEW v \in Votes, NEW d \in Deadlines, voteSet(th, s, v, d)
        PROVE  TypeOK'
    <3>1. d \in 0..MaxTime
      OBVIOUS
    <3>2. vote' \in [BoostSessions -> [Votes -> [active : BOOLEAN, timeout : 0..MaxTime]]]
      BY <2>4, <3>1 DEF voteSet, TypeOK
    <3>3. sch' \in [Schedulers -> [at : {"idle", "emplace", "read", "enqueue"}, ev : Events,
                               deadline : 0..MaxTime, id : 0..mPackageIdCounter]]
      <4>1. [s |-> s, v |-> v] \in Events
        BY DEF Events
      <4>2. [at |-> "emplace", ev |-> [s |-> s, v |-> v], deadline |-> d, id |-> 0]
              \in [at : {"idle", "emplace", "read", "enqueue"}, ev : Events,
                   deadline : 0..MaxTime, id : 0..mPackageIdCounter]
        BY <3>1, <4>1 DEF TypeOK
      <4> QED BY <2>4, <4>2, Zenon DEF voteSet, TypeOK
    <3> QED BY <2>0, <2>4, <3>2, <3>3 DEF voteSet, packages, TypeOK
  <2>5. ASSUME NEW d \in Deadlines, updateTargetWorkDuration(th, s, d)
        PROVE  TypeOK'
    <3>1. d \in 0..MaxTime
      OBVIOUS
    <3>2. vote' \in [BoostSessions -> [Votes -> [active : BOOLEAN, timeout : 0..MaxTime]]]
      <4>1. /\ vote[s] \in [Votes -> [active : BOOLEAN, timeout : 0..MaxTime]]
            /\ vote[s][DefaultVote] \in [active : BOOLEAN, timeout : 0..MaxTime]
        BY DEF TypeOK
      <4>2. [vote[s][DefaultVote] EXCEPT !.timeout = d] \in [active : BOOLEAN, timeout : 0..MaxTime]
        BY <3>1, <4>1
      <4>3. [vote[s] EXCEPT ![DefaultVote] = [vote[s][DefaultVote] EXCEPT !.timeout = d]]
               \in [Votes -> [active : BOOLEAN, timeout : 0..MaxTime]]
        BY <4>1, <4>2
      <4>4. vote' = [vote EXCEPT ![s] =
               [vote[s] EXCEPT ![DefaultVote] = [vote[s][DefaultVote] EXCEPT !.timeout = d]]]
        BY <2>5 DEF updateTargetWorkDuration, TypeOK
      <4> QED BY <4>3, <4>4 DEF TypeOK
    <3> QED BY <2>0, <2>5, <3>2 DEF updateTargetWorkDuration, packages, TypeOK
  <2>6. CASE disableBoosts(th, s)
    <3>1. vote' \in [BoostSessions -> [Votes -> [active : BOOLEAN, timeout : 0..MaxTime]]]
      <4> DEFINE off == [v \in Votes |-> IF v \in BoostVotes
                            THEN [vote[s][v] EXCEPT !.active = FALSE] ELSE vote[s][v]]
      <4>1. \A v \in Votes : vote[s][v] \in [active : BOOLEAN, timeout : 0..MaxTime]
        BY DEF TypeOK
      <4>2. \A v \in Votes : [vote[s][v] EXCEPT !.active = FALSE]
                                \in [active : BOOLEAN, timeout : 0..MaxTime]
        BY <4>1, Zenon
      <4>3. off \in [Votes -> [active : BOOLEAN, timeout : 0..MaxTime]]
        BY <4>1, <4>2
      <4>4. vote' = [vote EXCEPT ![s] = off]
        BY <2>6 DEF disableBoosts
      <4> HIDE DEF off
      <4> QED BY <4>3, <4>4 DEF TypeOK
    <3> QED BY <2>0, <2>6, <3>1 DEF disableBoosts, packages, TypeOK
  <2> QED BY <2>1, <2>2, <2>3, <2>4, <2>5, <2>6
<1>3. ASSUME NEW k \in Schedulers, Emplace(k)
      PROVE  TypeOK'
  <2>1. mPackageIdCounter' \in Nat /\ mPackageIdCounter' = mPackageIdCounter + 1
    BY <1>3 DEF Emplace, TypeOK
  <2>2. 0..mPackageIdCounter \subseteq 0..mPackageIdCounter'
    BY <2>1 DEF TypeOK
  <2>3. /\ DOMAIN mPackages' \subseteq 1..mPackageIdCounter'
        /\ mPackages' \in [DOMAIN mPackages' -> Events]
    BY <1>3, <2>1 DEF Emplace, TypeOK
  <2>4. sch' \in [Schedulers -> [at : {"idle", "emplace", "read", "enqueue"}, ev : Events,
                               deadline : 0..MaxTime, id : 0..mPackageIdCounter']]
    BY <1>3, <2>2, SMTT(60) DEF Emplace, TypeOK
  <2>5. overlapped' \in BOOLEAN
    BY <1>3, Zenon DEF Emplace
  <2>6. /\ mPackageQueue' \subseteq [deadline : 0..MaxTime, id : 0..mPackageIdCounter']
        /\ wk' \in [at : {"idle", "process", "event"}, id : 0..mPackageIdCounter', ev : Events,
                    t : 0..MaxTime]
    BY <1>3, <2>2 DEF Emplace, TypeOK
  <2> QED BY <1>3, <2>1, <2>3, <2>4, <2>5, <2>6 DEF Emplace, TypeOK
<1>4. ASSUME NEW k \in Schedulers, ReadCounter(k)
      PROVE  TypeOK'
  <2>1. sch[k] \in [at : {"idle", "emplace", "read", "enqueue"}, ev : Events,
                   deadline : 0..MaxTime, id : 0..mPackageIdCounter]
    BY DEF TypeOK
  <2>2. [at |-> "enqueue", ev |-> sch[k].ev, deadline |-> sch[k].deadline,
         id |-> mPackageIdCounter]
          \in [at : {"idle", "emplace", "read", "enqueue"}, ev : Events,
              deadline : 0..MaxTime, id : 0..mPackageIdCounter]
    BY <2>1 DEF TypeOK
  <2>4. sch' \in [Schedulers -> [at : {"idle", "emplace", "read", "enqueue"}, ev : Events,
                               deadline : 0..MaxTime, id : 0..mPackageIdCounter]]
    BY <1>4, <2>2 DEF ReadCounter, TypeOK
  <2> QED BY <1>4, <2>4 DEF ReadCounter, packages, TypeOK
<1>5. ASSUME NEW k \in Schedulers, Enqueue(k)
      PROVE  TypeOK'
  <2>1. sch' \in [Schedulers -> [at : {"idle", "emplace", "read", "enqueue"}, ev : Events,
                               deadline : 0..MaxTime, id : 0..mPackageIdCounter]]
    BY <1>5, IdleTypes DEF Enqueue, TypeOK
  <2>2. mPackageQueue' \subseteq [deadline : 0..MaxTime, id : 0..mPackageIdCounter]
    BY <1>5 DEF Enqueue, TypeOK
  <2> QED BY <1>5, <2>1, <2>2 DEF Enqueue, TypeOK
<1>6. CASE Pop
  BY <1>6, Zenon DEF Pop, TypeOK
<1>7. CASE Process
  <2>1. wk' \in [at : {"idle", "process", "event"}, id : 0..mPackageIdCounter, ev : Events,
                 t : 0..MaxTime]
    BY <1>7, IdleTypes DEF Process, TypeOK
  <2>2. /\ DOMAIN mPackages' \subseteq 1..mPackageIdCounter
        /\ mPackages' \in [DOMAIN mPackages' -> Events]
    BY <1>7 DEF Process, TypeOK
  <2> QED BY <1>7, <2>1, <2>2 DEF Process, TypeOK
<1>8. CASE handleEvent
  <2>1. wk.ev \in Events /\ wk.ev.s \in BoostSessions /\ wk.ev.v \in Votes
    BY DEF TypeOK, Events
  <2>2. wk' = WorkerIdle /\ UNCHANGED <<now, live, closed, packages, overlapped>>
    BY <1>8, ZenonT(60) DEF handleEvent
  <2>3. vote' \in [BoostSessions -> [Votes -> [active : BOOLEAN, timeout : 0..MaxTime]]]
    <3> DEFINE w == vote[wk.ev.s][wk.ev.v]
    <3>1. w \in [active : BOOLEAN, timeout : 0..MaxTime]
      BY <2>1 DEF TypeOK
    <3>2. [w EXCEPT !.active = FALSE] \in [active : BOOLEAN, timeout : 0..MaxTime]
      BY <3>1, Zenon
    <3>3. \/ vote' = vote
          \/ vote' = [vote EXCEPT ![wk.ev.s] = [vote[wk.ev.s] EXCEPT ![wk.ev.v] =
                         [w EXCEPT !.active = FALSE]]]
      BY <1>8, <2>1, ZenonT(60) DEF handleEvent, TypeOK
    <3> HIDE DEF w
    <3>4. [vote[wk.ev.s] EXCEPT ![wk.ev.v] = [w EXCEPT !.active = FALSE]]
             \in [Votes -> [active : BOOLEAN, timeout : 0..MaxTime]]
      BY <2>1, <3>2 DEF TypeOK
    <3> QED BY <2>1, <3>3, <3>4, ZenonT(60) DEF TypeOK
  <2>4. sch' \in [Schedulers -> [at : {"idle", "emplace", "read", "enqueue"}, ev : Events,
                               deadline : 0..MaxTime, id : 0..mPackageIdCounter]]
    <3> DEFINE Entry == [at : {"idle", "emplace", "read", "enqueue"}, ev : Events,
                         deadline : 0..MaxTime, id : 0..mPackageIdCounter]
               timeout == vote[wk.ev.s][wk.ev.v].timeout
               e == [at |-> "emplace", ev |-> wk.ev, deadline |-> timeout, id |-> 0]
    <3>1. timeout \in 0..MaxTime
      BY <2>1 DEF TypeOK
    <3>2. e \in Entry
      BY <2>1, <3>1 DEF TypeOK
    <3>3. sch' = sch \/ sch' = [sch EXCEPT ![Worker] = e]
      BY <1>8, Zenon DEF handleEvent
    <3>4. sch \in [Schedulers -> Entry]
      BY DEF TypeOK
    <3> HIDE DEF Entry, e
    <3>5. sch' \in [Schedulers -> Entry]
      BY <3>2, <3>3, <3>4
    <3> QED BY <3>5 DEF Entry
  <2> QED BY <2>2, <2>3, <2>4, IdleTypes DEF packages, TypeOK
<1>9. CASE Tick
  BY <1>9 DEF Tick, packages, TypeOK
<1> QED BY <1>1, <1>2, <1>3, <1>4, <1>5, <1>6, <1>7, <1>8, <1>9
        DEF Next, Schedule, WorkerStep
-----------------------------------------------------------------------------
\* An event under way stays under way until handleEvent takes it, as long as no
\* schedule() call increments the counter another is about to read.
LEMMA PendingKept ==
    ASSUME TypeOK, WorkerInv, Next, ~overlapped', NEW e, NEW d \in Int, Pending(e, d),
           ~(handleEvent /\ wk.ev = e)
    PROVE  Pending(e, d)'
<1>1. \/ InEmplace(e, d)
      \/ \E i : Stored(i, e, d)
      \/ InHandler(e)
  BY PendingCases
<1>2. SUFFICES \/ InEmplace(e, d)'
               \/ \E i : Stored(i, e, d)'
               \/ InHandler(e)'
  BY DEF Pending, InEmplace, Stored, InHandler
<1>3. ASSUME NEW th \in Threads, Call(th)
      PROVE  \/ InEmplace(e, d)'
             \/ \E i : Stored(i, e, d)'
             \/ InHandler(e)'
  <2>1. /\ UNCHANGED <<packages, wk>>
        /\ sch[th].at = "idle"
        /\ \A k \in Schedulers \ {th} : sch'[k] = sch[k]
    BY <1>3 DEF Call, addPowerSession, removePowerSession, voteSet,
       updateTargetWorkDuration, disableBoosts, MayCall, TypeOK
  <2>2. CASE InEmplace(e, d)
    BY <2>1, <2>2 DEF InEmplace
  <2>3. CASE \E i : Stored(i, e, d)
    BY <2>1, <2>3 DEF Stored, Carries, packages
  <2>4. CASE InHandler(e)
    BY <2>1, <2>4 DEF InHandler
  <2> QED BY <1>1, <2>2, <2>3, <2>4
<1>4. ASSUME NEW k \in Schedulers, Emplace(k)
      PROVE  \/ InEmplace(e, d)'
             \/ \E i : Stored(i, e, d)'
             \/ InHandler(e)'
  <2>1. /\ sch[k].at = "emplace"
        /\ mPackageIdCounter' = mPackageIdCounter + 1
        /\ mPackages' = [i \in DOMAIN mPackages \cup {mPackageIdCounter + 1} |->
                IF i = mPackageIdCounter + 1 THEN sch[k].ev ELSE mPackages[i]]
        /\ \A o \in Schedulers \ {k} : sch'[o] = sch[o]
        /\ sch'[k].at = "read" /\ sch'[k].deadline = sch[k].deadline
        /\ \A o \in Schedulers : sch[o].at # "read"
        /\ UNCHANGED <<mPackageQueue, wk>>
    BY <1>4, Zenon DEF Emplace, TypeOK
  <2>2. ASSUME NEW o \in Schedulers, sch[o].at = "emplace", sch[o].ev = e, sch[o].deadline =< d
        PROVE  InEmplace(e, d)' \/ \E i : Stored(i, e, d)'
    <3>1. CASE o = k
      <4>1. PICK n : n = mPackageIdCounter + 1
        OBVIOUS
      <4>2. n \in DOMAIN mPackages' /\ mPackages'[n] = e
        BY <2>1, <2>2, <3>1, <4>1
      <4>3. Carries(k, n)' /\ sch'[k].deadline =< d
        BY <2>1, <2>2, <3>1, <4>1 DEF Carries
      <4>4. Stored(n, e, d)'
        BY <4>2, <4>3 DEF Stored
      <4> QED BY <4>4
    <3>2. CASE o # k
      BY <2>1, <2>2, <3>2 DEF InEmplace
    <3> QED BY <3>1, <3>2
  <2>3. ASSUME NEW i, Stored(i, e, d)
        PROVE  Stored(i, e, d)'
    <3>1. i \in DOMAIN mPackages' /\ mPackages'[i] = e
      <4>1. i \in DOMAIN mPackages /\ mPackages[i] = e
        BY <2>3 DEF Stored
      <4>2. i # mPackageIdCounter + 1
        BY <4>1 DEF TypeOK
      <4> QED BY <2>1, <4>1, <4>2
    <3>2. ASSUME NEW o \in Schedulers, Carries(o, i)
          PROVE  Carries(o, i)' /\ sch'[o].deadline = sch[o].deadline
      BY <2>1, <3>2 DEF Carries
    <3> QED BY <2>1, <2>3, <3>1, <3>2 DEF Stored
  <2>4. InHandler(e) => InHandler(e)'
    BY <2>1 DEF InHandler
  <2> QED BY <1>1, <2>2, <2>3, <2>4 DEF InEmplace
<1>5. ASSUME NEW k \in Schedulers, ReadCounter(k)
      PROVE  \/ InEmplace(e, d)'
             \/ \E i : Stored(i, e, d)'
             \/ InHandler(e)'
  <2>1. /\ sch[k].at = "read"
        /\ sch'[k].at = "enqueue" /\ sch'[k].id = mPackageIdCounter
        /\ sch'[k].deadline = sch[k].deadline
        /\ \A o \in Schedulers \ {k} : sch'[o] = sch[o]
        /\ UNCHANGED <<packages, wk>>
    BY <1>5 DEF ReadCounter, TypeOK
  <2>2. InEmplace(e, d) => InEmplace(e, d)'
    BY <2>1 DEF InEmplace
  <2>3. ASSUME NEW i, Stored(i, e, d)
        PROVE  Stored(i, e, d)'
    <3>1. ASSUME NEW o \in Schedulers, Carries(o, i)
          PROVE  Carries(o, i)' /\ sch'[o].deadline = sch[o].deadline
      BY <2>1, <3>1 DEF Carries, packages
    <3> QED BY <2>1, <2>3, <3>1 DEF Stored, packages
  <2>4. InHandler(e) => InHandler(e)'
    BY <2>1 DEF InHandler
  <2> QED BY <1>1, <2>2, <2>3, <2>4
<1>6. ASSUME NEW k \in Schedulers, Enqueue(k)
      PROVE  \/ InEmplace(e, d)'
             \/ \E i : Stored(i, e, d)'
             \/ InHandler(e)'
  <2>1. /\ sch[k].at = "enqueue"
        /\ mPackageQueue' = mPackageQueue \cup {[deadline |-> sch[k].deadline, id |-> sch[k].id]}
        /\ \A o \in Schedulers \ {k} : sch'[o] = sch[o]
        /\ UNCHANGED <<mPackageIdCounter, mPackages, wk>>
    BY <1>6 DEF Enqueue, TypeOK
  <2>2. InEmplace(e, d) => InEmplace(e, d)'
    BY <2>1 DEF InEmplace
  <2>3. ASSUME NEW i, Stored(i, e, d)
        PROVE  Stored(i, e, d)'
    <3>1. i \in DOMAIN mPackages' /\ mPackages'[i] = e
      BY <2>1, <2>3 DEF Stored
    <3>2. CASE \E q \in mPackageQueue : q.id = i /\ q.deadline =< d
      BY <2>1, <3>1, <3>2 DEF Stored
    <3>3. CASE wk.at = "process" /\ wk.id = i
      BY <2>1, <3>1, <3>3 DEF Stored
    <3>4. ASSUME NEW o \in Schedulers, Carries(o, i), sch[o].deadline =< d
          PROVE  Stored(i, e, d)'
      <4>1. CASE o = k
        <5> DEFINE q == [deadline |-> sch[k].deadline, id |-> sch[k].id]
        <5>1. q \in mPackageQueue' /\ q.id = i /\ q.deadline =< d
          BY <2>1, <3>4, <4>1 DEF Carries
        <5> HIDE DEF q
        <5> QED BY <3>1, <5>1 DEF Stored
      <4>2. CASE o # k
        <5>1. Carries(o, i)' /\ sch'[o].deadline =< d
          BY <2>1, <3>4, <4>2 DEF Carries
        <5> QED BY <3>1, <5>1 DEF Stored
      <4> QED BY <4>1, <4>2
    <3> QED BY <2>3, <3>2, <3>3, <3>4 DEF Stored
  <2>4. InHandler(e) => InHandler(e)'
    BY <2>1 DEF InHandler
  <2> QED BY <1>1, <2>2, <2>3, <2>4
<1>7. CASE Pop
  <2>1. PICK top \in mPackageQueue :
          /\ mPackageQueue' = mPackageQueue \ {top}
          /\ wk' = [wk EXCEPT !.at = "process", !.id = top.id]
    BY <1>7 DEF Pop
  <2>2. /\ wk.at = "idle"
        /\ wk'.at = "process" /\ wk'.id = top.id
        /\ UNCHANGED <<mPackageIdCounter, mPackages, sch>>
    BY <1>7, <2>1 DEF Pop, TypeOK
  <2>3. InEmplace(e, d) => InEmplace(e, d)'
    BY <2>2 DEF InEmplace
  <2>4. ASSUME NEW i, Stored(i, e, d)
        PROVE  Stored(i, e, d)'
    BY <2>1, <2>2, <2>4 DEF Stored, Carries
  <2>5. ~InHandler(e)
    BY <2>2 DEF InHandler
  <2> QED BY <1>1, <2>3, <2>4, <2>5
<1>8. CASE Process
  <2>1. wk.at = "process" /\ UNCHANGED <<mPackageIdCounter, mPackageQueue, sch>>
    BY <1>8 DEF Process
  <2>2. InEmplace(e, d) => InEmplace(e, d)'
    BY <2>1 DEF InEmplace
  <2>3. ASSUME NEW i, Stored(i, e, d), i # wk.id
        PROVE  Stored(i, e, d)'
    <3>1. i \in DOMAIN mPackages' /\ mPackages'[i] = e
      BY <1>8, <2>3 DEF Process, Stored
    <3> QED BY <2>1, <2>3, <3>1 DEF Stored, Carries
  <2>4. ASSUME NEW i, Stored(i, e, d), i = wk.id
        PROVE  InHandler(e)'
    BY <1>8, <2>4 DEF Process, Stored, InHandler
  <2>5. ~InHandler(e)
    BY <2>1 DEF InHandler
  <2> QED BY <1>1, <2>2, <2>3, <2>4, <2>5
<1>9. CASE handleEvent
  <2>1. /\ wk.at = "event" /\ wk.ev # e
        /\ UNCHANGED packages
        /\ wk' = WorkerIdle
    BY <1>9, Zenon DEF handleEvent
  <2>2. sch[Worker].at = "idle" /\ \A k \in Schedulers \ {Worker} : sch'[k] = sch[k]
    BY <1>9, <2>1, Zenon DEF handleEvent, WorkerInv, TypeOK
  <2>3. InEmplace(e, d) => InEmplace(e, d)'
    BY <2>2 DEF InEmplace
  <2>4. ASSUME NEW i, Stored(i, e, d)
        PROVE  Stored(i, e, d)'
    BY <2>1, <2>2, <2>4 DEF Stored, Carries, packages
  <2>5. ~InHandler(e)
    BY <2>1 DEF InHandler
  <2> QED BY <1>1, <2>3, <2>4, <2>5
<1>10. CASE Tick
  <2>1. UNCHANGED <<packages, sch, wk>>
    BY <1>10 DEF Tick
  <2> QED BY <1>1, <2>1 DEF InEmplace, Stored, Carries, InHandler, packages
<1> QED BY <1>3, <1>4, <1>5, <1>6, <1>7, <1>8, <1>9, <1>10 DEF Next, Schedule, WorkerStep
-----------------------------------------------------------------------------
\* A later deadline is easier to meet.
LEMMA PendingLater ==
    ASSUME TypeOK, NEW e, NEW c \in Int, NEW d \in Int, c =< d, Pending(e, c)
    PROVE  Pending(e, d)
<1>1. /\ \A k \in Schedulers : sch[k].deadline \in Int
      /\ \A q \in mPackageQueue : q.deadline \in Int
  BY TimeoutsAssumption DEF TypeOK
<1>2. InEmplace(e, c) => InEmplace(e, d)
  BY <1>1 DEF InEmplace
<1>3. ASSUME NEW i, Stored(i, e, c)
      PROVE  Stored(i, e, d)
  BY <1>1, <1>3 DEF Stored
<1> QED BY <1>2, <1>3, PendingCases

\* BoostSessions that were never added keep no vote, and the worker does one thing at
\* a time.
LEMMA StepKeepsFreshAndWorker ==
    TypeOK /\ FreshInv /\ WorkerInv /\ [Next]_vars => FreshInv' /\ WorkerInv'
<1> SUFFICES ASSUME TypeOK, FreshInv, WorkerInv, [Next]_vars
             PROVE  FreshInv' /\ WorkerInv'
  OBVIOUS
<1>1. FreshInv'
  <2> SUFFICES ASSUME NEW s \in BoostSessions, s \notin live' \cup closed', NEW v \in Votes
               PROVE  ~vote'[s][v].active
    BY DEF FreshInv
  <2>1. live \cup closed \subseteq live' \cup closed'
    BY ZenonT(60) DEF Next, vars, Call, addPowerSession, removePowerSession, voteSet,
       updateTargetWorkDuration, disableBoosts, Schedule, Emplace, ReadCounter, Enqueue,
       WorkerStep, Pop, Process, handleEvent, Tick
  <2>2. s \notin live \cup closed /\ ~vote[s][v].active
    BY <2>1 DEF FreshInv
  <2>3. vote'[s] = vote[s]
    <3>1. ASSUME NEW th \in Threads, Call(th)
          PROVE  vote'[s] = vote[s]
      BY <2>2, <3>1 DEF Call, addPowerSession, removePowerSession, voteSet,
         updateTargetWorkDuration, disableBoosts, TypeOK
    <3>2. CASE handleEvent
      BY <2>2, <3>2, ZenonT(60) DEF handleEvent, TypeOK
    <3>3. CASE UNCHANGED vote
      BY <3>3
    <3> QED BY <3>1, <3>2, <3>3, Zenon DEF Next, vars, Schedule, Emplace, ReadCounter, Enqueue,
          WorkerStep, Pop, Process, Tick
  <2> QED BY <2>2, <2>3
<1>2. WorkerInv'
  <2>1. ASSUME NEW th \in Threads, Call(th)
        PROVE  WorkerInv'
    <3>1. wk' = wk /\ sch'[Worker] = sch[Worker]
      BY <2>1, TimeoutsAssumption DEF Call, addPowerSession, removePowerSession, voteSet,
         updateTargetWorkDuration, disableBoosts, TypeOK, Schedulers
    <3> QED BY <3>1 DEF WorkerInv
  <2>2. ASSUME NEW k \in Schedulers, Schedule(k)
        PROVE  WorkerInv'
    <3>1. wk' = wk /\ sch[k].at # "idle"
      BY <2>2 DEF Schedule, Emplace, ReadCounter, Enqueue
    <3>2. k # Worker => sch'[Worker] = sch[Worker]
      BY <2>2 DEF Schedule, Emplace, ReadCounter, Enqueue, TypeOK, Schedulers
    <3> QED BY <3>1, <3>2 DEF WorkerInv
  <2>3. CASE Pop
    BY <2>3 DEF Pop, MapMutexFree, WorkerInv
  <2>4. CASE Process
    BY <2>4 DEF Process, WorkerInv
  <2>5. CASE handleEvent
    BY <2>5, IdleTypes DEF handleEvent, WorkerInv, TypeOK
  <2>6. CASE Tick \/ UNCHANGED vars
    BY <2>6 DEF Tick, vars, WorkerInv
  <2> QED BY <2>1, <2>2, <2>3, <2>4, <2>5, <2>6 DEF Next, WorkerStep
<1> QED BY <1>1, <1>2

\* Changing the duration of the default vote of a session (updateDuration) leaves
\* every vote as active as it was, and every other vote as it is.
LEMMA VoteAfterTimeoutChange ==
    ASSUME TypeOK, NEW r \in BoostSessions, NEW d \in Deadlines,
           vote' = [vote EXCEPT ![r][DefaultVote].timeout = d],
           NEW s \in BoostSessions, NEW v \in Votes
    PROVE  /\ vote'[s][v].active = vote[s][v].active
           /\ v # DefaultVote => vote'[s][v] = vote[s][v]
<1> DEFINE w == [vote[r][DefaultVote] EXCEPT !.timeout = d]
           f == [vote[r] EXCEPT ![DefaultVote] = w]
<1>1. vote' = [vote EXCEPT ![r] = f]
  OBVIOUS
<1>2. w.active = vote[r][DefaultVote].active
  BY TimeoutsAssumption DEF TypeOK
<1>3. f[v] = IF v = DefaultVote THEN w ELSE vote[r][v]
  BY DEF TypeOK
<1>4. vote'[s] = IF s = r THEN f ELSE vote[s]
  BY <1>1 DEF TypeOK
<1> HIDE DEF w, f
<1> QED BY <1>2, <1>3, <1>4

\* VotesCovered is kept by every step.
LEMMA StepKeepsCovered == IInv /\ [Next]_vars => VotesCovered'
<1> SUFFICES ASSUME IInv, [Next]_vars PROVE VotesCovered'
  OBVIOUS
<1>1. TypeOK /\ TypeOK' /\ FreshInv /\ WorkerInv /\ VotesCovered
  BY StepKeepsTypeOK DEF IInv
<1> SUFFICES ASSUME ~overlapped', NEW s \in BoostSessions, s \in live', NEW v \in Votes,
                    vote'[s][v].active
             PROVE  Pending([s |-> s, v |-> v], Due(s, v))'
  BY <1>1 DEF VotesCovered, TypeOK
<1> DEFINE e == [s |-> s, v |-> v]
<1>2. ~overlapped
  BY ZenonT(60) DEF Next, vars, Call, addPowerSession, removePowerSession, voteSet,
     updateTargetWorkDuration, disableBoosts, Schedule, Emplace, ReadCounter, Enqueue,
     WorkerStep, Pop, Process, handleEvent, Tick
<1>3. /\ Due(s, v) \in Int
      /\ Due(s, v)' \in Int
      /\ Due(s, v)' =< MaxTime
      /\ vote[s][v].timeout \in 0..MaxTime
  BY <1>1, TimeoutsAssumption DEF Due, TypeOK
<1>4. s \in live /\ vote[s][v].active => Pending(e, Due(s, v))
  BY <1>1, <1>2 DEF VotesCovered
<1>5. CASE UNCHANGED vars
  <2>1. /\ s \in live /\ vote[s][v].active /\ Due(s, v)' = Due(s, v)
        /\ UNCHANGED <<mPackages, mPackageIdCounter, mPackageQueue, sch, wk>>
    BY <1>5 DEF vars, Due
  <2>2. Pending(e, Due(s, v))
    BY <1>4, <2>1
  <2> QED BY <2>1, <2>2 DEF Pending, Carries
\* The rule for a step that leaves the vote in force with a deadline no earlier.
<1>6. ASSUME Next, s \in live, vote[s][v].active, Due(s, v) =< Due(s, v)',
             ~(handleEvent /\ wk.ev = e)
      PROVE  Pending(e, Due(s, v))'
  <2>1. PICK c \in Int : c = Due(s, v)
    BY <1>3
  <2>2. PICK d \in Int : d = Due(s, v)'
    BY <1>3
  <2>3. Pending(e, c)
    BY <1>4, <1>6, <2>1
  <2>4. Pending(e, d)
    BY <1>1, <1>6, <2>1, <2>2, <2>3, PendingLater
  <2> HIDE DEF e
  <2>5. Pending(e, d)'
    BY <1>1, <1>6, <2>4, PendingKept
  <2> QED BY <2>2, <2>5
<1>7. ASSUME NEW th \in Threads, Call(th)
      PROVE  Pending(e, Due(s, v))'
  <2>0. Next
    BY <1>7 DEF Next
  <2>1. PICK r \in BoostSessions :
          \/ addPowerSession(th, r)
          \/ removePowerSession(th, r)
          \/ \E u \in Votes, d \in Deadlines : voteSet(th, r, u, d)
          \/ \E d \in Deadlines : updateTargetWorkDuration(th, r, d)
          \/ disableBoosts(th, r)
    BY <1>7 DEF Call
  <2>2. ~(handleEvent /\ wk.ev = e)
    <3>1. handleEvent => wk.at # wk'.at
      BY <1>1, IdleTypes DEF handleEvent, TypeOK
    <3>2. wk' = wk
      BY <1>7 DEF Call, addPowerSession, removePowerSession, voteSet,
         updateTargetWorkDuration, disableBoosts
    <3> QED BY <3>1, <3>2
  <2>3. CASE addPowerSession(th, r)
    <3>1. vote' = vote /\ live' = live \cup {r} /\ r \notin live \cup closed
      BY <2>3 DEF addPowerSession
    <3>2. s \in live
      BY <1>1, <3>1 DEF FreshInv
    <3>3. Due(s, v)' = Due(s, v)
      BY <3>1 DEF Due
    <3> QED BY <1>3, <1>6, <2>0, <2>2, <3>1, <3>2, <3>3
  <2>4. CASE removePowerSession(th, r)
    <3>1. vote' = vote /\ s \in live
      BY <2>4 DEF removePowerSession
    <3>2. Due(s, v)' = Due(s, v)
      BY <3>1 DEF Due
    <3> QED BY <1>3, <1>6, <2>0, <2>2, <3>1, <3>2
  <2>5. ASSUME NEW u \in Votes, NEW d \in Deadlines, voteSet(th, r, u, d)
        PROVE  Pending(e, Due(s, v))'
    <3>1. /\ s \in live
          /\ vote' = [vote EXCEPT ![r][u] = [active |-> TRUE, timeout |-> d]]
      BY <2>5 DEF voteSet
    <3>2. CASE r # s \/ u # v
      <4>1. vote'[s][v] = vote[s][v]
        BY <1>1, <3>1, <3>2 DEF TypeOK
      <4>2. Due(s, v)' = Due(s, v)
        BY <4>1 DEF Due
      <4> QED BY <1>3, <1>6, <2>0, <2>2, <3>1, <4>1, <4>2
    <3>3. CASE r = s /\ u = v
      <4>1. vote'[s][v] = [active |-> TRUE, timeout |-> d]
        BY <1>1, <3>1, <3>3 DEF TypeOK
      <4>2. d \in 0..MaxTime /\ d =< Due(s, v)'
        BY <4>1, TimeoutsAssumption DEF Due
      <4>3. CASE shouldScheduleTimeout(vote[s][v], d)
        <5>1. th \in Schedulers
          BY DEF Schedulers
        <5>2. /\ sch'[th].at = "emplace"
              /\ sch'[th].ev = e
              /\ sch'[th].deadline = d
          BY <1>1, <2>5, <3>3, <4>3, <5>1 DEF voteSet, TypeOK
        <5> HIDE DEF e
        <5>3. InEmplace(e, Due(s, v))'
          BY <4>2, <5>1, <5>2 DEF InEmplace
        <5> USE DEF e
        <5> QED BY <5>3 DEF InEmplace, Pending
      <4>4. CASE ~shouldScheduleTimeout(vote[s][v], d)
        <5>1. vote[s][v].active /\ ~(d < vote[s][v].timeout)
          BY <4>4 DEF shouldScheduleTimeout
        <5>2. Due(s, v) =< Due(s, v)'
          BY <1>3, <4>1, <4>2, <5>1 DEF Due
        <5> QED BY <1>6, <2>0, <2>2, <3>1, <5>1, <5>2
      <4> QED BY <4>3, <4>4
    <3> QED BY <3>2, <3>3
  <2>6. ASSUME NEW d \in Deadlines, updateTargetWorkDuration(th, r, d)
        PROVE  Pending(e, Due(s, v))'
    <3>1. /\ live' = live
          /\ vote' = [vote EXCEPT ![r][DefaultVote].timeout = d]
      BY <2>6 DEF updateTargetWorkDuration
    <3>2. /\ vote'[s][v].active = vote[s][v].active
          /\ v # DefaultVote => vote'[s][v] = vote[s][v]
      BY <1>1, <3>1, VoteAfterTimeoutChange, Zenon
    <3>3. Due(s, v)' = Due(s, v)
      BY <3>2 DEF Due
    <3> QED BY <1>3, <1>6, <2>0, <2>2, <3>1, <3>2, <3>3
  <2>7. CASE disableBoosts(th, r)
    <3> DEFINE off == [w \in Votes |-> IF w \in BoostVotes
                          THEN [vote[r][w] EXCEPT !.active = FALSE] ELSE vote[r][w]]
    <3>1. live' = live /\ vote' = [vote EXCEPT ![r] = off]
      BY <2>7 DEF disableBoosts
    <3>2. vote'[s][v] = vote[s][v]
      <4>1. CASE r # s
        BY <1>1, <3>1, <4>1 DEF TypeOK
      <4>2. CASE r = s
        <5>1. vote'[s][v] = IF v \in BoostVotes
                            THEN [vote[s][v] EXCEPT !.active = FALSE] ELSE vote[s][v]
          BY <1>1, <3>1, <4>2 DEF TypeOK
        <5>2. [vote[s][v] EXCEPT !.active = FALSE].active = FALSE
          BY <1>1 DEF TypeOK
        <5> QED BY <5>1, <5>2
      <4> QED BY <4>1, <4>2
    <3>3. Due(s, v)' = Due(s, v)
      BY <3>2 DEF Due
    <3> QED BY <1>3, <1>6, <2>0, <2>2, <3>1, <3>2, <3>3
  <2> QED BY <2>1, <2>3, <2>4, <2>5, <2>6, <2>7
<1>8. CASE handleEvent
  <2>0. Next
    BY <1>8 DEF Next, WorkerStep
  <2>1. live' = live /\ s \in live
    BY <1>8, Zenon DEF handleEvent
  <2>2. CASE wk.ev # e
    <3>1. vote'[s][v] = vote[s][v]
      <4>1. wk.ev \in Events /\ wk.ev = [s |-> wk.ev.s, v |-> wk.ev.v]
        BY <1>1 DEF TypeOK, Events
      <4>2. wk.ev.s # s \/ wk.ev.v # v
        BY <2>2, <4>1
      <4>3. \/ vote' = vote
            \/ vote' = [vote EXCEPT ![wk.ev.s][wk.ev.v].active = FALSE]
        BY <1>8, Zenon DEF handleEvent
      <4>4. wk.ev.s \in BoostSessions /\ wk.ev.v \in Votes
        BY <4>1 DEF Events
      <4> QED BY <1>1, <4>2, <4>3, <4>4 DEF TypeOK
    <3>2. Due(s, v)' = Due(s, v)
      BY <3>1 DEF Due
    <3> QED BY <1>3, <1>6, <2>0, <2>1, <2>2, <3>1, <3>2
  <2>3. CASE wk.ev = e
    <3>0. wk.ev.s = s /\ wk.ev.v = v
      BY <2>3
    <3> HIDE DEF e
    <3>1. CASE vote' = [vote EXCEPT ![s][v].active = FALSE]
      <4>1. ~vote'[s][v].active
        BY <1>1, <3>1 DEF TypeOK
      <4> QED BY <4>1
    <3>2. CASE /\ vote' = vote
               /\ sch' = [sch EXCEPT ![Worker] = [at |-> "emplace", ev |-> wk.ev,
                                    deadline |-> vote[s][v].timeout, id |-> 0]]
      <4>1. Worker \in Schedulers
        BY DEF Schedulers
      <4>2. sch'[Worker].at = "emplace" /\ sch'[Worker].ev = e
              /\ sch'[Worker].deadline = vote[s][v].timeout
        BY <1>1, <2>3, <3>2, <4>1 DEF TypeOK
      <4>3. vote[s][v].timeout =< Due(s, v)'
        BY <1>3, <3>2, SMTT(60) DEF Due
      <4>4. InEmplace(e, Due(s, v))'
        BY <4>1, <4>2, <4>3 DEF InEmplace
      <4> USE DEF e
      <4> QED BY <4>4 DEF InEmplace, Pending
    <3>3. CASE vote' = vote /\ (s \notin live \/ ~vote[s][v].active)
      BY <2>1, <3>3
    <3> QED BY <1>8, <3>0, <3>1, <3>2, <3>3 DEF handleEvent
  <2> QED BY <2>2, <2>3
<1>9. ASSUME Next, UNCHANGED <<live, vote>>, ~handleEvent
      PROVE  Pending(e, Due(s, v))'
  <2>1. Due(s, v)' = Due(s, v)
    BY <1>9 DEF Due
  <2> QED BY <1>3, <1>6, <1>9, <2>1
<1>10. CASE Next /\ ~handleEvent /\ ~(\E th \in Threads : Call(th))
  <2>1. UNCHANGED <<live, vote>>
    BY <1>10, Zenon DEF Next, Schedule, Emplace, ReadCounter, Enqueue, WorkerStep, Pop, Process, Tick
  <2> QED BY <1>9, <1>10, <2>1
<1> QED BY <1>5, <1>7, <1>8, <1>10

\* The invariant is inductive.
LEMMA StepKeepsIInv == IInv /\ [Next]_vars => IInv'
  BY StepKeepsTypeOK, StepKeepsFreshAndWorker, StepKeepsCovered DEF IInv

\* The type of the state is invariant.
THEOREM TypeCorrect == Spec => []TypeOK
<1>1. IInv => TypeOK
  BY DEF IInv
<1> QED BY <1>1, InitHasIInv, StepKeepsIInv, PTL DEF Spec

\* As long as no two schedule() calls overlap, every vote in force has a timeout
\* event under way, due in time: the requeue logic of handleEvent
\* (PowerSessionManager.cpp:471-478) loses no event, for any number of sessions,
\* votes, threads and calls.
THEOREM EveryVoteCovered == Spec => []VotesCovered
<1>1. IInv => VotesCovered
  BY DEF IInv
<1> QED BY <1>1, InitHasIInv, StepKeepsIInv, PTL DEF Spec

\* The two together: the accounts of schedule() and of the votes are in order.
THEOREM VotesStayAccounted == Spec => []VotesAccounted
  BY TypeCorrect, EveryVoteCovered, PTL DEF VotesAccounted

\* The handler never switches off a vote whose timeout has not passed, even when
\* schedule() calls overlap.
THEOREM HandlerNeverEarly == Spec => NoEarlyRetirement
<1>1. TypeOK /\ [Next]_vars =>
        [\A s \in live \cap live', v \in Votes :
            vote[s][v].active /\ ~vote'[s][v].active =>
                \/ vote[s][v].timeout =< now
                \/ v \in BoostVotes /\ UNCHANGED wk]_vars
  <2> SUFFICES ASSUME TypeOK, Next, NEW s \in live \cap live', NEW v \in Votes,
                      vote[s][v].active, ~vote'[s][v].active
               PROVE  vote[s][v].timeout =< now \/ (v \in BoostVotes /\ UNCHANGED wk)
    BY DEF vars
  <2>0. s \in BoostSessions /\ v \in Votes
    BY DEF TypeOK
  <2>1. CASE handleEvent
    <3>1. PICK tNow \in wk.t..now :
            \/ vote' = vote
            \/ /\ vote[wk.ev.s][wk.ev.v].timeout =< tNow
               /\ vote' = [vote EXCEPT ![wk.ev.s][wk.ev.v].active = FALSE]
      BY <2>1, Zenon DEF handleEvent
    <3>2. wk.ev.s = s /\ wk.ev.v = v
      BY <2>0, <3>1 DEF TypeOK, Events
    <3>3. vote[s][v].timeout =< tNow
      BY <3>1, <3>2
    <3> QED BY <2>0, <3>3 DEF TypeOK
  <2>2. ASSUME NEW th \in Threads, Call(th)
        PROVE  v \in BoostVotes /\ UNCHANGED wk
    <3>1. PICK r \in BoostSessions :
            \/ vote' = vote
            \/ \E u \in Votes, d \in Deadlines :
                  vote' = [vote EXCEPT ![r][u] = [active |-> TRUE, timeout |-> d]]
            \/ \E d \in Deadlines : vote' = [vote EXCEPT ![r][DefaultVote].timeout = d]
            \/ vote' = [vote EXCEPT ![r] = [w \in Votes |-> IF w \in BoostVotes
                          THEN [vote[r][w] EXCEPT !.active = FALSE] ELSE vote[r][w]]]
      BY <2>2 DEF Call, addPowerSession, removePowerSession, voteSet,
         updateTargetWorkDuration, disableBoosts
    <3>2. CASE vote' = vote
      BY <3>2
    <3>3. ASSUME NEW u \in Votes, NEW d \in Deadlines,
                 vote' = [vote EXCEPT ![r][u] = [active |-> TRUE, timeout |-> d]]
          PROVE  FALSE
      BY <2>0, <3>3 DEF TypeOK
    <3>4. ASSUME NEW d \in Deadlines, vote' = [vote EXCEPT ![r][DefaultVote].timeout = d]
          PROVE  FALSE
      BY <2>0, <3>4, VoteAfterTimeoutChange
    <3>5. ASSUME vote' = [vote EXCEPT ![r] = [w \in Votes |-> IF w \in BoostVotes
                          THEN [vote[r][w] EXCEPT !.active = FALSE] ELSE vote[r][w]]]
          PROVE  v \in BoostVotes
      <4>1. s = r => vote'[s][v] = IF v \in BoostVotes
                          THEN [vote[r][v] EXCEPT !.active = FALSE] ELSE vote[r][v]
        BY <2>0, <3>5 DEF TypeOK
      <4>2. s # r => vote'[s] = vote[s]
        BY <2>0, <3>5 DEF TypeOK
      <4> QED BY <4>1, <4>2
    <3>6. UNCHANGED wk
      BY <2>2 DEF Call, addPowerSession, removePowerSession, voteSet,
         updateTargetWorkDuration, disableBoosts
    <3> QED BY <3>1, <3>2, <3>3, <3>4, <3>5, <3>6
  <2>3. CASE UNCHANGED vote
    BY <2>3
  <2> QED BY <2>1, <2>2, <2>3, Zenon DEF Next, Schedule, Emplace, ReadCounter, Enqueue,
        WorkerStep, Pop, Process, Tick
<1> QED BY <1>1, TypeCorrect, PTL DEF Spec, NoEarlyRetirement
=============================================================================
