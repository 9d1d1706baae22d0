------------------------- MODULE InteractionHandler -------------------------
(***************************************************************************)
(* power-libperfmgr/aidl/InteractionHandler: setBoost(INTERACTION) calls   *)
(* Acquire, which holds the INTERACTION hint; the thread "DispIdle" runs   *)
(* Routine, which waits for the display to become idle or for the hint's   *)
(* duration to pass and then lets the hint go.  An Acquire during the wait *)
(* aborts it through an eventfd and makes Routine start again.             *)
(*                                                                         *)
(* Time is counted in ticks, relative to the last Acquire and to the poll  *)
(* in progress, so no horizon is needed.  What runs under mLock is one     *)
(* step; everything Routine does outside of it is a step of its own.       *)
(***************************************************************************)
EXTENDS Integers

CONSTANTS kWaitMs, kMinDurationMs, kMaxDurationMs, kDurationOffsetMs,
          Wrap,       \* 2^32 in the code: durations are compared as uint32_t
          Durations   \* the int32_t arguments of Acquire

ASSUME DurationsAssumption ==
    /\ kWaitMs \in Nat
    /\ kMinDurationMs \in Nat \ {0}
    /\ kMaxDurationMs \in Nat
    /\ kMinDurationMs =< kMaxDurationMs
    /\ kDurationOffsetMs \in Int
    /\ Wrap \in Nat \ {0}
    /\ Durations \subseteq Int

VARIABLES mState, mDurationMs,
          elapsed,    \* now - mLastTimespec, cut off beyond every duration
          aborted,    \* mEventFd is readable
          pc,         \* where Routine is
          timeout,    \* its argument timeout_ms, read without mLock
          timer,      \* what is left of the poll in progress
          why,        \* how the last WaitForIdle ended
          hint,       \* the INTERACTION hint is held (PerfLock, PerfRel)
          owed,       \* ticks for which some Acquire still asked for the hint
          exiting     \* progress of Exit

handlerVars == <<mState, mDurationMs, elapsed, aborted, pc, timeout, timer, why,
          hint, owed, exiting>>

routine == <<pc, timeout, timer, why>>

States == {"UNINITIALIZED", "IDLE", "INTERACTION", "WAITING"}

PCs == {"none", "cond", "asleep", "entry", "wait", "read", "poll", "release", "done"}

\* Longer than any duration: the largest value elapsed has to tell apart.
Late == kMaxDurationMs + 1

Larger(a, b) == IF a > b THEN a ELSE b

\* The type of the state: mDurationMs stays within kMaxDurationMs whatever duration
\* Acquire is given, a negative one included.
HandlerTypeOK ==
    /\ mState \in States
    /\ mDurationMs \in 0..kMaxDurationMs
    /\ elapsed \in 0..Late
    /\ aborted \in BOOLEAN
    /\ pc \in PCs
    /\ timeout \in 0..kMaxDurationMs
    /\ timer \in 0..Larger(kWaitMs, kMaxDurationMs)
    /\ why \in {"none", "abort", "idle", "timeout", "error"}
    /\ hint \in BOOLEAN
    /\ owed \in 0..kMaxDurationMs
    /\ exiting \in {"no", "locked", "joining", "done"}

Start ==
    /\ mState = "UNINITIALIZED"
    /\ mDurationMs = 0
    /\ elapsed = 0
    /\ aborted = FALSE
    /\ pc = "none"
    /\ timeout = 0
    /\ timer = 0
    /\ why = "none"
    /\ hint = FALSE
    /\ owed = 0
    /\ exiting = "no"

\* HandlerInit() when the idle file and the eventfd open.  When one does not, nothing
\* changes.
HandlerInit ==
    /\ mState = "UNINITIALIZED"
    /\ pc = "none"
    /\ exiting = "no"
    /\ mState' = "IDLE"
    /\ pc' = "cond"
    /\ UNCHANGED <<mDurationMs, elapsed, aborted, timeout, timer, why, hint, owed, exiting>>

\* Mutation of Notified: no notification.
NotNotified == pc

\* notify_one or notify_all: a waiting Routine evaluates its predicate again.
Notified == IF pc = "asleep" THEN "cond" ELSE pc

\* A signed duration plus the offset, compared as an unsigned number: a negative
\* sum is larger than every maximum.
FinalDuration(duration) ==
    LET inputDuration == (duration + kDurationOffsetMs) % Wrap
    IN  CASE inputDuration > kMaxDurationMs -> kMaxDurationMs
          [] inputDuration > kMinDurationMs /\ inputDuration =< kMaxDurationMs -> inputDuration
          [] OTHER -> kMinDurationMs

\* Mutation of Covered: the time already spent is forgotten.
CoveredByLength(final) == mState # "IDLE" /\ final =< mDurationMs

\* The previous hint lasts at least as long as this one asks for.
Covered(final) ==
    /\ mState # "IDLE"
    /\ final =< mDurationMs
    /\ elapsed =< mDurationMs - final

\* Acquire on an uninitialized handler does the hint with a timeout of its own
\* and changes nothing here.
Acquire(duration) ==
    LET final == FinalDuration(duration) IN
    /\ mState # "UNINITIALIZED"
    /\ owed' = Larger(owed, final)
    /\ \/ /\ Covered(final)
          /\ UNCHANGED <<mState, mDurationMs, elapsed, aborted, pc, hint>>
       \/ /\ ~Covered(final)
          /\ elapsed' = 0
          /\ mDurationMs' = final
          /\ aborted' = (aborted \/ mState = "WAITING")
          /\ hint' = (hint \/ mState = "IDLE")
          /\ mState' = "INTERACTION"
          /\ pc' = Notified
    /\ UNCHANGED <<timeout, timer, why, exiting>>

\* Exit: the part under mLock, then the notification, then the join.
ExitLocked ==
    /\ mState # "UNINITIALIZED"
    /\ aborted' = TRUE
    /\ mState' = "UNINITIALIZED"
    /\ exiting' = "locked"
    /\ UNCHANGED <<mDurationMs, elapsed, routine, hint, owed>>

ExitNotify ==
    /\ exiting = "locked"
    /\ exiting' = "joining"
    /\ pc' = Notified
    /\ UNCHANGED <<mState, mDurationMs, elapsed, aborted, timeout, timer, why, hint, owed>>

ExitJoined ==
    /\ exiting = "joining"
    /\ pc = "done"
    /\ exiting' = "done"
    /\ UNCHANGED <<mState, mDurationMs, elapsed, aborted, routine, hint, owed>>
-----------------------------------------------------------------------------
\* Routine: mCond.wait, then WaitForIdle(kWaitMs, mDurationMs), then Release().

WaitCond ==
    /\ pc = "cond"
    /\ \/ mState = "IDLE" /\ pc' = "asleep" /\ UNCHANGED mState
       \/ mState = "UNINITIALIZED" /\ pc' = "done" /\ UNCHANGED mState
       \/ mState \in {"INTERACTION", "WAITING"} /\ pc' = "entry" /\ mState' = "WAITING"
    /\ UNCHANGED <<mDurationMs, elapsed, aborted, timeout, timer, why, hint, owed, exiting>>

\* mDurationMs is read after mLock was released.
EnterWaitForIdle ==
    /\ pc = "entry"
    /\ timeout' = mDurationMs
    /\ timer' = kWaitMs
    /\ pc' = "wait"
    /\ UNCHANGED <<mState, mDurationMs, elapsed, aborted, why, hint, owed, exiting>>

Leave(reason) ==
    /\ pc' = "release"
    /\ why' = reason
    /\ UNCHANGED timer

\* poll(mEventFd, kWaitMs)
PollAbort ==
    /\ pc = "wait"
    /\ \/ aborted /\ Leave("abort")
       \/ Leave("error")
       \/ ~aborted /\ timer = 0 /\ pc' = "read" /\ UNCHANGED <<timer, why>>
    /\ UNCHANGED <<mState, mDurationMs, elapsed, aborted, timeout, hint, owed, exiting>>

\* pread(mIdleFd)
ReadIdle ==
    /\ pc = "read"
    /\ \/ Leave("error")
       \/ Leave("idle")
       \/ pc' = "poll" /\ timer' = timeout /\ UNCHANGED why
    /\ UNCHANGED <<mState, mDurationMs, elapsed, aborted, timeout, hint, owed, exiting>>

\* poll({mEventFd, mIdleFd}, timeout_ms)
PollIdle ==
    /\ pc = "poll"
    /\ \/ aborted /\ Leave("abort")
       \/ Leave("idle")
       \/ Leave("error")
       \/ ~aborted /\ timer = 0 /\ Leave("timeout")
    /\ UNCHANGED <<mState, mDurationMs, elapsed, aborted, timeout, hint, owed, exiting>>

\* Mutation of Release: the pending abort is not read away.
ReleaseKeepsAbort ==
    /\ pc = "release"
    /\ pc' = "cond"
    /\ hint' = (hint /\ mState # "WAITING")
    /\ mState' = IF mState = "WAITING" THEN "IDLE" ELSE mState
    /\ owed' = IF mState = "WAITING" THEN 0 ELSE owed
    /\ UNCHANGED <<mDurationMs, elapsed, aborted, timeout, timer, why, exiting>>

\* PerfRel when the wait was not aborted, else the pending abort is read away.
Release ==
    /\ pc = "release"
    /\ pc' = "cond"
    /\ \/ /\ mState = "WAITING"
          /\ hint' = FALSE
          /\ mState' = "IDLE"
          /\ owed' = 0
          /\ UNCHANGED aborted
       \/ /\ mState # "WAITING"
          /\ aborted' = FALSE
          /\ UNCHANGED <<mState, hint, owed>>
    /\ UNCHANGED <<mDurationMs, elapsed, timeout, timer, why, exiting>>

Routine == WaitCond \/ EnterWaitForIdle \/ PollAbort \/ ReadIdle \/ PollIdle \/ Release
-----------------------------------------------------------------------------

\* One tick: a poll may return late, never early.
HandlerTick ==
    /\ elapsed' = IF elapsed < Late THEN elapsed + 1 ELSE elapsed
    /\ timer' = IF pc \in {"wait", "poll"} /\ timer > 0 THEN timer - 1 ELSE timer
    /\ owed' = IF owed > 0 THEN owed - 1 ELSE owed
    /\ UNCHANGED <<mState, mDurationMs, aborted, pc, timeout, why, hint, exiting>>

AcquireAny == \E duration \in Durations : Acquire(duration)

HandlerNext ==
    \/ HandlerInit
    \/ AcquireAny
    \/ ExitLocked
    \/ ExitNotify
    \/ ExitJoined
    \/ Routine
    \/ HandlerTick

\* The steps Routine takes by itself: nobody promises that a poll fails or that
\* the display becomes idle, only that a poll returns once it is aborted or its
\* time is up.
RoutineMust ==
    \/ WaitCond \/ EnterWaitForIdle \/ ReadIdle \/ Release
    \/ (aborted \/ timer = 0) /\ (PollAbort \/ PollIdle)

\* Routine has a thread of its own and time passes; Exit runs to its end.  No
\* client has to call Acquire and nobody has to call Exit.
HandlerFairness ==
    /\ WF_handlerVars(RoutineMust)
    /\ WF_handlerVars(HandlerTick)
    /\ WF_handlerVars(ExitNotify)
    /\ WF_handlerVars(ExitJoined)

HandlerSpec == Start /\ [][HandlerNext]_handlerVars /\ HandlerFairness
-----------------------------------------------------------------------------
\* DoHint and EndHint alternate: as long as the handler runs, the INTERACTION
\* hint is held exactly while mState is INTERACTION or WAITING, whatever Acquire
\* does between two unlocked steps of Routine.
HintMatchesState ==
    mState # "UNINITIALIZED" => (hint <=> mState \in {"INTERACTION", "WAITING"})

\* Release() "clear[s] any wait aborts pending in event fd": a wait never starts
\* with the abort of an earlier one, which would end it at once.
NoStaleAbort == mState = "WAITING" => ~aborted

\* What holds between any two steps of Routine and Acquire: mDurationMs is within
\* its bounds for every argument, the hint is held exactly while mState says so,
\* and no wait starts with an old abort.
HintSound == HandlerTypeOK /\ HintMatchesState /\ NoStaleAbort

\* "don't hint if previous hint's duration covers this hint's duration": an
\* Acquire that returns early is covered, and one that shortens mDurationMs
\* restarts the wait.  The hint is let go only when the display is idle, a poll
\* or read fails, or every Acquire had the duration it asked for.
ReleasedOnlyWhenDue ==
    [][hint /\ ~hint' => why \in {"idle", "error"} \/ (why = "timeout" /\ owed = 0)]_handlerVars

\* Unless clients call Acquire for ever, the hint is let go: no wakeup of
\* Routine is lost and no wait goes on without a timeout.
HintReleased ==
    \/ []<><<AcquireAny>>_handlerVars
    \/ []<>(~hint \/ mState = "UNINITIALIZED")

\* Exit() returns: Routine leaves its wait or its condition variable and ends,
\* wherever it was when Exit took mLock.
ExitReturns == exiting # "no" ~> exiting = "done"

\* Routine gets on: the hint is let go when Acquire is no longer called, and a
\* thread in Exit() is not kept waiting.
RoutineProgress == HintReleased /\ ExitReturns
=============================================================================
