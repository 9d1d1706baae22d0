---------------------------- MODULE Fingerprint ----------------------------
(***************************************************************************)
(* The AIDL fingerprint service: Fingerprint, its Session and the          *)
(* session's LockoutTracker.                                               *)
(*                                                                         *)
(* Three kinds of thread share a session without a lock: the binder        *)
(* thread, the vendor library's notify thread, and a detached thread for   *)
(* each lockout timer.  Everything that reads a flag and writes one later  *)
(* is several steps: checkSensorLockout reads the mode, reports it, and    *)
(* then sets the abort flag or tests the started flag, starts a timer and  *)
(* sets the flag; so two threads may both start one.  A call of the        *)
(* tracker that only writes is one step.                                   *)
(*                                                                         *)
(* The tracker's mode is not initialized by its constructor: owner.modes   *)
(* is what memory may hold, "other" a value that is no mode.               *)
(***************************************************************************)
EXTENDS Integers, Sequences

CONSTANTS
  LOCKOUT_TIMED_THRESHOLD, LOCKOUT_PERMANENT_THRESHOLD,
  Timers,        \* as many as may exist at once
  Owners         \* what the phone's owner does, one record for each case checked:
                 \* modes (a subset of {"none", "timed", "permanent", "other"}),
                 \* templates (enrolled fingers, enumerated in order), attempts
                 \* (fingers put on the sensor) and sessions, at most

Threads == {"binder", "vendor"}

VARIABLES
  owner,                     \* a member of Owners, constant
  mSession,                  \* number of the current session, 0 before the first
  mClosed,                   \* it is closed
  mCurrentMode, mFailedCount,
  mIsLockoutTimerStarted, mIsLockoutTimerAborted,
  timer,                     \* timer |-> where its thread is
  thread,                    \* thread |-> where it is in its call
  enrollments,               \* the static vector of notify
  enumerating,               \* templates the vendor has yet to report
  attempts,                  \* for the bound
  lockout,                   \* the framework's last news: "none", "timed", "permanent"
  muddled,                   \* what the flags said of the timer was out of date when a
                             \* timed lockout was reported
  undone,                    \* a permanent lockout ended by itself
  raced,                     \* there has been a Collision
  dropped,                   \* a template was reported while no session was open
  listed,                    \* the enumerations reported: the list is exact
  lingering,                 \* what was under way when the session was closed
  late                       \* calls to a closed session's callback: what made them

fingerprintVars == <<owner, mSession, mClosed, mCurrentMode, mFailedCount,
  mIsLockoutTimerStarted, mIsLockoutTimerAborted, timer, thread, enrollments,
  enumerating, attempts, lockout, muddled, undone, raced, dropped, listed, lingering, late>>

sessionState == <<owner, mSession, mClosed, lingering>>
enumeration == <<enrollments, enumerating, dropped, listed>>
lockoutState == <<mCurrentMode, mFailedCount, mIsLockoutTimerStarted,
                  mIsLockoutTimerAborted, lockout, muddled, undone, raced>>

Idle == [at |-> "idle", session |-> 0, mode |-> "none", remaining |-> 0]

FingerprintInit ==
  /\ owner \in Owners
  /\ mSession = 0 /\ mClosed = TRUE
  /\ mCurrentMode = "none" /\ mFailedCount = 0
  /\ mIsLockoutTimerStarted = FALSE /\ mIsLockoutTimerAborted = FALSE
  /\ timer = [t \in Timers |-> "none"]
  /\ thread = [t \in Threads |-> Idle]
  /\ enrollments = <<>> /\ enumerating = 0 /\ attempts = 0
  /\ lockout = "none" /\ muddled = FALSE /\ undone = FALSE /\ raced = FALSE
  /\ dropped = FALSE /\ listed = TRUE /\ lingering = {} /\ late = {}

----------------------------------------------------------------------------
\* Fingerprint::createSession, which aborts while a session is open: the
\* framework closes one before it asks for the next.  The session gets a copy
\* of the service's tracker, which never counts anything.  What still runs for
\* the session before runs on an object that is gone.
createSession ==
  /\ mClosed /\ mSession < owner.sessions /\ thread["binder"].at = "idle"
  /\ mSession' = mSession + 1 /\ mClosed' = FALSE
  /\ mCurrentMode' \in owner.modes /\ mFailedCount' = 0
  /\ mIsLockoutTimerStarted' = FALSE /\ mIsLockoutTimerAborted' = FALSE
  /\ lockout' = "none" /\ muddled' = FALSE /\ undone' = FALSE /\ raced' = FALSE
  /\ timer' = [t \in Timers |-> IF timer[t] = "none" THEN "none" ELSE "orphan"]
  /\ thread' = [thread EXCEPT !["vendor"].at = IF @ \in {"idle", "enumerated"} THEN @ ELSE "stray"]
  /\ UNCHANGED <<owner, lingering, attempts, late, enumeration>>

\* close, also for a client that died.
closeFingerprint ==
  /\ ~ mClosed /\ thread["binder"].at = "idle"
  /\ mClosed' = TRUE
  /\ lingering' = lingering \cup {t \in {"vendor"} : thread[t].at # "idle"}
                                 \cup {"timer" : t \in {u \in Timers : timer[u] # "none"}}
  /\ UNCHANGED <<owner, mSession, lockoutState, timer, thread, attempts, late,
                 enumeration>>

\* A call of the session's callback, with the session it was made for.
Called(s, by) == late' = IF s = mSession /\ ~ mClosed THEN late ELSE late \cup {by}

----------------------------------------------------------------------------
(* Collisions.                                                             *)

\* Inside checkSensorLockout, after a failed attempt or in authenticate.
Checking(t) == thread[t].at \in {"check", "lapse", "report", "end", "test", "flag"}

\* A timer between its test of the abort flag and its end.
Expiring == \E t \in Timers : timer[t] \in {"reset", "clear", "unstart", "unabort"}

\* A timer of the session that has not ended.
Active(t) == timer[t] \notin {"none", "orphan"}

\* A timer expires while a thread is inside checkSensorLockout; there are two
\* timers; or an attempt is counted while getMode is about to end a timed lockout.
Collision ==
  \/ Expiring /\ \E t \in Threads : Checking(t)
  \/ \E t, u \in Timers : t # u /\ Active(t) /\ Active(u)
  \/ \E t \in Threads : thread[t].at = "lapse" /\ mCurrentMode # "timed"

NoteCollision == raced' = (raced \/ Collision')

----------------------------------------------------------------------------
(* The lockout tracker.                                                    *)

reset(clearAttemptCounter) ==
  /\ mFailedCount' = IF clearAttemptCounter THEN 0 ELSE mFailedCount
  /\ mCurrentMode' = "none"

addFailedAttempt ==
  /\ mFailedCount' = mFailedCount + 1
  /\ mCurrentMode' = IF mFailedCount' >= LOCKOUT_PERMANENT_THRESHOLD THEN "permanent"
                     ELSE IF mFailedCount' >= LOCKOUT_TIMED_THRESHOLD /\ mCurrentMode = "none"
                     THEN "timed" ELSE mCurrentMode

----------------------------------------------------------------------------
(* checkSensorLockout, by either thread.                                   *)

\* getMode; a timed lockout that has lasted for 10 s is ended in a step of its own.
getMode(t) ==
  /\ thread[t].at = "check"
  /\ \/ /\ thread' = [thread EXCEPT ![t] =
             IF mCurrentMode \in {"timed", "permanent"}
               THEN [@ EXCEPT !.at = "report", !.mode = mCurrentMode] ELSE Idle]
     \/ /\ mCurrentMode = "timed"
        /\ thread' = [thread EXCEPT ![t].at = "lapse"]
  /\ UNCHANGED <<sessionState, mCurrentMode, mFailedCount, mIsLockoutTimerStarted,
                 mIsLockoutTimerAborted, timer, attempts, lockout, muddled, undone,
                 late, enumeration>>
  /\ NoteCollision

lapse(t) ==
  /\ thread[t].at = "lapse"
  /\ mCurrentMode' = "none"
  /\ undone' = (undone \/ mCurrentMode = "permanent")
  /\ thread' = [thread EXCEPT ![t] = Idle]
  /\ UNCHANGED <<sessionState, mFailedCount, mIsLockoutTimerStarted, mIsLockoutTimerAborted,
                 timer, attempts, lockout, muddled, late, enumeration>>
  /\ NoteCollision

\* onLockoutPermanent or onLockoutTimed.
reportLockout(t) ==
  LET mode == thread[t].mode
  IN /\ thread[t].at = "report"
     /\ lockout' = mode
     /\ Called(thread[t].session, t)
     /\ thread' = [thread EXCEPT ![t].at = IF mode = "permanent" THEN "end" ELSE "test"]
     /\ UNCHANGED <<sessionState, mCurrentMode, mFailedCount, mIsLockoutTimerStarted,
                    mIsLockoutTimerAborted, timer, attempts, muddled, undone, enumeration>>
     /\ NoteCollision

\* Mutation of endTimer: a permanent lockout leaves the timer alone.
NeverAborts(t) ==
  /\ thread[t].at = "end"
  /\ thread' = [thread EXCEPT ![t] = Idle]
  /\ UNCHANGED <<sessionState, mCurrentMode, mFailedCount, mIsLockoutTimerStarted,
                 mIsLockoutTimerAborted, timer, attempts, lockout, muddled, undone, late,
                 enumeration>>
  /\ NoteCollision

\* A permanent lockout aborts the timer of a timed one.
endTimer(t) ==
  /\ thread[t].at = "end"
  /\ mIsLockoutTimerAborted' = TRUE
  /\ muddled' = (muddled \/ lockout = "timed")
  /\ thread' = [thread EXCEPT ![t] = Idle]
  /\ UNCHANGED <<sessionState, mCurrentMode, mFailedCount, mIsLockoutTimerStarted, timer,
                 attempts, lockout, undone, late, enumeration>>
  /\ NoteCollision

\* The test of mIsLockoutTimerStarted, and startLockoutTimer up to the start of
\* the timer's thread, which may run at once.
startLockoutTimer(t) ==
  /\ thread[t].at = "test"
  /\ IF mIsLockoutTimerStarted
       THEN UNCHANGED timer /\ thread' = [thread EXCEPT ![t] = Idle]
       ELSE /\ \E u \in Timers : timer[u] = "none"
            /\ timer' = [timer EXCEPT ![CHOOSE u \in Timers : timer[u] = "none"] = "sleeping"]
            /\ thread' = [thread EXCEPT ![t].at = "flag"]
  /\ muddled' = (\/ muddled \/ mIsLockoutTimerAborted
                 \/ (Expiring /\ mIsLockoutTimerStarted))
  /\ UNCHANGED <<sessionState, mCurrentMode, mFailedCount, mIsLockoutTimerStarted,
                 mIsLockoutTimerAborted, attempts, lockout, undone, late, enumeration>>
  /\ NoteCollision

timerStarted(t) ==
  /\ thread[t].at = "flag"
  /\ mIsLockoutTimerStarted' = TRUE
  /\ thread' = [thread EXCEPT ![t] = Idle]
  /\ UNCHANGED <<sessionState, mCurrentMode, mFailedCount, mIsLockoutTimerAborted, timer,
                 attempts, lockout, muddled, undone, late, enumeration>>
  /\ NoteCollision

----------------------------------------------------------------------------
(* The binder thread.                                                      *)

Begin(step) ==
  /\ ~ mClosed /\ thread["binder"].at = "idle"
  /\ thread' = [thread EXCEPT !["binder"] = [Idle EXCEPT !.at = step, !.session = mSession]]

\* authenticate does not mind the answer of checkSensorLockout: the vendor
\* library authenticates in any case.
authenticate ==
  /\ Begin("check")
  /\ UNCHANGED <<sessionState, mCurrentMode, mFailedCount, mIsLockoutTimerStarted,
                 mIsLockoutTimerAborted, lockout, muddled, undone, timer, attempts, late,
                 enumeration>>
  /\ NoteCollision

\* resetLockout: clearLockout(true), which resets the tracker and then tells the
\* framework; then the running timer is aborted.
resetLockout ==
  /\ Begin("cleared")
  /\ reset(TRUE)
  /\ UNCHANGED <<sessionState, mIsLockoutTimerStarted, mIsLockoutTimerAborted, lockout, timer,
                 attempts, muddled, undone, late, enumeration>>
  /\ NoteCollision

tellCleared ==
  /\ thread["binder"].at = "cleared"
  /\ lockout' = "none"
  /\ Called(thread["binder"].session, "binder")
  /\ thread' = [thread EXCEPT !["binder"].at = "abort"]
  /\ UNCHANGED <<sessionState, mCurrentMode, mFailedCount, mIsLockoutTimerStarted,
                 mIsLockoutTimerAborted, timer, attempts, muddled, undone, raced, enumeration>>

abortTimer ==
  /\ thread["binder"].at = "abort"
  /\ mIsLockoutTimerAborted' = (mIsLockoutTimerAborted \/ mIsLockoutTimerStarted)
  /\ muddled' = (muddled \/ (mIsLockoutTimerStarted /\ lockout = "timed"))
  /\ thread' = [thread EXCEPT !["binder"] = Idle]
  /\ UNCHANGED <<sessionState, mCurrentMode, mFailedCount, mIsLockoutTimerStarted,
                 timer, attempts, lockout, undone, raced, late, enumeration>>

enumerateEnrollments ==
  /\ ~ mClosed /\ thread["binder"].at = "idle" /\ enumerating = 0
  /\ thread["vendor"].at # "enumerated"
  /\ enumerating' = owner.templates
  /\ UNCHANGED <<sessionState, lockoutState, timer, thread, enrollments, attempts,
                 dropped, listed, late>>

----------------------------------------------------------------------------
(* The vendor's thread.  Fingerprint::notify drops what comes without an   *)
(* open session, then Session::notify handles the message.                 *)

NotifyOf(step, remaining) ==
  thread' = [thread EXCEPT !["vendor"] =
    [at |-> step, session |-> mSession, mode |-> "none", remaining |-> remaining]]

\* Mutation of Unheard: a closed session is notified.
AlwaysHeard == FALSE

\* Fingerprint::notify finds no session, or a closed one.
Unheard == mClosed

notify ==
  /\ thread["vendor"].at = "idle"
  /\ \/ /\ enumerating > 0
        /\ enumerating' = enumerating - 1
        /\ IF Unheard THEN dropped' = TRUE /\ UNCHANGED thread
           ELSE NotifyOf("enumerated", enumerating') /\ UNCHANGED dropped
        /\ UNCHANGED attempts
     \/ /\ attempts < owner.attempts /\ ~ mClosed
        /\ attempts' = attempts + 1
        /\ NotifyOf("succeeded", 0) \/ NotifyOf("failed", 0)
        /\ UNCHANGED <<enumerating, dropped>>
  /\ UNCHANGED <<sessionState, lockoutState, timer, enrollments, listed, late>>

\* FINGERPRINT_AUTHENTICATED with a finger: the framework is told, then the
\* tracker is reset.  A running timer goes on.
authenticated ==
  /\ thread["vendor"].at = "succeeded"
  /\ reset(TRUE)
  /\ Called(thread["vendor"].session, "vendor")
  /\ thread' = [thread EXCEPT !["vendor"] = Idle]
  /\ UNCHANGED <<sessionState, mIsLockoutTimerStarted, mIsLockoutTimerAborted, timer,
                 attempts, lockout, muddled, undone, enumeration>>
  /\ NoteCollision

\* ... and without: the attempt counts, and checkSensorLockout follows.
notRecognized ==
  /\ thread["vendor"].at = "failed"
  /\ addFailedAttempt
  /\ Called(thread["vendor"].session, "vendor")
  /\ thread' = [thread EXCEPT !["vendor"].at = "check"]
  /\ UNCHANGED <<sessionState, mIsLockoutTimerStarted, mIsLockoutTimerAborted, timer,
                 attempts, lockout, muddled, undone, enumeration>>
  /\ NoteCollision

\* What the vector keeps: nothing once the last template has come.
Collected(list, left) == IF left > 0 THEN list ELSE <<>>

\* FINGERPRINT_TEMPLATE_ENUMERATING: the list is kept across calls, and goes
\* up with the last template.
enumerated ==
  LET left == thread["vendor"].remaining
      list == Append(enrollments, owner.templates - left)
  IN /\ thread["vendor"].at = "enumerated"
     /\ enrollments' = Collected(list, left)
     /\ IF left > 0
          THEN UNCHANGED <<listed, late>>
          ELSE /\ listed' = (listed /\ list = [i \in 1 .. owner.templates |-> i])
               /\ Called(thread["vendor"].session, "vendor")
     /\ thread' = [thread EXCEPT !["vendor"] = Idle]
     /\ UNCHANGED <<sessionState, lockoutState, timer, enumerating, attempts, dropped>>

\* A message still in its handler when the session is replaced.
stray ==
  /\ thread["vendor"].at = "stray"
  /\ late' = late \cup {"vendor"}
  /\ thread' = [thread EXCEPT !["vendor"] = Idle]
  /\ UNCHANGED <<sessionState, lockoutState, timer, attempts, enumeration>>

----------------------------------------------------------------------------
(* lockoutTimerExpired, on the timer's thread: the flag is read, the       *)
(* tracker reset, the framework told, and the two flags reset one after    *)
(* the other.                                                              *)

expire(t) ==
  /\ timer[t] = "sleeping"
  /\ timer' = [timer EXCEPT ![t] =
       IF mIsLockoutTimerAborted THEN "unstart" ELSE "reset"]
  /\ UNCHANGED <<sessionState, mCurrentMode, mFailedCount, mIsLockoutTimerStarted,
                 mIsLockoutTimerAborted, thread, attempts, lockout, muddled, undone,
                 late, enumeration>>
  /\ NoteCollision

clearLockout(t) ==
  /\ timer[t] = "reset"
  /\ reset(FALSE)
  /\ undone' = (undone \/ mCurrentMode = "permanent")
  /\ timer' = [timer EXCEPT ![t] = "clear"]
  /\ UNCHANGED <<sessionState, mIsLockoutTimerStarted, mIsLockoutTimerAborted, thread,
                 attempts, lockout, muddled, late, enumeration>>
  /\ NoteCollision

onLockoutCleared(t) ==
  /\ timer[t] = "clear"
  /\ lockout' = "none"
  /\ undone' = (undone \/ mCurrentMode = "permanent")
  /\ Called(mSession, "timer")
  /\ timer' = [timer EXCEPT ![t] = "unstart"]
  /\ UNCHANGED <<sessionState, mCurrentMode, mFailedCount, mIsLockoutTimerStarted,
                 mIsLockoutTimerAborted, thread, attempts, muddled, enumeration>>
  /\ NoteCollision

\* Mutation of unstart: the timer still counts as started.
UnstartForgets(t) ==
  /\ timer[t] = "unstart"
  /\ timer' = [timer EXCEPT ![t] = "unabort"]
  /\ UNCHANGED <<sessionState, mCurrentMode, mFailedCount, mIsLockoutTimerStarted,
                 mIsLockoutTimerAborted, thread, attempts, lockout, muddled, undone, late,
                 enumeration>>
  /\ NoteCollision

\* A thread that has started a timer and not set the flag sets it after this, and
\* it stays set.
unstart(t) ==
  /\ timer[t] = "unstart"
  /\ timer' = [timer EXCEPT ![t] = "unabort"]
  /\ mIsLockoutTimerStarted' = FALSE
  /\ muddled' = (muddled \/ \E u \in Threads : thread[u].at = "flag")
  /\ UNCHANGED <<sessionState, mCurrentMode, mFailedCount, mIsLockoutTimerAborted,
                 thread, attempts, lockout, undone, late, enumeration>>
  /\ NoteCollision

unabort(t) ==
  /\ timer[t] = "unabort"
  /\ timer' = [timer EXCEPT ![t] = "none"]
  /\ mIsLockoutTimerAborted' = FALSE
  /\ UNCHANGED <<sessionState, mCurrentMode, mFailedCount, mIsLockoutTimerStarted,
                 thread, attempts, lockout, muddled, undone, late, enumeration>>
  /\ NoteCollision

\* The timer of a session that is gone.
orphan(t) ==
  /\ timer[t] = "orphan"
  /\ timer' = [timer EXCEPT ![t] = "none"]
  /\ late' = late \cup {"timer"}
  /\ UNCHANGED <<sessionState, lockoutState, thread, attempts, enumeration>>

TimerStep(t) ==
  expire(t) \/ clearLockout(t) \/ onLockoutCleared(t) \/ unstart(t) \/ unabort(t) \/ orphan(t)
Check(t) == \/ getMode(t) \/ lapse(t) \/ reportLockout(t) \/ endTimer(t)
            \/ startLockoutTimer(t) \/ timerStarted(t)
Handling == authenticated \/ notRecognized \/ enumerated \/ stray

FingerprintNext ==
  \/ createSession \/ closeFingerprint \/ authenticate
  \/ resetLockout \/ tellCleared \/ abortTimer
  \/ enumerateEnrollments \/ notify \/ Handling
  \/ \E t \in Threads : Check(t)
  \/ \E t \in Timers : TimerStep(t)

\* A sleep ends, and a thread inside a handler goes on.
FingerprintFairness ==
  /\ \A t \in Timers : WF_fingerprintVars(TimerStep(t))
  /\ \A t \in Threads : WF_fingerprintVars(Check(t))
  /\ WF_fingerprintVars(Handling) /\ WF_fingerprintVars(tellCleared \/ abortTimer)

FingerprintSpec == FingerprintInit /\ [][FingerprintNext]_fingerprintVars /\ FingerprintFairness

----------------------------------------------------------------------------
\* A permanent lockout is ended only by resetLockout and a recognized finger, not
\* by the timer of a timed lockout before it (checkSensorLockout aborts that timer)
\* nor by getMode, except after a Collision: the timer passed its test of the abort
\* flag while checkSensorLockout was under way, two threads started a timer each
\* (the first to end takes back the abort meant for both), or getMode had found the
\* timed lockout over when the last attempt was counted.
PermanentKept == undone => raced

\* The list of enrollments that goes up is the vendor's, each template once
\* and in order, though the vector that collects it outlives sessions; only a
\* template reported while no session was open breaks it.
EnrollmentsExact == ~ listed => dropped

\* After onSessionClosed the callback is not used again, except by a message
\* that was already past the closed check, by the timer it starts, and by a
\* timer that was running.
QuietAfterClose == late # {} => lingering # {} /\ (late = {"vendor"} => "vendor" \in lingering)

\* What goes up to the framework is what its session asked for: whole enrollment
\* lists, and nothing after the session was closed.
UpcallsMatchSession == EnrollmentsExact /\ QuietAfterClose

\* A timed lockout that the framework was told of ends in onLockoutCleared or
\* in a permanent one or with the session, unless the flags misled it: it began
\* with an abort of the previous timer still pending or that timer already past
\* its work, an abort meant for an earlier lockout came after it, or a timer ended
\* before its starter had set mIsLockoutTimerStarted, which then stays set.
LockoutEnds == (lockout = "timed" /\ ~ muddled) ~> (lockout # "timed" \/ muddled \/ mClosed)
=============================================================================
