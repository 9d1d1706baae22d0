-------------------------- MODULE FingerprintProofs --------------------------
(***************************************************************************)
(* A permanent lockout is ended by nothing but resetLockout and a          *)
(* recognized finger, for any thresholds, templates, attempts, timers and  *)
(* number of sessions, as long as there is no Collision.                   *)
(***************************************************************************)
EXTENDS Fingerprint, TLAPS

\* The records keep their fields, and a timer is at one of its steps.
Fields ==
  /\ DOMAIN thread = Threads
  /\ \A t \in Threads : DOMAIN thread[t] = {"at", "session", "mode", "remaining"}
  /\ DOMAIN timer = Timers
  /\ \A t \in Timers :
       timer[t] \in {"none", "sleeping", "reset", "clear", "unstart", "unabort", "orphan"}

\* The vendor's thread is about to tell the timer of a permanent lockout.
AboutToAbort ==
  \/ thread["vendor"].at \in {"check", "end"}
  \/ thread["vendor"].at = "report" /\ thread["vendor"].mode = "permanent"

\* A thread has found a timed lockout and has yet to start its timer.
AboutToStart(t) ==
  \/ thread[t].at = "test"
  \/ thread[t].at = "report" /\ thread[t].mode # "permanent"

\* No timer runs, and no thread is about to start one.
NoTimer ==
  /\ \A t \in Timers : ~ Active(t)
  /\ \A t \in Threads : ~ AboutToStart(t)

\* In a permanent lockout the timer is aborted, or will be, or does not exist; and one
\* that is past its test of the flag met no permanent lockout.
PermanentGuarded ==
  /\ mCurrentMode = "permanent" => mIsLockoutTimerAborted \/ AboutToAbort \/ NoTimer
  /\ \A t \in Timers : timer[t] \in {"reset", "clear"} => mCurrentMode # "permanent"

\* The inductive invariant: what holds until the first Collision.
IInv == Fields /\ (raced \/ (~ Collision /\ PermanentGuarded /\ ~ undone))
-----------------------------------------------------------------------------
\* No session, no timer.
LEMMA InitHasIInv == FingerprintInit => IInv
  BY DEF FingerprintInit, IInv, Fields, Collision, Checking, Expiring, PermanentGuarded, Active,
         Idle

\* Every action keeps the fields of the records.
LEMMA StepKeepsFields == Fields /\ [FingerprintNext]_fingerprintVars => Fields'
<1> SUFFICES ASSUME Fields, [FingerprintNext]_fingerprintVars PROVE Fields'
  OBVIOUS
<1> USE DEF Fields, Idle
<1>1. CASE createSession
  BY <1>1 DEF createSession
<1>2. CASE closeFingerprint \/ enumerateEnrollments
  BY <1>2 DEF closeFingerprint, enumerateEnrollments
<1>3. CASE authenticate \/ resetLockout
  BY <1>3, Zenon DEF authenticate, resetLockout, Begin
<1>4. CASE tellCleared \/ abortTimer
  BY <1>4 DEF tellCleared, abortTimer
<1>5. CASE notify
  BY <1>5 DEF notify, NotifyOf
<1>6. CASE authenticated \/ notRecognized \/ enumerated \/ stray
  BY <1>6, Zenon DEF authenticated, notRecognized, enumerated, stray
<1>7. ASSUME NEW t \in Threads, getMode(t) \/ lapse(t) PROVE Fields'
  BY <1>7 DEF getMode, lapse
<1>8. ASSUME NEW t \in Threads, reportLockout(t) \/ endTimer(t) \/ timerStarted(t) PROVE Fields'
  BY <1>8 DEF reportLockout, endTimer, timerStarted
<1>9. ASSUME NEW t \in Threads, startLockoutTimer(t) PROVE Fields'
  BY <1>9 DEF startLockoutTimer
<1>10. ASSUME NEW t \in Timers, TimerStep(t) PROVE Fields'
  BY <1>10, Zenon DEF TimerStep, expire, clearLockout, onLockoutCleared, unstart, unabort, orphan
<1>11. CASE UNCHANGED fingerprintVars
  BY <1>11 DEF fingerprintVars
<1> QED
  BY <1>1, <1>2, <1>3, <1>4, <1>5, <1>6, <1>7, <1>8, <1>9, <1>10, <1>11
  DEF FingerprintNext, Handling, Check

\* A step that leaves the timers alone, begins no permanent lockout, and takes no thread
\* from its way to the abort or towards starting a timer.
LEMMA GuardQuiet ==
  ASSUME PermanentGuarded, UNCHANGED timer,
         mIsLockoutTimerAborted => mIsLockoutTimerAborted',
         mCurrentMode' = mCurrentMode \/ mCurrentMode' # "permanent",
         AboutToAbort => AboutToAbort' \/ mIsLockoutTimerAborted',
         \A t \in Threads : AboutToStart(t)' => AboutToStart(t)
  PROVE  PermanentGuarded'
  BY DEF PermanentGuarded, NoTimer, Active

\* Nothing but a new session takes a Collision back.
LEMMA RacedStays ==
  ASSUME [FingerprintNext]_fingerprintVars, ~ createSession, raced
  PROVE  raced'
<1>1. CASE closeFingerprint \/ enumerateEnrollments \/ notify \/ enumerated \/ stray
  BY <1>1, Zenon DEF closeFingerprint, enumerateEnrollments, notify, enumerated, stray, lockoutState
<1>2. CASE authenticate \/ resetLockout \/ tellCleared \/ abortTimer \/ authenticated \/ notRecognized
  BY <1>2, Zenon DEF authenticate, resetLockout, tellCleared, abortTimer, authenticated,
                     notRecognized, NoteCollision
<1>3. ASSUME NEW t \in Threads, Check(t) PROVE raced'
  BY <1>3, Zenon DEF Check, getMode, lapse, reportLockout, endTimer, startLockoutTimer,
                     timerStarted, NoteCollision
<1>4. ASSUME NEW t \in Timers, TimerStep(t) PROVE raced'
  BY <1>4, Zenon DEF TimerStep, expire, clearLockout, onLockoutCleared, unstart, unabort, orphan,
                     NoteCollision, lockoutState
<1>5. CASE UNCHANGED fingerprintVars
  BY <1>5, Zenon DEF fingerprintVars
<1> QED BY <1>1, <1>2, <1>3, <1>4, <1>5 DEF FingerprintNext, Handling

\* raced records every Collision: the steps that do not look for one make none.
LEMMA CollisionNoted ==
  ASSUME Fields, ~ Collision, [FingerprintNext]_fingerprintVars, ~ raced'
  PROVE  ~ Collision'
<1>1. CASE createSession
  BY <1>1 DEF createSession, Collision, Checking, Expiring, Active, Fields, Threads
<1>2. CASE closeFingerprint \/ enumerateEnrollments
  <2>1. UNCHANGED <<timer, thread, mCurrentMode>>
    BY <1>2, Zenon DEF closeFingerprint, enumerateEnrollments, lockoutState
  <2> QED BY <2>1, Zenon DEF Collision, Checking, Expiring, Active
<1>3. CASE notify \/ enumerated \/ stray \/ tellCleared \/ abortTimer
  <2>1. UNCHANGED <<timer, mCurrentMode>>
    BY <1>3, Zenon DEF notify, enumerated, stray, tellCleared, abortTimer, lockoutState
  <2>2. \A t \in Threads : Checking(t)' => thread'[t] = thread[t]
    <3>1. CASE notify
      BY <3>1 DEF notify, NotifyOf, Fields, Checking, Threads
    <3>2. CASE enumerated \/ stray
      BY <3>2 DEF enumerated, stray, Idle, Fields, Checking, Threads
    <3>3. CASE tellCleared \/ abortTimer
      BY <3>3 DEF tellCleared, abortTimer, Idle, Fields, Checking, Threads
    <3> QED BY <1>3, <3>1, <3>2, <3>3
  <2>3. (\E t \in Threads : Checking(t)') => \E t \in Threads : Checking(t)
    BY <2>2, Zenon DEF Checking
  <2>4. \A t \in Threads : thread'[t].at = "lapse" => thread[t].at = "lapse"
    BY <2>2, Zenon DEF Checking
  <2> QED BY <2>1, <2>3, <2>4, Zenon DEF Collision, Expiring, Active
<1>4. CASE authenticate \/ resetLockout \/ authenticated \/ notRecognized
  BY <1>4, Zenon DEF authenticate, resetLockout, authenticated, notRecognized, NoteCollision
<1>5. ASSUME NEW t \in Threads, Check(t) PROVE ~ Collision'
  BY <1>5, Zenon DEF Check, getMode, lapse, reportLockout, endTimer, startLockoutTimer,
                     timerStarted, NoteCollision
<1>6. ASSUME NEW t \in Timers, TimerStep(t) PROVE ~ Collision'
  <2>1. CASE orphan(t)
    <3>1. /\ UNCHANGED <<thread, mCurrentMode>>
          /\ \A u \in Timers : timer'[u] = IF u = t THEN "none" ELSE timer[u]
      BY <2>1 DEF orphan, lockoutState, Fields
    <3>2. (Expiring' => Expiring) /\ \A u \in Timers : Active(u)' => Active(u)
      BY <3>1 DEF Expiring, Active
    <3> QED BY <3>1, <3>2, Zenon DEF Collision, Checking
  <2>2. CASE ~ orphan(t)
    BY <1>6, <2>2, Zenon DEF TimerStep, expire, clearLockout, onLockoutCleared, unstart, unabort,
                             NoteCollision
  <2> QED BY <2>1, <2>2
<1>7. CASE UNCHANGED fingerprintVars
  <2>1. UNCHANGED <<timer, thread, mCurrentMode>>
    BY <1>7, Zenon DEF fingerprintVars
  <2> QED BY <2>1, Zenon DEF Collision, Checking, Expiring, Active
<1> QED BY <1>1, <1>2, <1>3, <1>4, <1>5, <1>6, <1>7 DEF FingerprintNext, Handling

\* A step of a thread inside checkSensorLockout.
LEMMA CheckKeepsGuard ==
  ASSUME Fields, ~ Collision, PermanentGuarded, ~ undone, NEW t \in Threads, Check(t),
         ~ Collision'
  PROVE  PermanentGuarded' /\ ~ undone'
<1> USE DEF Threads
<1>0. \A u \in Threads \ {t} : thread'[u] = thread[u]
  <2>1. CASE getMode(t) \/ lapse(t)
    BY <2>1 DEF getMode, lapse, Fields
  <2>2. CASE reportLockout(t) \/ endTimer(t)
    BY <2>2 DEF reportLockout, endTimer, Fields
  <2>3. CASE startLockoutTimer(t) \/ timerStarted(t)
    BY <2>3 DEF startLockoutTimer, timerStarted, Fields
  <2> QED BY <2>1, <2>2, <2>3 DEF Check
<1>1. CASE getMode(t)
  <2>1. UNCHANGED <<timer, mCurrentMode, mIsLockoutTimerAborted, undone>> /\ thread[t].at = "check"
    BY <1>1, Zenon DEF getMode
  <2>2. CASE mCurrentMode # "permanent"
    BY <2>1, <2>2 DEF PermanentGuarded
  <2>3. CASE mCurrentMode = "permanent"
    <3>1. thread'[t].at = "report" /\ thread'[t].mode = "permanent"
      <4>1. thread' = [thread EXCEPT ![t] = [@ EXCEPT !.at = "report", !.mode = mCurrentMode]]
        BY <1>1, <2>3 DEF getMode
      <4> QED BY <4>1, <2>3 DEF Fields
    <3>2. AboutToAbort => AboutToAbort'
      BY <1>0, <3>1, Zenon DEF AboutToAbort
    <3>3. \A u \in Threads : AboutToStart(u)' => AboutToStart(u)
      BY <1>0, <3>1, Zenon DEF AboutToStart
    <3> QED BY <2>1, <3>2, <3>3, GuardQuiet, Zenon
  <2> QED BY <2>2, <2>3
<1>2. CASE lapse(t)
  <2>1. mCurrentMode # "permanent"
    BY <1>2 DEF lapse, Collision
  <2>2. mCurrentMode' = "none" /\ (undone' <=> undone \/ mCurrentMode = "permanent")
    BY <1>2, Zenon DEF lapse
  <2> QED BY <2>1, <2>2 DEF PermanentGuarded
<1>3. CASE reportLockout(t)
  <2>1. UNCHANGED <<timer, mCurrentMode, mIsLockoutTimerAborted, undone>> /\ thread[t].at = "report"
    BY <1>3, Zenon DEF reportLockout
  <2>2. thread'[t].at = IF thread[t].mode = "permanent" THEN "end" ELSE "test"
    BY <1>3 DEF reportLockout, Fields
  <2>3. AboutToAbort => AboutToAbort'
    BY <1>0, <2>1, <2>2 DEF AboutToAbort
  <2>4. \A u \in Threads : AboutToStart(u)' => AboutToStart(u)
    BY <1>0, <2>1, <2>2 DEF AboutToStart
  <2> QED BY <2>1, <2>3, <2>4, GuardQuiet, Zenon
<1>4. CASE endTimer(t)
  <2>1. /\ UNCHANGED <<timer, mCurrentMode, undone>>
        /\ mIsLockoutTimerAborted'
    BY <1>4, Zenon DEF endTimer
  <2>2. thread'[t].at = "idle"
    BY <1>4 DEF endTimer, Fields, Idle
  <2>3. \A u \in Threads : AboutToStart(u)' => AboutToStart(u)
    BY <1>0, <2>2 DEF AboutToStart
  <2> QED BY <2>1, <2>3, GuardQuiet, Zenon
<1>5. CASE startLockoutTimer(t)
  <2>1. UNCHANGED <<mCurrentMode, mIsLockoutTimerAborted, undone>> /\ thread[t].at = "test"
    BY <1>5, Zenon DEF startLockoutTimer
  <2>2. thread'[t].at \in {"idle", "flag"}
    BY <1>5 DEF startLockoutTimer, Fields, Idle
  <2>3. AboutToAbort => AboutToAbort'
    BY <1>0, <2>1, <2>2 DEF AboutToAbort
  <2>4. mCurrentMode = "permanent" => mIsLockoutTimerAborted \/ AboutToAbort
    BY <2>1 DEF PermanentGuarded, NoTimer, AboutToStart
  <2>5. \A u \in Timers : timer'[u] = timer[u] \/ timer'[u] = "sleeping"
    BY <1>5 DEF startLockoutTimer, Fields
  <2> QED BY <2>1, <2>3, <2>4, <2>5 DEF PermanentGuarded
<1>6. CASE timerStarted(t)
  <2>1. /\ UNCHANGED <<timer, mCurrentMode, mIsLockoutTimerAborted, undone>>
        /\ thread[t].at = "flag"
    BY <1>6, Zenon DEF timerStarted
  <2>2. thread'[t].at = "idle"
    BY <1>6 DEF timerStarted, Fields, Idle
  <2>3. AboutToAbort => AboutToAbort'
    BY <1>0, <2>1, <2>2 DEF AboutToAbort
  <2>4. \A u \in Threads : AboutToStart(u)' => AboutToStart(u)
    BY <1>0, <2>2 DEF AboutToStart
  <2> QED BY <2>1, <2>3, <2>4, GuardQuiet, Zenon
<1> QED BY <1>1, <1>2, <1>3, <1>4, <1>5, <1>6 DEF Check

\* A step of a timer.
LEMMA TimerKeepsGuard ==
  ASSUME Fields, ~ Collision, PermanentGuarded, ~ undone, NEW t \in Timers, TimerStep(t),
         ~ Collision'
  PROVE  PermanentGuarded' /\ ~ undone'
<1>0. UNCHANGED thread
  BY Zenon DEF TimerStep, expire, clearLockout, onLockoutCleared, unstart, unabort, orphan
<1>1. CASE orphan(t)
  <2>1. /\ UNCHANGED <<mCurrentMode, mIsLockoutTimerAborted, undone>>
        /\ \A u \in Timers : timer'[u] = IF u = t THEN "none" ELSE timer[u]
    BY <1>1 DEF orphan, lockoutState, Fields
  <2>2. NoTimer => NoTimer'
    BY <1>0, <2>1 DEF NoTimer, Active, AboutToStart
  <2> QED BY <1>0, <2>1, <2>2 DEF PermanentGuarded, AboutToAbort
<1>2. CASE expire(t)
  <2>1. /\ UNCHANGED <<mCurrentMode, mIsLockoutTimerAborted, undone>> /\ timer[t] = "sleeping"
        /\ \A u \in Timers : timer'[u] = IF u # t THEN timer[u]
                             ELSE IF mIsLockoutTimerAborted THEN "unstart" ELSE "reset"
    BY <1>2 DEF expire, Fields
  <2>2. Expiring'
    BY <2>1 DEF Expiring
  <2>3. \A u \in Threads : ~ Checking(u)
    BY <1>0, <2>2, Zenon DEF Collision, Checking
  <2>4. ~ AboutToAbort
    BY <2>3 DEF AboutToAbort, Checking, Threads
  <2>5. ~ NoTimer
    BY <2>1 DEF NoTimer, Active
  <2>6. mCurrentMode = "permanent" => mIsLockoutTimerAborted
    BY <2>4, <2>5 DEF PermanentGuarded
  <2> QED BY <2>1, <2>6 DEF PermanentGuarded
<1>3. CASE clearLockout(t)
  <2>1. /\ mCurrentMode' = "none" /\ timer[t] = "reset"
        /\ undone' <=> undone \/ mCurrentMode = "permanent"
    BY <1>3, Zenon DEF clearLockout, reset
  <2> QED BY <2>1 DEF PermanentGuarded
<1>4. CASE onLockoutCleared(t)
  <2>1. /\ UNCHANGED mCurrentMode /\ timer[t] = "clear"
        /\ undone' <=> undone \/ mCurrentMode = "permanent"
    BY <1>4, Zenon DEF onLockoutCleared
  <2> QED BY <2>1 DEF PermanentGuarded
<1>5. CASE unstart(t)
  <2>1. /\ UNCHANGED <<mCurrentMode, mIsLockoutTimerAborted, undone>> /\ timer[t] = "unstart"
        /\ \A u \in Timers : timer'[u] = IF u = t THEN "unabort" ELSE timer[u]
    BY <1>5 DEF unstart, Fields
  <2>2. ~ NoTimer
    BY <2>1 DEF NoTimer, Active
  <2> QED BY <1>0, <2>1, <2>2 DEF PermanentGuarded, AboutToAbort
<1>6. CASE unabort(t)
  <2>1. /\ UNCHANGED <<mCurrentMode, undone>> /\ timer[t] = "unabort"
        /\ \A u \in Timers : timer'[u] = IF u = t THEN "none" ELSE timer[u]
    BY <1>6 DEF unabort, Fields
  <2>2. \A u \in Threads : ~ Checking(u)
    BY <2>1 DEF Collision, Expiring
  <2>3. \A u \in Timers : ~ Active(u) \/ u = t
    BY <2>1 DEF Collision, Active
  <2>4. NoTimer'
    BY <1>0, <2>1, <2>2, <2>3 DEF NoTimer, Active, Checking, AboutToStart
  <2> QED BY <2>1, <2>4 DEF PermanentGuarded
<1> QED BY <1>1, <1>2, <1>3, <1>4, <1>5, <1>6 DEF TimerStep

\* Every step keeps what holds as long as there was no Collision.
LEMMA StepKeepsGuard ==
  ASSUME IInv, [FingerprintNext]_fingerprintVars, ~ raced'
  PROVE  ~ Collision' /\ PermanentGuarded' /\ ~ undone'
<1> USE DEF Threads
<1>1. CASE createSession
  <2>1. \A t \in Timers : timer'[t] \in {"none", "orphan"}
    BY <1>1 DEF createSession
  <2>2. \A t \in Threads : thread'[t].at \in {"idle", "enumerated", "stray"}
    BY <1>1 DEF createSession, IInv, Fields
  <2>3. ~ undone'
    BY <1>1 DEF createSession
  <2>4. NoTimer'
    BY <2>1, <2>2 DEF NoTimer, Active, AboutToStart
  <2>5. ~ Collision'
    BY <2>1, <2>2 DEF Collision, Checking, Expiring, Active
  <2> QED BY <2>1, <2>3, <2>4, <2>5 DEF PermanentGuarded
<1>2. CASE ~ createSession
  <2>0. ~ raced
    BY <1>2, RacedStays
  <2>1. Fields /\ ~ Collision /\ PermanentGuarded /\ ~ undone
    BY <2>0 DEF IInv
  <2>2. ~ Collision'
    BY <2>1, CollisionNoted
  <2>3. CASE closeFingerprint \/ enumerateEnrollments \/ UNCHANGED fingerprintVars
    <3>1. UNCHANGED <<timer, thread, mCurrentMode, mIsLockoutTimerAborted, undone>>
      BY <2>3, Zenon DEF closeFingerprint, enumerateEnrollments, fingerprintVars, lockoutState
    <3>2. (AboutToAbort => AboutToAbort') /\ \A t \in Threads : AboutToStart(t)' => AboutToStart(t)
      BY <3>1, Zenon DEF AboutToAbort, AboutToStart
    <3> QED BY <2>1, <2>2, <3>1, <3>2, GuardQuiet, Zenon
  <2>4. CASE authenticate \/ resetLockout \/ tellCleared \/ abortTimer
    <3>1. /\ UNCHANGED <<timer, undone>>
          /\ mCurrentMode' = mCurrentMode \/ mCurrentMode' = "none"
          /\ mIsLockoutTimerAborted => mIsLockoutTimerAborted'
      <4>1. CASE authenticate \/ resetLockout
        <5>1. /\ UNCHANGED <<timer, undone, mIsLockoutTimerAborted>>
              /\ mCurrentMode' = mCurrentMode \/ mCurrentMode' = "none"
          BY <4>1 DEF authenticate, resetLockout, reset
        <5> QED BY <5>1, Zenon
      <4>2. CASE tellCleared
        <5>1. UNCHANGED <<timer, undone, mIsLockoutTimerAborted, mCurrentMode>>
          BY <4>2 DEF tellCleared
        <5> QED BY <5>1, Zenon
      <4>3. CASE abortTimer
        BY <4>3, Zenon DEF abortTimer
      <4> QED BY <2>4, <4>1, <4>2, <4>3
    <3>2. /\ thread'["vendor"] = thread["vendor"]
          /\ thread'["binder"].at \in {"check", "cleared", "abort", "idle"}
      <4>1. ASSUME NEW step \in {"check", "cleared"}, Begin(step)
            PROVE  /\ thread'["vendor"] = thread["vendor"]
                   /\ thread'["binder"].at \in {"check", "cleared", "abort", "idle"}
        BY <4>1, <2>1 DEF Begin, Idle, Fields
      <4>2. CASE authenticate \/ resetLockout
        BY <4>1, <4>2, Zenon DEF authenticate, resetLockout
      <4>3. CASE tellCleared \/ abortTimer
        BY <4>3, <2>1 DEF tellCleared, abortTimer, Idle, Fields
      <4> QED BY <2>4, <4>2, <4>3
    <3>3. (AboutToAbort => AboutToAbort') /\ \A t \in Threads : AboutToStart(t)' => AboutToStart(t)
      BY <3>2 DEF AboutToAbort, AboutToStart
    <3>4. mCurrentMode' = mCurrentMode \/ mCurrentMode' # "permanent"
      BY <3>1
    <3> QED BY <2>1, <2>2, <3>1, <3>3, <3>4, GuardQuiet, Zenon
  <2>5. CASE notify \/ enumerated \/ stray
    <3>1. UNCHANGED <<timer, mCurrentMode, mIsLockoutTimerAborted, undone>>
      BY <2>5, Zenon DEF notify, enumerated, stray, lockoutState
    <3>2. /\ thread'["binder"] = thread["binder"]
          /\ thread'["vendor"].at \in {"idle", "enumerated", "succeeded", "failed"}
          /\ thread["vendor"].at \in {"idle", "enumerated", "stray"}
      <4>1. CASE notify
        BY <4>1, <2>1 DEF notify, NotifyOf, Fields
      <4>2. CASE enumerated \/ stray
        BY <4>2, <2>1 DEF enumerated, stray, Idle, Fields
      <4> QED BY <2>5, <4>1, <4>2
    <3>3. ~ AboutToAbort /\ \A t \in Threads : AboutToStart(t)' => AboutToStart(t)
      BY <3>2 DEF AboutToAbort, AboutToStart
    <3> QED BY <2>1, <2>2, <3>1, <3>3, GuardQuiet, Zenon
  <2>6. CASE authenticated
    <3>1. mCurrentMode' = "none" /\ UNCHANGED undone
      BY <2>6, Zenon DEF authenticated, reset
    <3> QED BY <2>1, <2>2, <3>1 DEF PermanentGuarded
  <2>7. CASE notRecognized
    <3>1. UNCHANGED <<timer, mIsLockoutTimerAborted, undone>>
      BY <2>7, Zenon DEF notRecognized
    <3>2. thread'["vendor"].at = "check"
      BY <2>7, <2>1 DEF notRecognized, Fields
    <3>3. \A t \in Timers : timer'[t] \notin {"reset", "clear"}
      BY <2>2, <3>2 DEF Collision, Expiring, Checking
    <3> QED BY <2>1, <2>2, <3>1, <3>2, <3>3 DEF PermanentGuarded, AboutToAbort
  <2>8. CASE \E t \in Threads : Check(t)
    BY <2>8, <2>1, <2>2, CheckKeepsGuard
  <2>9. CASE \E t \in Timers : TimerStep(t)
    BY <2>9, <2>1, <2>2, TimerKeepsGuard
  <2> QED
    BY <1>2, <2>3, <2>4, <2>5, <2>6, <2>7, <2>8, <2>9 DEF FingerprintNext, Handling
<1> QED BY <1>1, <1>2

\* Without a Collision (a timer that expires inside checkSensorLockout, two timers, a
\* getMode that ends a lockout just as it turns permanent), the abort flag that
\* checkSensorLockout sets is enough: no timer and no getMode ends a permanent lockout.
THEOREM PermanentAlwaysKept == FingerprintSpec => []PermanentKept
<1>1. IInv /\ [FingerprintNext]_fingerprintVars => IInv'
  BY StepKeepsFields, StepKeepsGuard DEF IInv
<1>2. IInv => PermanentKept
  BY DEF IInv, PermanentKept
<1> QED BY InitHasIInv, <1>1, <1>2, PTL DEF FingerprintSpec
=============================================================================
