---------------------- MODULE InteractionHandlerProofs ----------------------
(***************************************************************************)
(* The safety properties of InteractionHandler for every choice of the     *)
(* wait, the bounds of the duration, the offset and the width of unsigned  *)
(* numbers.                                                                *)
(***************************************************************************)
EXTENDS InteractionHandler, TLAPS

\* Routine is between the lock that set WAITING and the end of Release().
InWait == {"entry", "wait", "read", "poll", "release"}

\* Only Routine makes a wait, so WAITING says where it is; and an abort is
\* pending only until the Release() that follows it.
AbortInv ==
    /\ mState = "WAITING" => pc \in InWait /\ ~aborted
    /\ mState = "IDLE" => ~aborted
    /\ aborted /\ mState = "INTERACTION" => pc \in InWait

\* While mState is WAITING nobody has changed mDurationMs since Routine read it,
\* so the wait that runs is at least as long as the rest of the last Acquire's
\* duration.
WaitInv ==
    mState = "WAITING" =>
        /\ pc \in {"wait", "read", "poll", "release"} => timeout = mDurationMs
        /\ pc = "poll" => timer + elapsed >= mDurationMs
        /\ pc = "release" => why \in {"idle", "error", "timeout"}
        /\ pc = "release" /\ why = "timeout" => elapsed >= mDurationMs

\* No Acquire is owed more than the rest of mDurationMs.
OwedInv ==
    /\ mState = "IDLE" => owed = 0
    /\ mState \in {"INTERACTION", "WAITING"} => owed = 0 \/ owed + elapsed =< mDurationMs

\* Before HandlerInit() started Routine nothing has happened.
FreshInv ==
    pc = "none" => mState = "UNINITIALIZED" /\ ~aborted /\ ~hint /\ owed = 0

IInv == HandlerTypeOK /\ FreshInv /\ HintMatchesState /\ AbortInv /\ WaitInv /\ OwedInv

\* The clamped duration lies between the bounds, for a negative argument too.
LEMMA FinalDurationBounds ==
    ASSUME NEW d \in Durations
    PROVE  FinalDuration(d) \in kMinDurationMs..kMaxDurationMs
<1> DEFINE input == (d + kDurationOffsetMs) % Wrap
<1>1. input \in Int
  BY DurationsAssumption
<1> HIDE DEF input
<1>2. (CASE input > kMaxDurationMs -> kMaxDurationMs
         [] input > kMinDurationMs /\ input =< kMaxDurationMs -> input
         [] OTHER -> kMinDurationMs) \in kMinDurationMs..kMaxDurationMs
  BY <1>1, DurationsAssumption
<1> QED BY <1>2 DEF FinalDuration, input

\* The longer of the two polls is a natural number, no less than either.
LEMMA LargerBounds ==
    /\ Larger(kWaitMs, kMaxDurationMs) \in Nat
    /\ kWaitMs =< Larger(kWaitMs, kMaxDurationMs)
    /\ kMaxDurationMs =< Larger(kWaitMs, kMaxDurationMs)
  BY DurationsAssumption DEF Larger

\* Nothing runs before HandlerInit().
LEMMA StartHasIInv == Start => IInv
<1> SUFFICES ASSUME Start PROVE IInv
  OBVIOUS
<1>1. aborted \in BOOLEAN /\ hint \in BOOLEAN
  BY Zenon DEF Start
<1>2. HandlerTypeOK
  BY <1>1, DurationsAssumption, LargerBounds DEF Start, HandlerTypeOK, States, PCs, Late
<1>3. FreshInv /\ HintMatchesState /\ AbortInv /\ WaitInv /\ OwedInv
  BY DEF Start, FreshInv, HintMatchesState, AbortInv, WaitInv, OwedInv
<1> QED BY <1>2, <1>3 DEF IInv

\* Every step keeps the inductive invariant.
LEMMA StepKeepsIInv == IInv /\ [HandlerNext]_handlerVars => IInv'
<1> SUFFICES ASSUME IInv, [HandlerNext]_handlerVars PROVE IInv'
  OBVIOUS
<1> USE DurationsAssumption DEF IInv, HandlerTypeOK, FreshInv, HintMatchesState, AbortInv, WaitInv,
        OwedInv, States, PCs, InWait, Late, Larger
<1>1. CASE UNCHANGED handlerVars
  BY <1>1 DEF handlerVars
<1>2. CASE HandlerInit
  BY <1>2 DEF HandlerInit
<1>3. ASSUME NEW d \in Durations, Acquire(d)
      PROVE  IInv'
  <2> DEFINE final == FinalDuration(d)
  <2>1. final \in kMinDurationMs..kMaxDurationMs
    BY FinalDurationBounds
  <2>2. /\ mState # "UNINITIALIZED"
        /\ owed' = Larger(owed, final)
        /\ UNCHANGED <<timeout, timer, why, exiting>>
    BY <1>3 DEF Acquire
  <2>3. CASE Covered(final)
    <3>1. UNCHANGED <<mState, mDurationMs, elapsed, aborted, pc, hint>>
      BY <1>3, <2>3 DEF Acquire
    <3> HIDE DEF final
    <3> QED BY <2>1, <2>2, <2>3, <3>1 DEF Covered
  <2>4. CASE ~Covered(final)
    <3>1. /\ elapsed' = 0
          /\ mDurationMs' = final
          /\ aborted' = (aborted \/ mState = "WAITING")
          /\ hint' = (hint \/ mState = "IDLE")
          /\ mState' = "INTERACTION"
          /\ pc' = IF pc = "asleep" THEN "cond" ELSE pc
      BY <1>3, <2>4 DEF Acquire, Notified
    <3> HIDE DEF final
    <3>2. HandlerTypeOK'
      BY <2>1, <2>2, <3>1
    <3>3. FreshInv' /\ HintMatchesState' /\ WaitInv'
      BY <2>2, <3>1, Zenon
    <3>4. AbortInv'
      BY <2>2, <3>1
    <3>5. OwedInv'
      BY <2>1, <2>2, <2>4, <3>1 DEF Covered
    <3> QED BY <3>2, <3>3, <3>4, <3>5, Zenon
  <2> QED BY <2>3, <2>4
<1>4. CASE ExitLocked
  BY <1>4 DEF ExitLocked, routine
<1>5. CASE ExitNotify
  BY <1>5 DEF ExitNotify, Notified
<1>6. CASE ExitJoined
  BY <1>6 DEF ExitJoined, routine
<1>7. CASE WaitCond
  BY <1>7 DEF WaitCond
<1>8. CASE EnterWaitForIdle
  BY <1>8 DEF EnterWaitForIdle
<1>9. CASE PollAbort
  BY <1>9 DEF PollAbort, Leave
<1>10. CASE ReadIdle
  BY <1>10 DEF ReadIdle, Leave
<1>11. CASE PollIdle
  BY <1>11 DEF PollIdle, Leave
<1>12. CASE Release
  <2>1. aborted' \in BOOLEAN /\ hint' \in BOOLEAN
    <3>1. aborted \in BOOLEAN /\ hint \in BOOLEAN
      OBVIOUS
    <3> QED BY <1>12, <3>1, Zenon DEF Release
  <2>2. HandlerTypeOK'
    BY <1>12, <2>1 DEF Release
  <2>3. FreshInv' /\ HintMatchesState' /\ AbortInv' /\ WaitInv' /\ OwedInv'
    BY <1>12 DEF Release
  <2> QED BY <2>2, <2>3, Zenon
<1>13. CASE HandlerTick
  <2>1. elapsed' \in 0..Late /\ elapsed' >= elapsed
    BY <1>13 DEF HandlerTick
  <2>2. owed' \in 0..kMaxDurationMs /\ (owed = 0 => owed' = 0)
    BY <1>13 DEF HandlerTick
  <2>3. timer' \in 0..Larger(kWaitMs, kMaxDurationMs)
    <3> HIDE DEF Larger
    <3> QED BY <1>13, LargerBounds DEF HandlerTick
  <2>4. HandlerTypeOK'
    BY <1>13, <2>1, <2>2, <2>3 DEF HandlerTick
  <2>5. FreshInv' /\ HintMatchesState' /\ AbortInv'
    BY <1>13, <2>2 DEF HandlerTick
  <2>6. WaitInv'
    BY <1>13, <2>1 DEF HandlerTick
  <2>7. OwedInv'
    BY <1>13 DEF HandlerTick
  <2> QED BY <2>4, <2>5, <2>6, <2>7, Zenon
<1> QED BY <1>1, <1>2, <1>3, <1>4, <1>5, <1>6, <1>7, <1>8, <1>9, <1>10, <1>11, <1>12,
           <1>13, ZenonT(60) DEF HandlerNext, AcquireAny, Routine

\* The type of the handler's state is invariant.
THEOREM TypeCorrect == HandlerSpec => []HandlerTypeOK
<1>1. IInv => HandlerTypeOK
  BY DEF IInv
<1> QED BY <1>1, StartHasIInv, StepKeepsIInv, PTL DEF HandlerSpec

\* PerfLock and PerfRel are balanced, for every interleaving of Acquire, Exit and the
\* unlocked steps of Routine.
THEOREM HintFollowsState == HandlerSpec => []HintMatchesState
<1>1. IInv => HintMatchesState
  BY DEF IInv
<1> QED BY <1>1, StartHasIInv, StepKeepsIInv, PTL DEF HandlerSpec

\* No wait starts with the abort of an earlier one still in the event file descriptor,
\* though AbortWaitLocked writes it and Routine reads it in different steps.
THEOREM AbortNeverStale == HandlerSpec => []NoStaleAbort
<1>1. IInv => NoStaleAbort
  BY DEF IInv, AbortInv, NoStaleAbort
<1> QED BY <1>1, StartHasIInv, StepKeepsIInv, PTL DEF HandlerSpec

\* The three together: what Acquire and Routine rely on when they take mLock.
THEOREM HintStaysSound == HandlerSpec => []HintSound
  BY TypeCorrect, HintFollowsState, AbortNeverStale, PTL DEF HintSound

\* The INTERACTION hint is never let go before the durations of all calls of
\* Acquire have passed, unless the display is idle or a system call failed.
THEOREM HintHeldLongEnough == HandlerSpec => ReleasedOnlyWhenDue
<1>1. IInv /\ [HandlerNext]_handlerVars =>
        [hint /\ ~hint' => why \in {"idle", "error"} \/ (why = "timeout" /\ owed = 0)]_handlerVars
  <2> SUFFICES ASSUME IInv, [HandlerNext]_handlerVars, hint, ~hint'
               PROVE  why \in {"idle", "error"} \/ (why = "timeout" /\ owed = 0)
    OBVIOUS
  <2>1. Release
    BY Zenon DEF HandlerNext, handlerVars, AcquireAny, Acquire, Routine, HandlerInit, ExitLocked, ExitNotify, ExitJoined,
       WaitCond, EnterWaitForIdle, PollAbort, ReadIdle, PollIdle, HandlerTick, Leave
  <2>2. mState = "WAITING" /\ pc = "release"
    BY <2>1 DEF Release
  <2> QED BY <2>2, DurationsAssumption DEF IInv, HandlerTypeOK, WaitInv, OwedInv, Late
<1> QED BY <1>1, StartHasIInv, StepKeepsIInv, PTL DEF HandlerSpec, ReleasedOnlyWhenDue
=============================================================================
