--------------------------- MODULE SessionRecords ---------------------------
(***************************************************************************)
(* The record of a hint session's last frames and what the heuristic boost *)
(* makes of it: a ring buffer of records, running totals, a descending     *)
(* queue of indexes for the maximum, a sliding sum of start intervals, and *)
(* the janky level.  The variable window is the reference: the last        *)
(* kMaxNumOfRecords frames since the last reset, as they were reported.    *)
(***************************************************************************)
EXTENDS Integers, SequencesExt

CONSTANTS
  kMaxNumOfRecords,
  Frames,               \* pairs: a duration, the time since the last start
  JankDuration,         \* target times mJankCheckTimeFactor
  LowRateInterval,      \* 1000000 / mLowFrameRateThreshold
  ModerateJank, SevereJank,  \* mHBoost...JankThreshold
  OffRatio,             \* mHBoostOffMaxAvgDurRatio
  MaxFrames,            \* bound: frames reported
  MaxTurns              \* bound: resets and changes of the game mode

ASSUME RecordsAssumption == kMaxNumOfRecords \in Nat /\ kMaxNumOfRecords >= 3

kTotalFramesForFPSCheck == 3

VARIABLES
  mRecords, mRecordsIndQueue, mAvgDurationUs, mLatestRecordIndex, mNumOfMissedCycles,
  mNumOfFrames, mSumOfDurationsUs, mLatestStartIntervalSumUs, mNumOfFrameFPSJitters,
  mAddedFramesForFPSCheck, mJankyLevel,
  game,        \* getGameModeEnableState, for SurfaceFlinger's session
  window,      \* the frames since the last reset, at most kMaxNumOfRecords
  recent,      \* the start intervals of the last three frames in game mode
  disturbed,   \* a reset, or a frame that did not count, fell into the sum
  frames, turns
recordsVars == <<mRecords, mRecordsIndQueue, mAvgDurationUs, mLatestRecordIndex,
  mNumOfMissedCycles, mNumOfFrames, mSumOfDurationsUs, mLatestStartIntervalSumUs,
  mNumOfFrameFPSJitters, mAddedFramesForFPSCheck, mJankyLevel, game, window,
  recent, disturbed, frames, turns>>

Record(interval, duration, missed, jitter) ==
  [startIntervalUs |-> interval, totalDurationUs |-> duration,
   isMissedCycle |-> missed, isFPSJitter |-> jitter]

RecordsInit ==
  /\ mRecords = [i \in 0 .. kMaxNumOfRecords - 1 |-> Record(0, 0, FALSE, FALSE)]
  /\ mRecordsIndQueue = <<>> /\ mAvgDurationUs = 0 /\ mLatestRecordIndex = -1
  /\ mNumOfMissedCycles = 0 /\ mNumOfFrames = 0 /\ mSumOfDurationsUs = 0
  /\ mLatestStartIntervalSumUs = 0 /\ mNumOfFrameFPSJitters = 0
  /\ mAddedFramesForFPSCheck = 0 /\ mJankyLevel = "LIGHT"
  /\ game \in BOOLEAN
  /\ window = <<>> /\ recent = <<>> /\ disturbed = FALSE /\ frames = 0 /\ turns = 0

----------------------------------------------------------------------------
(* addReportedDurations, for one duration.                                 *)

Full == mNumOfFrames >= kMaxNumOfRecords
NextIndex == (mLatestRecordIndex + 1) % kMaxNumOfRecords
One(b) == IF b THEN 1 ELSE 0

\* The index of the frame three before the latest.
OldIndex(latest) ==
  LET i == latest - kTotalFramesForFPSCheck IN IF i < 0 THEN i + kMaxNumOfRecords ELSE i

\* Mutation of QueueAfterRemoval: the index stays in the queue.
QueueKeepsFront == mRecordsIndQueue

\* "Remove the oldest record": its index leaves the queue if it is the front.
QueueAfterRemoval ==
  IF Full /\ Head(mRecordsIndQueue) = NextIndex THEN Tail(mRecordsIndQueue) ELSE mRecordsIndQueue

\* Indexes with durations that are not greater than the latest are popped from
\* the back.
QueueAfterPop(queue, duration) ==
  SubSeq(queue, 1,
    CHOOSE n \in 0 .. Len(queue) :
      /\ \A i \in n + 1 .. Len(queue) : mRecords[queue[i]].totalDurationUs <= duration
      /\ n > 0 => mRecords[queue[n]].totalDurationUs > duration)

\* 1.4 times the average of the last three start intervals.
isFPSJitter(interval) == 30 * interval > 14 * mLatestStartIntervalSumUs

FpsCheck(interval) ==
  LET warm == mAddedFramesForFPSCheck >= kTotalFramesForFPSCheck
      counts == game /\ ~ warm /\ interval > 0
  IN /\ mLatestStartIntervalSumUs' =
          IF ~ game THEN 0
          ELSE IF counts THEN mLatestStartIntervalSumUs + interval
          ELSE IF warm THEN mLatestStartIntervalSumUs
                            + (interval - mRecords[OldIndex(NextIndex)].startIntervalUs)
          ELSE mLatestStartIntervalSumUs
     /\ mAddedFramesForFPSCheck' =
          IF ~ game THEN 0 ELSE IF counts THEN mAddedFramesForFPSCheck + 1
          ELSE mAddedFramesForFPSCheck
     /\ recent' = IF ~ game THEN <<>>
                  ELSE SubSeq(<<interval>> \o recent, 1, IF Len(recent) < 3 THEN Len(recent) + 1 ELSE 3)
     /\ disturbed' = (game /\ (disturbed \/ (~ warm /\ ~ counts /\ mAddedFramesForFPSCheck > 0)))

addReportedDuration(duration, reported) ==
  LET interval == IF mNumOfFrames - One(Full) > 0 THEN reported ELSE 0
      old == mRecords[NextIndex]
      missed == duration > JankDuration
      jitter == /\ game /\ mAddedFramesForFPSCheck >= kTotalFramesForFPSCheck
                /\ isFPSJitter(interval)
  IN /\ mRecords' = [mRecords EXCEPT ![NextIndex] = Record(interval, duration, missed, jitter)]
     /\ mLatestRecordIndex' = NextIndex
     /\ mNumOfFrames' = mNumOfFrames - One(Full) + 1
     /\ mNumOfMissedCycles' = mNumOfMissedCycles - One(Full /\ old.isMissedCycle) + One(missed)
     /\ mNumOfFrameFPSJitters' = mNumOfFrameFPSJitters - One(Full /\ old.isFPSJitter) + One(jitter)
     /\ mRecordsIndQueue' = Append(QueueAfterPop(QueueAfterRemoval, duration), NextIndex)
     /\ mSumOfDurationsUs' = mSumOfDurationsUs - (IF Full THEN old.totalDurationUs ELSE 0) + duration
     /\ mAvgDurationUs' = mSumOfDurationsUs' \div mNumOfFrames'
     /\ FpsCheck(interval)
     /\ window' = Append(IF Full THEN Tail(window) ELSE window, mRecords'[NextIndex])

----------------------------------------------------------------------------
(* The queries, and PowerHintSession's use of them.                        *)

getMaxDuration == mRecords[Head(mRecordsIndQueue)].totalDurationUs

Before(i) == IF i = 0 THEN kMaxNumOfRecords - 1 ELSE i - 1

isLowFrameRate ==
  /\ mNumOfFrames >= 3
  /\ \A i \in {mLatestRecordIndex, Before(mLatestRecordIndex), Before(Before(mLatestRecordIndex))} :
       mRecords[i].startIntervalUs >= LowRateInterval

updateSessionJankState(oldState, numOfJankFrames, maxDuration, avgDuration, isLowFPS) ==
  IF isLowFPS THEN "LIGHT"
  ELSE IF numOfJankFrames < ModerateJank
  THEN IF oldState = "LIGHT" \/ maxDuration < OffRatio * avgDuration THEN "LIGHT" ELSE "MODERATE"
  ELSE IF numOfJankFrames < SevereJank THEN "MODERATE" ELSE "SEVERE"

\* updateHeuristicBoost.
updateHeuristicBoost ==
  mJankyLevel' = IF mAvgDurationUs' <= 0 THEN mJankyLevel
                 ELSE updateSessionJankState(mJankyLevel, mNumOfMissedCycles', getMaxDuration',
                                             mAvgDurationUs', isLowFrameRate')

\* reportActualWorkDuration, with one duration.
reportActualWorkDuration(duration, interval) ==
  /\ frames < MaxFrames /\ frames' = frames + 1
  /\ addReportedDuration(duration, interval)
  /\ updateHeuristicBoost
  /\ UNCHANGED <<game, turns>>

\* resetRecords, called when the target duration changes a lot.
resetRecords ==
  /\ mAvgDurationUs' = 0 /\ mLatestRecordIndex' = -1 /\ mNumOfMissedCycles' = 0
  /\ mNumOfFrames' = 0 /\ mSumOfDurationsUs' = 0 /\ mRecordsIndQueue' = <<>>
  /\ UNCHANGED <<mRecords, mLatestStartIntervalSumUs, mNumOfFrameFPSJitters,
                 mAddedFramesForFPSCheck>>

\* Mutation of resetSessionHeuristicStates: the level survives the reset.
ResetKeepsLevel ==
  /\ turns < MaxTurns /\ turns' = turns + 1
  /\ resetRecords
  /\ window' = <<>> /\ disturbed' = (mAddedFramesForFPSCheck > 0)
  /\ UNCHANGED <<mJankyLevel, recent, game, frames>>

resetSessionHeuristicStates ==
  /\ turns < MaxTurns /\ turns' = turns + 1
  /\ resetRecords
  /\ mJankyLevel' = "LIGHT"
  /\ window' = <<>> /\ disturbed' = (mAddedFramesForFPSCheck > 0)
  /\ UNCHANGED <<recent, game, frames>>

\* setMode(GAME) changes the game mode.
setGameMode ==
  /\ turns < MaxTurns /\ turns' = turns + 1
  /\ game' = ~ game
  /\ UNCHANGED <<mRecords, mRecordsIndQueue, mAvgDurationUs, mLatestRecordIndex,
       mNumOfMissedCycles, mNumOfFrames, mSumOfDurationsUs, mLatestStartIntervalSumUs,
       mNumOfFrameFPSJitters, mAddedFramesForFPSCheck, mJankyLevel, window, recent,
       disturbed, frames>>

RecordsNext ==
  \/ \E frame \in Frames : reportActualWorkDuration(frame[1], frame[2])
  \/ resetSessionHeuristicStates
  \/ setGameMode

RecordsSpec == RecordsInit /\ [][RecordsNext]_recordsVars

----------------------------------------------------------------------------
(* What the reference says.                                                *)
Sum(seq) == FoldLeft(LAMBDA x, y : x + y, 0, seq)
InWindow(P(_)) == {i \in 1 .. Len(window) : P(window[i])}
WindowDurations == [i \in 1 .. Len(window) |-> window[i].totalDurationUs]
WindowLow == Len(window) >= 3 /\ \A i \in Len(window) - 2 .. Len(window) :
                                   window[i].startIntervalUs >= LowRateInterval
WindowMissed == Cardinality(InWindow(LAMBDA r : r.isMissedCycle))
WindowMax == CHOOSE d \in {window[i].totalDurationUs : i \in 1 .. Len(window)} :
               \A i \in 1 .. Len(window) : window[i].totalDurationUs <= d

\* getMaxDuration, which only looks at the front of the queue of indexes, is
\* the longest duration of the last frames, however the ring buffer wraps,
\* resets and overwrites what the queue points to.
MaxOfWindow == window # <<>> => getMaxDuration = WindowMax

\* The running totals are those of the frames in the window.
TotalsOfWindow ==
  /\ mNumOfFrames = Len(window)
  /\ mSumOfDurationsUs = Sum(WindowDurations)
  /\ mNumOfMissedCycles = WindowMissed

\* A session is janky only if enough of the frames since the last reset missed
\* their target, or if it was and their durations still vary; and never while
\* the last three frames are slow to start.
JankJustified ==
  mJankyLevel # "LIGHT" =>
    /\ window # <<>> /\ ~ WindowLow
    /\ WindowMissed >= ModerateJank \/ WindowMax >= OffRatio * (Sum(WindowDurations) \div Len(window))
    /\ mJankyLevel = "SEVERE" => WindowMissed >= SevereJank

\* "the sum of start interval for the last few frames", once there are three.
FpsSumOfLastFrames ==
  mAddedFramesForFPSCheck = kTotalFramesForFPSCheck => mLatestStartIntervalSumUs = Sum(recent)

\* ... which is so as long as no reset and no uncounted frame fell into it.
FpsSumUndisturbed == ~ disturbed => FpsSumOfLastFrames

\* What the ring buffer, the queue of indexes and the running sums say of the
\* session is what the frames since the last reset give when they are counted anew.
RecordsMatchWindow == MaxOfWindow /\ TotalsOfWindow /\ FpsSumUndisturbed
=============================================================================
