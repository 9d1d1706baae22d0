---------------------------- MODULE SensorsProofs ----------------------------
(***************************************************************************)
(* The wakelock goes with exactly the batches that need it, for any        *)
(* sensors, any buffer size and any number of events.                      *)
(***************************************************************************)
EXTENDS Sensors, TLAPS

\* A vector of events has one of a wake-up sensor.
HasWakeUp(events) == \E j \in 1 .. Len(events) : events[j] \in WakeUp

\* The batch that is being posted is known for what it is, and has its lock by then.
BatchKnown ==
  /\ poll.at # "poll" => (poll.wakeup <=> HasWakeUp(out))
  /\ poll.at = "post" => (poll.lock # {} <=> poll.wakeup)

Events == Handles \cup {"meta"}
Batches == [events : Seq(Events), locked : BOOLEAN]

\* The types, as far as the proof needs them.
Types ==
  /\ DOMAIN poll = {"at", "wakeup", "lock"} /\ poll.at \in {"poll", "lock", "post"}
  /\ mSensors = Handles /\ activated \subseteq Handles
  /\ produced \in Seq(Events) /\ taken \in Nat
  /\ out \in Seq(Events) /\ posted \in Seq(Batches)

\* The inductive invariant.
IInv == Types /\ BatchKnown /\ WakelockExact
-----------------------------------------------------------------------------
\* The vector that was used before holds exactly the new batch.
LEMMA BatchReplaces ==
  ASSUME NEW n \in Nat, NEW data \in Seq(Events), Len(data) = n
  PROVE  Converted(Resized(n), data) = data
<1>1. Len(Resized(n)) = n
  BY DEF Resized
<1>2. data = [i \in 1 .. n |-> data[i]]
  OBVIOUS
<1> QED BY <1>1, <1>2 DEF Converted

\* A buffer poll has filled is a batch of the module's events.
LEMMA PolledBatch ==
  ASSUME Types, NEW n \in Nat, taken + n <= Len(produced)
  PROVE  LET data == SubSeq(produced, taken + 1, taken + n)
         IN data \in Seq(Events) /\ Len(data) = n
  BY DEF Types

\* The constructor posts nothing.
LEMMA InitHasIInv == SensorsInit => IInv
  BY DEF SensorsInit, Waiting, IInv, Types, BatchKnown, WakelockExact

\* A step that leaves the poll thread alone.
LEMMA Quiet ==
  ASSUME IInv, UNCHANGED <<mSensors, taken, out, poll, posted>>,
         activated' \subseteq Handles, produced' \in Seq(Events)
  PROVE  IInv'
  BY DEF IInv, Types, BatchKnown, HasWakeUp, WakelockExact

\* Every step keeps the invariant.
LEMMA StepKeepsIInv == IInv /\ [SensorsNext]_sensorsVars => IInv'
<1> SUFFICES ASSUME IInv, [SensorsNext]_sensorsVars PROVE IInv'
  OBVIOUS
<1>0. Types /\ BatchKnown /\ WakelockExact
  BY DEF IInv
<1>1. ASSUME NEW handle \in Events, Produce(handle) PROVE IInv'
  <2>1. produced' \in Seq(Events)
    BY <1>0, <1>1 DEF Produce, Types
  <2> QED BY <1>0, <1>1, <2>1, Quiet, SMTT(60) DEF Produce, Types
<1>2. CASE SensorEvent
  BY <1>0, <1>1, <1>2 DEF SensorEvent, Types, Events
<1>3. ASSUME NEW handle \in Handles, NEW enabled \in BOOLEAN, activate(handle, enabled)
      PROVE  IInv'
  BY <1>0, <1>3, Quiet DEF activate, Types
<1>4. ASSUME NEW handle \in Handles, injectSensorData(handle) PROVE IInv'
  BY <1>1, <1>4 DEF injectSensorData, Events
<1>5. ASSUME NEW callback \in ProxyCallbacks, initialize(callback) PROVE IInv'
  BY <1>0, <1>5, Quiet DEF initialize, Types
<1>6. ASSUME NEW n \in 0 .. kPollMaxBufferSize, pollForEvents(n) PROVE IInv'
  <2> DEFINE data == SubSeq(produced, taken + 1, taken + n)
  <2>1. n \in Nat /\ taken + n <= Len(produced)
    BY <1>6, SensorsAssumption DEF pollForEvents, Polled
  <2>2. data \in Seq(Events) /\ Len(data) = n
    BY <1>0, <2>1, PolledBatch
  <2>3. out' = data
    BY <1>6, <2>1, <2>2, BatchReplaces, Zenon DEF pollForEvents
  <2>4. /\ poll' = [at |-> "lock", wakeup |-> AnyWakeUp(FALSE, data), lock |-> {}]
        /\ taken' = taken + n /\ UNCHANGED <<mSensors, activated, produced, posted>>
    BY <1>6 DEF pollForEvents
  <2>5. AnyWakeUp(FALSE, data) <=> HasWakeUp(data)
    BY <1>0, SensorsAssumption, Zenon DEF AnyWakeUp, HasWakeUp, isWakeUpSensor, Types
  <2>6. Types'
    BY <1>0, <2>1, <2>2, <2>3, <2>4 DEF Types
  <2>7. BatchKnown'
    BY <2>3, <2>4, <2>5, Zenon DEF BatchKnown, HasWakeUp
  <2>8. WakelockExact'
    BY <1>0, <2>4 DEF WakelockExact
  <2> QED BY <2>6, <2>7, <2>8 DEF IInv
<1>7. CASE createScopedWakelock
  <2>1. CASE mProxy = {}
    BY <1>0, <1>7, <2>1, Quiet DEF createScopedWakelock, Types
  <2>2. CASE mProxy # {}
    <3>1. /\ poll.at = "lock" /\ poll'.at = "post" /\ poll'.wakeup = poll.wakeup
          /\ poll'.lock = (IF poll.wakeup THEN mProxy ELSE {})
          /\ DOMAIN poll' = {"at", "wakeup", "lock"}
          /\ UNCHANGED <<mSensors, activated, produced, taken, out, posted>>
      BY <1>0, <1>7, <2>2, Zenon DEF createScopedWakelock, Types
    <3>2. Types' /\ WakelockExact'
      BY <1>0, <3>1 DEF Types, WakelockExact
    <3>3. BatchKnown'
      BY <1>0, <2>2, <3>1 DEF BatchKnown, HasWakeUp
    <3> QED BY <3>2, <3>3 DEF IInv
  <2> QED BY <2>1, <2>2
<1>8. CASE postEvents
  <2> DEFINE batch == [events |-> out, locked |-> poll.lock # {}]
  <2>1. /\ poll.at = "post" /\ posted' = Append(posted, batch) /\ poll' = Waiting
        /\ UNCHANGED <<mSensors, activated, produced, taken, out>>
    BY <1>8 DEF postEvents
  <2>2. batch \in Batches
    BY <1>0 DEF Types, Batches
  <2>3. batch.locked <=> HasWakeUp(batch.events)
    BY <1>0, <2>1, Zenon DEF BatchKnown
  <2>4. Types'
    BY <1>0, <2>1, <2>2 DEF Types, Waiting
  <2>5. BatchKnown'
    BY <2>1 DEF BatchKnown, Waiting
  <2>6. /\ Len(posted') = Len(posted) + 1 /\ posted'[Len(posted) + 1] = batch
        /\ \A i \in 1 .. Len(posted) : posted'[i] = posted[i]
    BY <1>0, <2>1, <2>2 DEF Types
  <2>7. WakelockExact'
    <3>1. \A i \in 1 .. Len(posted') : i \in 1 .. Len(posted) \/ i = Len(posted) + 1
      BY <1>0, <2>6 DEF Types
    <3> QED BY <1>0, <2>3, <2>6, <3>1, SMTT(60) DEF WakelockExact, HasWakeUp
  <2> QED BY <2>4, <2>5, <2>7 DEF IInv
<1>9. CASE UNCHANGED sensorsVars
  BY <1>0, <1>9, Quiet DEF sensorsVars, Types
<1> QED
  BY <1>2, <1>3, <1>4, <1>5, <1>6, <1>7, <1>8, <1>9, SMTT(60) DEF SensorsNext, SensorsStep

\* postEvents holds a wakelock exactly for the batches with a wake-up sensor's event,
\* however large the buffer and however often initialize replaces the callback.
THEOREM WakelockAlwaysExact == SensorsSpec => []WakelockExact
<1>1. IInv => WakelockExact
  BY DEF IInv
<1> QED BY InitHasIInv, StepKeepsIInv, <1>1, PTL DEF SensorsSpec
=============================================================================
