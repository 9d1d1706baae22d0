------------------------------ MODULE Sensors ------------------------------
(***************************************************************************)
(* The sensors sub-HAL over a legacy sensors module: the poll thread that  *)
(* turns the module's events into calls of the proxy's callback, and the   *)
(* proxy's thread that may initialize again at any time.                   *)
(***************************************************************************)
EXTENDS Integers, Sequences, SequencesExt

CONSTANTS
  Handles,             \* sensors the module lists
  WakeUp,              \* those of them with the WAKE_UP flag
  kPollMaxBufferSize,
  ProxyCallbacks,      \* what the proxy passes to initialize
  Supports1_4,         \* the module is of version 1.4 and has injection
  MaxEvents, MaxBatches

ASSUME SensorsAssumption == WakeUp \subseteq Handles /\ kPollMaxBufferSize \in Nat

VARIABLES mSensors, mProxy, activated, produced, taken,
          out, poll, posted, sensorsDown

sensorsVars == <<mSensors, mProxy, activated, produced,
                 taken, out, poll, posted, sensorsDown>>

Waiting == [at |-> "poll", wakeup |-> FALSE, lock |-> {}]

\* The constructor: the sensors are listed and the poll thread starts, before
\* there is a callback.
SensorsInit ==
  /\ mSensors = Handles /\ mProxy = {}
  /\ activated = {} /\ produced = <<>> /\ taken = 0
  /\ out = <<>> /\ poll = Waiting
  /\ posted = <<>> /\ sensorsDown = FALSE

isWakeUpSensor(handle) == handle \in mSensors /\ handle \in WakeUp

----------------------------------------------------------------------------
(* The vendor's module. *)

Produce(handle) ==
  /\ Len(produced) < MaxEvents
  /\ produced' = Append(produced, handle)
  /\ UNCHANGED <<mSensors, mProxy, activated, taken, out,
                 poll, posted, sensorsDown>>

\* An event of an active sensor, or one of a handle nobody listed (meta data).
SensorEvent == \E handle \in activated \cup {"meta"} : Produce(handle)

----------------------------------------------------------------------------
(* The proxy's thread.                                                     *)

activate(handle, enabled) ==
  /\ mProxy # {}
  /\ activated' = IF enabled THEN activated \cup {handle} ELSE activated \ {handle}
  /\ UNCHANGED <<mSensors, mProxy, produced, taken, out,
                 poll, posted, sensorsDown>>

\* injectSensorData: the module reports the event as its own.
injectSensorData(handle) ==
  /\ mProxy # {} /\ Supports1_4
  /\ Produce(handle)

initialize(callback) ==
  /\ mProxy' = {callback}
  /\ UNCHANGED <<mSensors, activated, produced, taken, out, poll, posted, sensorsDown>>

----------------------------------------------------------------------------
(* pollForEvents.                                                          *)

\* Mutation of Resized: the vector only grows.
OnlyGrown(n) == [i \in 1 .. IF n < Len(out) THEN Len(out) ELSE n |->
                   IF i <= Len(out) THEN out[i] ELSE "meta"]

\* out.resize, on the vector of the batch before.
Resized(n) == [i \in 1 .. n |-> IF i <= Len(out) THEN out[i] ELSE "meta"]

\* convertFromSensorEvents, which writes as many events as there are.
Converted(vector, data) ==
  [i \in 1 .. Len(vector) |-> IF i <= Len(data) THEN data[i] ELSE vector[i]]

AnyWakeUp(wakeup, data) == wakeup \/ \E i \in 1 .. Len(data) : isWakeUpSensor(data[i])

\* poll returns n events: none, when it was woken for nothing.
Polled(n) == taken + n <= Len(produced)

pollForEvents(n) ==
  LET data == SubSeq(produced, taken + 1, taken + n)
  IN /\ poll.at = "poll" /\ Polled(n) /\ Len(posted) < MaxBatches
     /\ taken' = taken + n
     /\ out' = Converted(Resized(n), data)
     /\ poll' = [at |-> "lock", wakeup |-> AnyWakeUp(FALSE, data), lock |-> {}]
     /\ UNCHANGED <<mSensors, mProxy, activated, produced,
                    posted, sensorsDown>>

\* postEvents: a wakelock of the callback, if it has to be one ...
createScopedWakelock ==
  /\ poll.at = "lock"
  /\ IF mProxy = {}
       THEN sensorsDown' = TRUE /\ UNCHANGED poll
       ELSE /\ poll' = [poll EXCEPT !.at = "post", !.lock = IF poll.wakeup THEN mProxy ELSE {}]
            /\ UNCHANGED sensorsDown
  /\ UNCHANGED <<mSensors, mProxy, activated, produced,
                 taken, out, posted>>

\* ... goes up with the events, to the callback there is by then.
postEvents ==
  /\ poll.at = "post"
  /\ posted' = Append(posted, [events |-> out, locked |-> poll.lock # {}])
  /\ poll' = Waiting
  /\ UNCHANGED <<mSensors, mProxy, activated, produced,
                 taken, out, sensorsDown>>

SensorsStep ==
  \/ SensorEvent
  \/ \E handle \in Handles, enabled \in BOOLEAN : activate(handle, enabled)
  \/ \E handle \in Handles : injectSensorData(handle)
  \/ \E callback \in ProxyCallbacks : initialize(callback)
  \/ \E n \in 0 .. kPollMaxBufferSize : pollForEvents(n)
  \/ createScopedWakelock \/ postEvents

SensorsNext == ~ sensorsDown /\ SensorsStep

SensorsSpec == SensorsInit /\ [][SensorsNext]_sensorsVars
----------------------------------------------------------------------------
\* The events posted so far.
Up == FlattenSeq([i \in 1 .. Len(posted) |-> posted[i].events])

\* The events posted are those the module produced, each once and in order:
\* the vector that is reused from batch to batch brings nothing back.
EventsExact ==
  IsPrefix(Up, produced) /\ Len(Up) = taken - (IF poll.at = "poll" THEN 0 ELSE Len(out))

\* A batch with an event of a wake-up sensor holds a wakelock until the proxy
\* has it, wherever in the batch the event is, and no other batch does.
WakelockExact ==
  \A i \in 1 .. Len(posted) :
    posted[i].locked <=> \E j \in 1 .. Len(posted[i].events) : posted[i].events[j] \in WakeUp

\* The batches posted are the module's events, unchanged and in order, each with a
\* wakelock exactly if it needs one.
BatchesExact == EventsExact /\ WakelockExact
=============================================================================
