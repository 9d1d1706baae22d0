------------------------ MODULE CameraDeviceSession ------------------------
(***************************************************************************)
(* CameraDeviceSession: the AIDL session over a legacy camera3 device.     *)
(*                                                                         *)
(* The framework calls it on binder threads: one sends capture requests,   *)
(* one configures streams and closes, one signals stream flushes.  The     *)
(* HAL's callback thread brings results and errors.  mInflightLock covers  *)
(* the maps but not a whole call: a request checks the state, imports its  *)
(* buffers, records them as in flight and calls the HAL in separate steps. *)
(*                                                                         *)
(* A request has one output stream; a stream is told apart by its id and   *)
(* its size.  Settings matter only as null, plain, or with an AE           *)
(* precapture cancel, which devices up to version 3.2 do not know, and     *)
(* then with the AE lock off or on.                                        *)
(***************************************************************************)
EXTENDS Integers, FiniteSets, Functions

CONSTANTS
  Configurations,   \* stream configurations: functions from stream to size
  Uses,             \* devices, and what the framework does with them: records with
                    \*   version3_2 (or older), aeLockAvailable,
                    \*   derivePostRawSensKey, freeBufEarly : BOOLEAN
                    \*   settings : SUBSET {"null", "plain", "cancel", "cancel_locked"},
                    \*   of requests
                    \*   physical : SUBSET {"none", "null", "corrupt"}, likewise
                    \*   frames, configurations : Nat, how many
                    \*   closes, flushes : BOOLEAN
  NumPartialResults

StreamIds == UNION {DOMAIN c : c \in Configurations}

VARIABLES
  device,              \* a member of Uses, fixed
  mClosed, mFirstRequest, mStreamConfigCounter,
  mStreamMap,          \* stream |-> size
  mCirculatingBuffers, \* stream |-> BOOLEAN: its buffer is imported
  mInflightBuffers,    \* <<stream, frame>>
  mInflightAETriggerOverrides,  \* frames
  applyAeLock,                  \* those whose override has applyAeLock
  mInflightRawBoostPresent,     \* frame |-> BOOLEAN
  request,             \* the request being processed
  configuring,         \* "no", or what configureStreams read of the state
  flushing,            \* the signalStreamFlush in progress
  frameNumber,         \* the last request's
  hal,                 \* what the HAL has been given and still owes
  shown,               \* frame |-> what its results showed the framework
  leftover,            \* in-flight entries no HAL answer will remove
  overlapped,          \* a configuration or a close ran inside another call
  oddity               \* what the HAL saw that it should not have

sessionVars == <<device, mClosed, mFirstRequest, mStreamConfigCounter, mStreamMap,
                 mCirculatingBuffers, mInflightBuffers, mInflightAETriggerOverrides,
                 applyAeLock, mInflightRawBoostPresent, request, configuring, flushing,
                 frameNumber, hal, shown, leftover, overlapped, oddity>>

Empty == [x \in {} |-> x]
Without(f, x) == Restrict(f, DOMAIN f \ {x})
Extended(f, x, v) == [y \in DOMAIN f \cup {x} |-> IF y = x THEN v ELSE f[y]]

NoCapture == [at |-> "none", stream |-> 0, settings |-> "plain", physical |-> "none"]
NoFlush == [at |-> "none", streams |-> {}]

SessionInit ==
  /\ device \in Uses
  /\ mClosed = FALSE /\ mFirstRequest = FALSE /\ mStreamConfigCounter = 1
  /\ mStreamMap = Empty /\ mCirculatingBuffers = Empty
  /\ mInflightBuffers = {} /\ mInflightAETriggerOverrides = {}
  /\ applyAeLock = {} /\ mInflightRawBoostPresent = Empty
  /\ request = NoCapture /\ configuring = "no" /\ flushing = NoFlush
  /\ frameNumber = 0
  /\ hal = [streams |-> Empty, buffers |-> {}, metadata |-> Empty, fresh |-> FALSE]
  /\ shown = Empty
  /\ leftover = [buffers |-> {}, overrides |-> {}]
  /\ overlapped = FALSE /\ oddity = {}

streamState == <<mStreamMap, mCirculatingBuffers, mStreamConfigCounter>>
inflightState == <<mInflightBuffers, mInflightAETriggerOverrides, applyAeLock,
                   mInflightRawBoostPresent>>

----------------------------------------------------------------------------
(* processOneCaptureRequest.                                               *)

\* initStatus, the settings, and the first request's must not be null.
checkRequest ==
  /\ request.at = "none" /\ frameNumber < device.frames
  /\ \E stream \in DOMAIN hal.streams, settings \in device.settings, physical \in device.physical :
       request' = IF mClosed \/ (mFirstRequest /\ settings = "null") THEN NoCapture
                  ELSE [at |-> "import", stream |-> stream, settings |-> settings,
                        physical |-> physical]
  /\ frameNumber' = frameNumber + 1
  /\ UNCHANGED <<device, mClosed, mFirstRequest, streamState, inflightState,
                 configuring, flushing, hal, shown, leftover, overlapped, oddity>>

\* importRequestImpl: the buffer comes with an id and is imported unless it
\* is cached, or comes without one; the import or its fence may fail.
importRequest ==
  /\ request.at = "import"
  /\ \E outcome \in {"imported", "refused", "fence", "empty"} :
       /\ mCirculatingBuffers' =
            IF outcome = "empty" THEN mCirculatingBuffers
            ELSE Extended(mCirculatingBuffers, request.stream,
                   \/ outcome # "refused"
                   \/ (request.stream \in DOMAIN mCirculatingBuffers
                       /\ mCirculatingBuffers[request.stream]))
       /\ outcome = "refused" =>
            ~ (request.stream \in DOMAIN mCirculatingBuffers
               /\ mCirculatingBuffers[request.stream])
       /\ request' = IF outcome \in {"imported", "empty"}
                       THEN [request EXCEPT !.at = "record"] ELSE NoCapture
  /\ UNCHANGED <<device, mClosed, mFirstRequest, mStreamConfigCounter, mStreamMap,
                 inflightState, configuring, flushing, frameNumber, hal, shown,
                 leftover, overlapped, oddity>>

\* What the framework asks for of AE.
AeAsked == [trigger |-> IF request.settings \in {"cancel", "cancel_locked"} THEN "cancel" ELSE "none",
            lock |-> request.settings = "cancel_locked"]

\* handleAePrecaptureCancelRequestLocked, and whether it sets applyAeLock.
AeCancelNeeded == device.version3_2 /\ request.settings \in {"cancel", "cancel_locked"}
AeLockNeeded == AeCancelNeeded /\ device.aeLockAvailable /\ request.settings = "cancel"

\* The physical cameras' settings are refused after the request was recorded.
PhysicalRefused == \/ request.physical = "corrupt"
                   \/ request.physical = "null" /\ mFirstRequest

\* The buffer and the AE override are recorded as in flight.  A refusal of
\* the physical settings leaves them there.
recordRequest ==
  LET buffer == {<<request.stream, frameNumber>>}
      override == IF AeCancelNeeded THEN {frameNumber} ELSE {}
  IN /\ request.at = "record"
     /\ mStreamMap' = IF request.stream \in DOMAIN mStreamMap THEN mStreamMap
                      ELSE Extended(mStreamMap, request.stream, "none")
     /\ mInflightBuffers' = mInflightBuffers \cup buffer
     /\ mInflightAETriggerOverrides' = mInflightAETriggerOverrides \cup override
     /\ applyAeLock' = applyAeLock \cup (IF AeLockNeeded THEN override ELSE {})
     /\ IF PhysicalRefused
          THEN /\ request' = NoCapture
               /\ leftover' = [buffers |-> leftover.buffers \cup buffer,
                               overrides |-> leftover.overrides \cup override]
          ELSE request' = [request EXCEPT !.at = "send"] /\ UNCHANGED leftover
     /\ UNCHANGED <<device, mClosed, mFirstRequest, mStreamConfigCounter,
                    mCirculatingBuffers, mInflightRawBoostPresent, configuring,
                    flushing, frameNumber, hal, shown, overlapped, oddity>>

\* Mutation of AeSent: the lock is set on devices that have none.
AeLockAlways == [trigger |-> IF AeCancelNeeded THEN "idle" ELSE AeAsked.trigger,
                 lock |-> AeAsked.lock \/ AeCancelNeeded]

\* What the HAL is told of AE for a request: the trigger is idle where it would not
\* know the cancel, and the lock is on.
AeSent == [trigger |-> IF AeCancelNeeded THEN "idle" ELSE AeAsked.trigger,
           lock |-> AeAsked.lock \/ AeLockNeeded]

\* The HAL takes the request: from here on its callbacks may answer it.
sendRequest_ok ==
  /\ request.at = "send"
  /\ request' = [request EXCEPT !.at = "sent"]
  /\ hal' = [hal EXCEPT !.buffers = @ \cup {<<request.stream, frameNumber>>},
                        !.metadata = Extended(@, frameNumber,
                           [partial |-> 0, boost |-> FALSE, ae |-> AeSent, asked |-> AeAsked]),
                        !.fresh = FALSE]
  /\ oddity' = oddity \cup (IF hal.fresh /\ request.settings = "null"
                              THEN {"null settings first"} ELSE {})
                      \cup (IF mClosed THEN {"used after close"} ELSE {})
                      \cup (IF request.stream \notin DOMAIN hal.streams
                              THEN {"unknown stream"} ELSE {})
  /\ UNCHANGED <<device, mClosed, mFirstRequest, streamState, inflightState,
                 configuring, flushing, frameNumber, shown, leftover, overlapped>>

\* Mutation of sendRequest_failed: the buffer stays recorded.
SendFailedKeepsBuffer ==
  /\ request.at = "send"
  /\ request' = NoCapture
  /\ UNCHANGED <<device, mClosed, mFirstRequest, streamState, inflightState,
                 configuring, flushing, frameNumber, hal, shown, leftover,
                 overlapped, oddity>>

\* The HAL refuses it: the records are taken back.
sendRequest_failed ==
  /\ request.at = "send"
  /\ mInflightBuffers' = mInflightBuffers \ {<<request.stream, frameNumber>>}
  /\ mInflightAETriggerOverrides' = IF AeCancelNeeded
                                      THEN mInflightAETriggerOverrides \ {frameNumber}
                                      ELSE mInflightAETriggerOverrides
  /\ applyAeLock' = IF AeCancelNeeded THEN applyAeLock \ {frameNumber} ELSE applyAeLock
  /\ request' = NoCapture
  /\ UNCHANGED <<device, mClosed, mFirstRequest, streamState, mInflightRawBoostPresent,
                 configuring, flushing, frameNumber, hal, shown, leftover,
                 overlapped, oddity>>

requestSent ==
  /\ request.at = "sent"
  /\ mFirstRequest' = FALSE
  /\ request' = NoCapture
  /\ UNCHANGED <<device, mClosed, streamState, inflightState, configuring, flushing,
                 frameNumber, hal, shown, leftover, overlapped, oddity>>

----------------------------------------------------------------------------
(* configureStreams and close.                                             *)

readStatus ==
  /\ configuring = "no" /\ mStreamConfigCounter <= device.configurations
  /\ configuring' = IF mClosed THEN "closed" ELSE "open"
  /\ UNCHANGED <<device, mClosed, mFirstRequest, streamState, inflightState, request,
                 flushing, frameNumber, hal, shown, leftover, overlapped, oddity>>

\* preProcessConfigurationLocked: streams before one whose size changed are
\* added, in any order the configuration lists them.
Conflicting(c) == {s \in DOMAIN c \cap DOMAIN mStreamMap : c[s] # mStreamMap[s]}
Added(c, ids) == [s \in DOMAIN mStreamMap \cup ids |->
                    IF s \in DOMAIN mStreamMap THEN mStreamMap[s] ELSE c[s]]
WithCaches(ids) == [s \in DOMAIN mCirculatingBuffers \cup ids |->
                      s \in DOMAIN mCirculatingBuffers /\ mCirculatingBuffers[s]]

Deleted(c) == DOMAIN mStreamMap \ DOMAIN c

\* A stream of the configuration changed: it is refused half-way.
configurationChanged(c) ==
  /\ Conflicting(c) # {}
  /\ \E ids \in SUBSET (DOMAIN c \ DOMAIN mStreamMap) :
       mStreamMap' = Added(c, ids) /\ mCirculatingBuffers' = WithCaches(ids)
  /\ UNCHANGED <<mFirstRequest, hal, oddity>>

\* cleanupBuffersLocked throws when a deleted stream has no cache, and that
\* ends the process: oddity "no cache".
NoCache(c) == IF Deleted(c) \subseteq DOMAIN mCirculatingBuffers THEN {} ELSE {"no cache"}

\* Mutation of configurationTaken: mFirstRequest is not set.
TakenForgetsFirst(c) ==
  /\ Conflicting(c) = {}
  /\ mStreamMap' = Restrict(Added(c, DOMAIN c), DOMAIN c)
  /\ mCirculatingBuffers' = Restrict(WithCaches(DOMAIN c),
                                     (DOMAIN mCirculatingBuffers \cup DOMAIN c) \ Deleted(c))
  /\ hal' = [hal EXCEPT !.streams = c, !.fresh = TRUE]
  /\ oddity' = oddity \cup NoCache(c)
  /\ UNCHANGED mFirstRequest

\* postProcessConfigurationLocked: the HAL took the streams.
configurationTaken(c) ==
  /\ Conflicting(c) = {}
  /\ mStreamMap' = Restrict(Added(c, DOMAIN c), DOMAIN c)
  /\ mCirculatingBuffers' = Restrict(WithCaches(DOMAIN c),
                                     (DOMAIN mCirculatingBuffers \cup DOMAIN c) \ Deleted(c))
  /\ mFirstRequest' = TRUE
  /\ hal' = [hal EXCEPT !.streams = c, !.fresh = TRUE]
  /\ oddity' = oddity \cup NoCache(c)

\* Mutation of configurationFailed: the streams freed early get no cache.
FailedForgetsCaches(c) ==
  /\ Conflicting(c) = {}
  /\ mStreamMap' = Added(c, DOMAIN c)
  /\ mCirculatingBuffers' = LET kept == WithCaches(DOMAIN c)
                            IN IF device.freeBufEarly
                                 THEN Restrict(kept, DOMAIN kept \ Deleted(c)) ELSE kept
  /\ oddity' = IF device.freeBufEarly THEN oddity \cup NoCache(c) ELSE oddity
  /\ UNCHANGED <<mFirstRequest, hal>>

\* postProcessConfigurationFailureLocked: the HAL refused them.  Buffers
\* freed early are gone, and their streams get an empty cache.
configurationFailed(c) ==
  /\ Conflicting(c) = {}
  /\ mStreamMap' = Added(c, DOMAIN c)
  /\ mCirculatingBuffers' =
       IF device.freeBufEarly
         THEN [s \in DOMAIN mCirculatingBuffers \cup DOMAIN c \cup Deleted(c) |->
                 s \in DOMAIN mCirculatingBuffers \ Deleted(c) /\ mCirculatingBuffers[s]]
         ELSE WithCaches(DOMAIN c)
  /\ oddity' = IF device.freeBufEarly THEN oddity \cup NoCache(c) ELSE oddity
  /\ UNCHANGED <<mFirstRequest, hal>>

\* configureStreams once mInflightLock is held.
Configurable ==
  /\ mInflightBuffers = {} /\ mInflightAETriggerOverrides = {}
  /\ DOMAIN mInflightRawBoostPresent = {} /\ configuring = "open"

configureStreams(c) ==
  /\ configuring \in {"open", "closed"}
  /\ configuring' = "no"
  /\ IF Configurable
       THEN /\ configurationChanged(c) \/ configurationTaken(c) \/ configurationFailed(c)
            /\ mStreamConfigCounter' = mStreamConfigCounter + 1
       ELSE UNCHANGED <<streamState, mFirstRequest, hal, oddity>>
  /\ overlapped' = (\/ overlapped \/ request.at # "none" \/ flushing.at = "call"
                    \/ (mClosed /\ configuring = "open"))
  /\ UNCHANGED <<device, mClosed, inflightState, request, flushing, frameNumber,
                 shown, leftover>>

\* close holds mStateLock throughout; the HAL returns from its close when it
\* will call back no more.
close ==
  /\ device.closes /\ ~ mClosed
  /\ mClosed' = TRUE
  /\ mCirculatingBuffers' = Empty
  /\ hal' = [hal EXCEPT !.buffers = {}, !.metadata = Empty]
  /\ overlapped' = (overlapped \/ request.at # "none")
  /\ UNCHANGED <<device, mFirstRequest, mStreamConfigCounter, mStreamMap, inflightState,
                 request, configuring, flushing, frameNumber, shown, leftover, oddity>>

----------------------------------------------------------------------------
(* signalStreamFlush: the counter, the streams' addresses under            *)
(* mInflightLock, and the call without it.                                 *)

signalStreamFlush ==
  /\ device.flushes /\ flushing.at = "none"
  /\ \E ids \in (SUBSET StreamIds) \ {{}}, counter \in {mStreamConfigCounter - 1, mStreamConfigCounter} :
       flushing' = IF counter < mStreamConfigCounter THEN NoFlush
                   ELSE [at |-> "look up", streams |-> ids]
  /\ UNCHANGED <<device, mClosed, mFirstRequest, streamState, inflightState, request,
                 configuring, frameNumber, hal, shown, leftover, overlapped, oddity>>

lookUpStreams ==
  /\ flushing.at = "look up"
  /\ flushing' = IF flushing.streams \subseteq DOMAIN mStreamMap
                   THEN [flushing EXCEPT !.at = "call"] ELSE NoFlush
  /\ UNCHANGED <<device, mClosed, mFirstRequest, streamState, inflightState, request,
                 configuring, frameNumber, hal, shown, leftover, overlapped, oddity>>

signal_stream_flush ==
  /\ flushing.at = "call"
  /\ flushing' = NoFlush
  /\ oddity' = oddity \cup (IF flushing.streams \subseteq DOMAIN mStreamMap THEN {}
                            ELSE {"flush of a deleted stream"})
  /\ UNCHANGED <<device, mClosed, mFirstRequest, streamState, inflightState, request,
                 configuring, frameNumber, hal, shown, leftover, overlapped>>

----------------------------------------------------------------------------
(* sProcessCaptureResult and sNotify, on the HAL's thread.  The HAL has    *)
(* the post-RAW boost key in at most one of a frame's partial results.     *)

Shown(f) == IF f \in DOMAIN shown THEN shown[f] ELSE [boosts |-> 0, ae |-> TRUE, done |-> FALSE]

\* This result or one of the frame's earlier ones has the boost key.
BoostPresent(f, boost) ==
  boost \/ (f \in DOMAIN mInflightRawBoostPresent /\ mInflightRawBoostPresent[f])

\* constructCaptureResult with a partial result's metadata.
metadataResult ==
  \E f \in DOMAIN hal.metadata, boost \in BOOLEAN :
    LET m == hal.metadata[f]
        final == m.partial + 1 = NumPartialResults
        present == BoostPresent(f, boost)
        derived == device.derivePostRawSensKey /\ final /\ ~ present
        ae == [trigger |-> IF f \in mInflightAETriggerOverrides THEN "cancel" ELSE m.ae.trigger,
               lock |-> m.ae.lock /\ f \notin applyAeLock]
    IN /\ boost => ~ m.boost
       /\ hal' = [hal EXCEPT !.metadata = IF final THEN Without(@, f)
                               ELSE [@ EXCEPT ![f] = [m EXCEPT !.partial = @ + 1,
                                                               !.boost = @ \/ boost]]]
       /\ mInflightRawBoostPresent' =
            IF ~ device.derivePostRawSensKey THEN mInflightRawBoostPresent
            ELSE IF final THEN Without(mInflightRawBoostPresent, f)
            ELSE Extended(mInflightRawBoostPresent, f, present)
       /\ mInflightAETriggerOverrides' = IF final THEN mInflightAETriggerOverrides \ {f}
                                         ELSE mInflightAETriggerOverrides
       /\ applyAeLock' = IF final THEN applyAeLock \ {f} ELSE applyAeLock
       /\ shown' = Extended(shown, f, [boosts |-> Shown(f).boosts + (IF boost \/ derived THEN 1 ELSE 0),
                                       ae |-> Shown(f).ae /\ ae = m.asked,
                                       done |-> final])
       /\ UNCHANGED <<device, mClosed, mFirstRequest, streamState, mInflightBuffers,
                      request, configuring, flushing, frameNumber, leftover,
                      overlapped, oddity>>

\* constructCaptureResult with a buffer: a buffer that is not in flight is
\* not passed on.
bufferResult ==
  \E b \in hal.buffers :
    /\ hal' = [hal EXCEPT !.buffers = @ \ {b}]
    /\ mInflightBuffers' = mInflightBuffers \ {b}
    /\ oddity' = IF b \in mInflightBuffers THEN oddity ELSE oddity \cup {"buffer not in flight"}
    /\ UNCHANGED <<device, mClosed, mFirstRequest, streamState,
                   mInflightAETriggerOverrides, applyAeLock, mInflightRawBoostPresent, request,
                   configuring, flushing, frameNumber, shown, leftover, overlapped>>

\* ERROR_REQUEST and ERROR_RESULT: the frame's metadata, or the rest of it,
\* will not come.
errorNotified ==
  \E f \in DOMAIN hal.metadata :
    /\ hal' = [hal EXCEPT !.metadata = Without(@, f)]
    /\ mInflightAETriggerOverrides' = mInflightAETriggerOverrides \ {f}
    /\ applyAeLock' = applyAeLock \ {f}
    /\ mInflightRawBoostPresent' = Without(mInflightRawBoostPresent, f)
    /\ UNCHANGED <<device, mClosed, mFirstRequest, streamState, mInflightBuffers,
                   request, configuring, flushing, frameNumber, shown, leftover,
                   overlapped, oddity>>

----------------------------------------------------------------------------
SessionStep ==
  \/ checkRequest \/ importRequest \/ recordRequest
  \/ sendRequest_ok \/ sendRequest_failed \/ requestSent
  \/ readStatus \/ (\E c \in Configurations : configureStreams(c)) \/ close
  \/ signalStreamFlush \/ lookUpStreams \/ signal_stream_flush
  \/ metadataResult \/ bufferResult \/ errorNotified

SessionNext == "no cache" \notin oddity /\ SessionStep

SessionSpec == SessionInit /\ [][SessionNext]_sessionVars

----------------------------------------------------------------------------
\* Every configured stream has its cache of imported buffers, through failed
\* and refused configurations with either way of freeing them; so the
\* configuration that deletes the stream finds the cache it cleans up.
CachesMatchStreams ==
  ~ overlapped /\ ~ mClosed => DOMAIN mStreamMap = DOMAIN mCirculatingBuffers

\* The in-flight record is exactly what the HAL holds, the request on its way and
\* what requests with refused physical settings left behind.  So no configuration
\* pulls a buffer from the HAL, and without such a refusal none is turned down once
\* the HAL has returned everything.  After one, whose entries nothing removes,
\* configureStreams refuses for good.
InflightAccounted ==
  LET onItsWay == IF request.at = "send" THEN {frameNumber} ELSE {}
  IN ~ mClosed =>
       /\ mInflightBuffers =
            hal.buffers \cup leftover.buffers \cup {<<request.stream, f>> : f \in onItsWay}
       /\ mInflightAETriggerOverrides \subseteq
            DOMAIN hal.metadata \cup leftover.overrides \cup onItsWay
       /\ DOMAIN mInflightRawBoostPresent \subseteq DOMAIN hal.metadata

\* The HAL sees no call after close, no request for a stream it does not
\* know, no null settings as the first since a configuration and no flush of
\* a deleted stream; no configuration misses a cache; no buffer it returns is
\* unknown: unless a configuration or close ran inside another call.
CallsInOrder == ~ overlapped => oddity = {}

\* Each frame's results show the AE state the framework asked for, the lock
\* included, not what an old HAL was sent instead of a cancel.
AeAsAsked == \A f \in DOMAIN shown : shown[f].ae

\* A frame's complete result has the post-RAW boost key exactly once: the
\* HAL's if any partial result had it, else the default.
BoostOnce ==
  device.derivePostRawSensKey =>
    \A f \in DOMAIN shown : shown[f].done => shown[f].boosts = 1

\* The metadata that the session rewrites for the HAL and back again is, in every
\* result, what the framework expects.
ResultsAsAsked == AeAsAsked /\ BoostOnce
=============================================================================
