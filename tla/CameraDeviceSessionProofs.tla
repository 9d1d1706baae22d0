--------------------- MODULE CameraDeviceSessionProofs ---------------------
(***************************************************************************)
(* The session's caches match its streams, and its in-flight records are   *)
(* accounted for, for any device, configurations and number of frames.     *)
(***************************************************************************)
EXTENDS CameraDeviceSession, TLAPS

\* The records keep their fields.
Fields ==
  /\ DOMAIN hal = {"streams", "buffers", "metadata", "fresh"}
  /\ DOMAIN request = {"at", "stream", "settings", "physical"}
  /\ DOMAIN leftover = {"buffers", "overrides"}
  /\ frameNumber \in Nat

\* Beyond CachesMatchStreams: the HAL's streams are configured ones, and so is the
\* one a request is about to import a buffer for.
Caches ==
  ~ overlapped /\ ~ mClosed =>
    /\ DOMAIN mStreamMap = DOMAIN mCirculatingBuffers
    /\ DOMAIN hal.streams \subseteq DOMAIN mStreamMap
    /\ request.at \in {"import", "record"} => request.stream \in DOMAIN mStreamMap

\* A request that the HAL has not seen yet.
Processing == request.at \in {"import", "record", "send"}

\* Frames are numbered upwards, so that the request on its way has a number no buffer
\* has, and no buffer is both the HAL's and left behind.
Numbered ==
  /\ \A b \in hal.buffers \cup leftover.buffers :
       b[2] \in Nat /\ b[2] <= frameNumber /\ (Processing => b[2] < frameNumber)
  /\ hal.buffers \cap leftover.buffers = {}

\* The request's frame has an override only from recordRequest on, for an AE cancel;
\* and boosts are recorded only for a device whose boost key is derived.
Overrides ==
  /\ \A f \in mInflightAETriggerOverrides : f \in Nat /\ f <= frameNumber
  /\ (\/ request.at \in {"import", "record"}
      \/ request.at = "send" /\ ~ AeCancelNeeded) =>
        frameNumber \notin mInflightAETriggerOverrides
  /\ ~ device.derivePostRawSensKey => DOMAIN mInflightRawBoostPresent = {}

\* The inductive invariant.
IInv == Fields /\ Caches /\ Numbered /\ Overrides /\ InflightAccounted
----------------------------------------------------------------------------
\* What an insertion does to the keys of a map.
LEMMA ExtendedDomain ==
  ASSUME NEW f, NEW x, NEW v PROVE DOMAIN Extended(f, x, v) = DOMAIN f \cup {x}
  BY DEF Extended

\* What an erasure does to the keys of a map.
LEMMA WithoutDomain ==
  ASSUME NEW f, NEW x PROVE DOMAIN Without(f, x) = DOMAIN f \ {x}
  BY DEF Without, Restrict

\* initialize leaves everything empty.
LEMMA InitHasIInv == SessionInit => IInv
<1> SUFFICES ASSUME SessionInit PROVE IInv
  OBVIOUS
<1>1. Fields
  BY DEF SessionInit, Fields, NoCapture
<1>2. DOMAIN Empty = {}
  BY DEF Empty
<1>3. Caches
  BY <1>2 DEF SessionInit, Caches, NoCapture
<1>4. Numbered
  BY DEF SessionInit, Numbered
<1>5. InflightAccounted
  BY <1>2 DEF SessionInit, InflightAccounted, NoCapture
<1>6. Overrides
  BY <1>2 DEF SessionInit, Overrides, NoCapture
<1> QED BY <1>1, <1>3, <1>4, <1>5, <1>6 DEF IInv

\* Every action leaves the records their fields and the frame number a number.
LEMMA StepKeepsFields == Fields /\ [SessionNext]_sessionVars => Fields'
<1> SUFFICES ASSUME Fields, [SessionNext]_sessionVars PROVE Fields'
  OBVIOUS
<1> USE DEF Fields, NoCapture
<1>1. CASE checkRequest
  BY <1>1 DEF checkRequest
<1>2. CASE importRequest
  BY <1>2 DEF importRequest
<1>3. CASE recordRequest
  BY <1>3 DEF recordRequest
<1>4. CASE sendRequest_ok
  BY <1>4 DEF sendRequest_ok
<1>5. CASE sendRequest_failed
  BY <1>5 DEF sendRequest_failed
<1>6. CASE requestSent
  BY <1>6 DEF requestSent
<1>7. CASE readStatus
  BY <1>7 DEF readStatus
<1>8. ASSUME NEW c \in Configurations, configureStreams(c) PROVE Fields'
  <2>1. DOMAIN hal' = DOMAIN hal
    BY <1>8, Zenon DEF configureStreams, configurationChanged, configurationTaken, configurationFailed
  <2> QED BY <1>8, <2>1 DEF configureStreams
<1>9. CASE close
  BY <1>9 DEF close
<1>10. CASE signalStreamFlush \/ lookUpStreams \/ signal_stream_flush
  BY <1>10 DEF signalStreamFlush, lookUpStreams, signal_stream_flush
<1>11. CASE metadataResult
  BY <1>11 DEF metadataResult
<1>12. CASE bufferResult
  BY <1>12 DEF bufferResult
<1>13. CASE errorNotified
  BY <1>13 DEF errorNotified
<1>14. CASE UNCHANGED sessionVars
  BY <1>14 DEF sessionVars
<1> QED
  BY <1>1, <1>2, <1>3, <1>4, <1>5, <1>6, <1>7, <1>8, <1>9, <1>10, <1>11, <1>12, <1>13, <1>14
  DEF SessionNext, SessionStep

\* A configuration keeps caches and streams together, whichever way it ends.
LEMMA ConfigurationKeepsCaches ==
  ASSUME NEW c \in Configurations, Fields, Caches, ~ overlapped, ~ mClosed,
         configurationChanged(c) \/ configurationTaken(c) \/ configurationFailed(c)
  PROVE  /\ DOMAIN mStreamMap' = DOMAIN mCirculatingBuffers'
         /\ DOMAIN hal'.streams \subseteq DOMAIN mStreamMap'
<1>1. DOMAIN mStreamMap = DOMAIN mCirculatingBuffers /\ DOMAIN hal.streams \subseteq DOMAIN mStreamMap
  BY DEF Caches
<1>2. \A ids : /\ DOMAIN Added(c, ids) = DOMAIN mStreamMap \cup ids
               /\ DOMAIN WithCaches(ids) = DOMAIN mCirculatingBuffers \cup ids
  BY DEF Added, WithCaches
<1>3. CASE configurationChanged(c)
  <2>1. PICK ids \in SUBSET (DOMAIN c \ DOMAIN mStreamMap) :
          mStreamMap' = Added(c, ids) /\ mCirculatingBuffers' = WithCaches(ids)
    BY <1>3 DEF configurationChanged
  <2>2. hal' = hal
    BY <1>3 DEF configurationChanged
  <2> QED BY <1>1, <1>2, <2>1, <2>2, Zenon
<1>4. CASE configurationTaken(c)
  <2>1. DOMAIN mStreamMap' = DOMAIN c
    BY <1>4 DEF configurationTaken, Restrict
  <2>2. DOMAIN mCirculatingBuffers' = (DOMAIN mCirculatingBuffers \cup DOMAIN c) \ Deleted(c)
    BY <1>4 DEF configurationTaken, Restrict
  <2>3. hal'.streams = c
    BY <1>4 DEF configurationTaken, Fields
  <2> QED BY <1>1, <2>1, <2>2, <2>3 DEF Deleted
<1>5. CASE configurationFailed(c)
  <2>1. DOMAIN mStreamMap' = DOMAIN mStreamMap \cup DOMAIN c /\ hal' = hal
    BY <1>2, <1>5 DEF configurationFailed
  <2>2. DOMAIN mCirculatingBuffers' = DOMAIN mCirculatingBuffers \cup DOMAIN c
    <3>1. CASE device.freeBufEarly
      BY <1>1, <1>5, <3>1 DEF configurationFailed, Deleted
    <3>2. CASE ~ device.freeBufEarly
      BY <1>2, <1>5, <3>2 DEF configurationFailed
    <3> QED BY <3>1, <3>2
  <2> QED BY <1>1, <2>1, <2>2
<1> QED BY <1>3, <1>4, <1>5

\* A step that leaves streams, caches, the request and close alone keeps Caches.
LEMMA CachesQuiet ==
  ASSUME Caches, mStreamMap' = mStreamMap, mCirculatingBuffers' = mCirculatingBuffers,
         hal'.streams = hal.streams, mClosed' = mClosed, overlapped' = overlapped,
         request' = request \/ request'.at \notin {"import", "record"}
  PROVE  Caches'
  BY DEF Caches

\* Every action keeps Caches; a configuration inside a request gives the promise up.
LEMMA StepKeepsCaches == Fields /\ Caches /\ [SessionNext]_sessionVars => Caches'
<1> SUFFICES ASSUME Fields, Caches, [SessionNext]_sessionVars PROVE Caches'
  OBVIOUS
<1>1. CASE checkRequest
  <2>1. /\ UNCHANGED <<mStreamMap, mCirculatingBuffers, mStreamConfigCounter, mClosed, overlapped, hal>>
        /\ request' = NoCapture \/ request'.stream \in DOMAIN hal.streams
    BY <1>1 DEF checkRequest, streamState
  <2> QED BY <2>1 DEF Caches, NoCapture
<1>2. CASE importRequest
  <2>1. /\ UNCHANGED <<mStreamMap, mClosed, overlapped, hal>>
        /\ request' = NoCapture \/ (request'.stream = request.stream)
    BY <1>2 DEF importRequest, Fields
  <2>2. \/ mCirculatingBuffers' = mCirculatingBuffers
        \/ DOMAIN mCirculatingBuffers' = DOMAIN mCirculatingBuffers \cup {request.stream}
    <3>1. PICK outcome, kept :
            mCirculatingBuffers' = IF outcome = "empty" THEN mCirculatingBuffers
                                   ELSE Extended(mCirculatingBuffers, request.stream, kept)
      BY <1>2, Zenon DEF importRequest
    <3> QED BY <3>1, ExtendedDomain, Zenon
  <2>3. request.at = "import"
    BY <1>2 DEF importRequest
  <2> QED BY <2>1, <2>2, <2>3 DEF Caches, NoCapture
<1>3. CASE recordRequest
  <2>1. /\ UNCHANGED <<mCirculatingBuffers, mClosed, overlapped, hal>>
        /\ request.at = "record"
        /\ request.stream \in DOMAIN mStreamMap => mStreamMap' = mStreamMap
    BY <1>3 DEF recordRequest
  <2>2. request'.at \notin {"import", "record"}
    BY <1>3 DEF recordRequest, NoCapture, Fields
  <2> QED BY <2>1, <2>2 DEF Caches
<1>4. CASE sendRequest_ok
  <2>1. hal'.streams = hal.streams /\ request'.at = "sent"
    BY <1>4 DEF sendRequest_ok, Fields
  <2> QED BY <1>4, <2>1, CachesQuiet DEF sendRequest_ok, streamState
<1>5. CASE sendRequest_failed
  BY <1>5, CachesQuiet DEF sendRequest_failed, streamState, NoCapture
<1>6. CASE requestSent
  BY <1>6, CachesQuiet DEF requestSent, streamState, NoCapture
<1>7. CASE readStatus
  BY <1>7, CachesQuiet DEF readStatus, streamState
<1>8. ASSUME NEW c \in Configurations, configureStreams(c) PROVE Caches'
  <2>1. SUFFICES ASSUME ~ overlapped', ~ mClosed' PROVE Caches'
    BY DEF Caches
  <2>2. ~ overlapped /\ ~ mClosed /\ request' = request /\ request.at = "none"
    BY <1>8, <2>1 DEF configureStreams
  <2>3. CASE Configurable
    <3>1. configurationChanged(c) \/ configurationTaken(c) \/ configurationFailed(c)
      BY <1>8, <2>3 DEF configureStreams
    <3> QED BY <2>2, <3>1, ConfigurationKeepsCaches DEF Caches
  <2>4. CASE ~ Configurable
    <3>1. UNCHANGED <<mStreamMap, mCirculatingBuffers, hal>>
      BY <1>8, <2>4 DEF configureStreams, streamState
    <3> QED BY <2>2, <3>1 DEF Caches
  <2> QED BY <2>3, <2>4
<1>9. CASE close
  BY <1>9 DEF close, Caches
<1>10. CASE signalStreamFlush \/ lookUpStreams \/ signal_stream_flush
  BY <1>10, CachesQuiet DEF signalStreamFlush, lookUpStreams, signal_stream_flush, streamState
<1>11. CASE metadataResult
  <2>1. hal'.streams = hal.streams
    BY <1>11 DEF metadataResult, Fields
  <2> QED BY <1>11, <2>1, CachesQuiet DEF metadataResult, streamState
<1>12. CASE bufferResult
  <2>1. hal'.streams = hal.streams
    BY <1>12 DEF bufferResult, Fields
  <2> QED BY <1>12, <2>1, CachesQuiet DEF bufferResult, streamState
<1>13. CASE errorNotified
  <2>1. hal'.streams = hal.streams
    BY <1>13 DEF errorNotified, Fields
  <2> QED BY <1>13, <2>1, CachesQuiet DEF errorNotified, streamState
<1>14. CASE UNCHANGED sessionVars
  BY <1>14, CachesQuiet DEF sessionVars
<1> QED
  BY <1>1, <1>2, <1>3, <1>4, <1>5, <1>6, <1>7, <1>8, <1>9, <1>10, <1>11, <1>12, <1>13, <1>14
  DEF SessionNext, SessionStep

\* A step that adds no buffer and starts no request keeps Numbered.
LEMMA NumberedQuiet ==
  ASSUME Numbered, Fields, hal'.buffers \subseteq hal.buffers, leftover' = leftover,
         frameNumber' = frameNumber, Processing' => Processing
  PROVE  Numbered'
  BY DEF Numbered, Fields

\* Every action keeps the frames in order.
LEMMA StepKeepsNumbered == Fields /\ Numbered /\ [SessionNext]_sessionVars => Numbered'
<1> SUFFICES ASSUME Fields, Numbered, [SessionNext]_sessionVars PROVE Numbered'
  OBVIOUS
<1>1. CASE checkRequest
  <2>1. UNCHANGED <<hal, leftover>> /\ frameNumber' = frameNumber + 1
    BY <1>1 DEF checkRequest
  <2> QED BY <2>1 DEF Numbered, Fields
<1>2. CASE importRequest
  <2>1. UNCHANGED <<hal, leftover, frameNumber>> /\ request.at = "import"
    BY <1>2 DEF importRequest
  <2> QED BY <2>1, NumberedQuiet DEF Processing
<1>3. CASE recordRequest
  <2>1. UNCHANGED <<hal, frameNumber>> /\ request.at = "record"
    BY <1>3 DEF recordRequest
  <2>2. CASE PhysicalRefused
    <3>1. /\ leftover'.buffers = leftover.buffers \cup {<<request.stream, frameNumber>>}
          /\ request'.at = "none"
      BY <1>3, <2>2 DEF recordRequest, NoCapture
    <3>2. \A b \in hal.buffers \cup leftover.buffers : b[2] \in Nat /\ b[2] < frameNumber
      BY <2>1 DEF Numbered, Processing
    <3>3. <<request.stream, frameNumber>>[2] = frameNumber /\ frameNumber \in Nat
      BY DEF Fields
    <3> QED BY <2>1, <3>1, <3>2, <3>3 DEF Numbered, Processing
  <2>3. CASE ~ PhysicalRefused
    BY <1>3, <2>1, <2>3, NumberedQuiet DEF recordRequest, Processing
  <2> QED BY <2>2, <2>3
<1>4. CASE sendRequest_ok
  <2>1. /\ UNCHANGED <<leftover, frameNumber>> /\ request.at = "send" /\ request'.at = "sent"
        /\ hal'.buffers = hal.buffers \cup {<<request.stream, frameNumber>>}
    BY <1>4 DEF sendRequest_ok, Fields
  <2>2. \A b \in hal.buffers \cup leftover.buffers : b[2] \in Nat /\ b[2] < frameNumber
    BY <2>1 DEF Numbered, Processing
  <2>3. <<request.stream, frameNumber>>[2] = frameNumber /\ frameNumber \in Nat
    BY DEF Fields
  <2> QED BY <2>1, <2>2, <2>3 DEF Numbered, Processing
<1>5. CASE sendRequest_failed
  BY <1>5, NumberedQuiet DEF sendRequest_failed, Processing
<1>6. CASE requestSent
  BY <1>6, NumberedQuiet DEF requestSent, Processing, NoCapture
<1>7. CASE readStatus
  BY <1>7, NumberedQuiet DEF readStatus, Processing
<1>8. ASSUME NEW c \in Configurations, configureStreams(c) PROVE Numbered'
  <2>1. hal'.buffers = hal.buffers
    BY <1>8, Zenon DEF configureStreams, configurationChanged, configurationTaken, configurationFailed,
                Fields
  <2> QED BY <1>8, <2>1, NumberedQuiet DEF configureStreams, Processing
<1>9. CASE close
  <2>1. hal'.buffers = {}
    BY <1>9 DEF close, Fields
  <2> QED BY <1>9, <2>1, NumberedQuiet DEF close, Processing
<1>10. CASE signalStreamFlush \/ lookUpStreams \/ signal_stream_flush
  BY <1>10, NumberedQuiet DEF signalStreamFlush, lookUpStreams, signal_stream_flush, Processing
<1>11. CASE metadataResult
  <2>1. hal'.buffers = hal.buffers
    BY <1>11 DEF metadataResult, Fields
  <2> QED BY <1>11, <2>1, NumberedQuiet DEF metadataResult, Processing
<1>12. CASE bufferResult
  <2>1. hal'.buffers \subseteq hal.buffers
    <3>1. PICK b \in hal.buffers : hal' = [hal EXCEPT !.buffers = @ \ {b}]
      BY <1>12 DEF bufferResult
    <3> QED BY <3>1 DEF Fields
  <2> QED BY <1>12, <2>1, NumberedQuiet DEF bufferResult, Processing
<1>13. CASE errorNotified
  <2>1. hal'.buffers = hal.buffers
    BY <1>13 DEF errorNotified, Fields
  <2> QED BY <1>13, <2>1, NumberedQuiet DEF errorNotified, Processing
<1>14. CASE UNCHANGED sessionVars
  BY <1>14, NumberedQuiet DEF sessionVars, Processing
<1> QED
  BY <1>1, <1>2, <1>3, <1>4, <1>5, <1>6, <1>7, <1>8, <1>9, <1>10, <1>11, <1>12, <1>13, <1>14
  DEF SessionNext, SessionStep

\* A step that adds no override and leaves the request where it is, or ends it, keeps
\* Overrides.
LEMMA OverridesQuiet ==
  ASSUME Overrides, mInflightAETriggerOverrides' \subseteq mInflightAETriggerOverrides,
         frameNumber' = frameNumber, device' = device,
         \/ mInflightRawBoostPresent' = mInflightRawBoostPresent
         \/ DOMAIN mInflightRawBoostPresent' \subseteq DOMAIN mInflightRawBoostPresent
         \/ device.derivePostRawSensKey,
         request' = request \/ request'.at \in {"none", "sent"}
  PROVE  Overrides'
  BY Zenon DEF Overrides, AeCancelNeeded

\* Every action keeps the overrides those of AE cancels.
LEMMA StepKeepsOverrides == Fields /\ Overrides /\ [SessionNext]_sessionVars => Overrides'
<1> SUFFICES ASSUME Fields, Overrides, [SessionNext]_sessionVars PROVE Overrides'
  OBVIOUS
<1>1. CASE checkRequest
  <2>1. /\ mInflightAETriggerOverrides' = mInflightAETriggerOverrides
        /\ frameNumber' = frameNumber + 1 /\ UNCHANGED <<device, mInflightRawBoostPresent>>
    BY <1>1 DEF checkRequest, inflightState
  <2>2. request'.at \in {"none", "import"}
    BY <1>1 DEF checkRequest, NoCapture
  <2> QED BY <2>1, <2>2 DEF Overrides, Fields
<1>2. CASE importRequest
  <2>1. /\ request.at = "import" /\ request'.at \in {"none", "record"}
        /\ UNCHANGED <<device, mInflightAETriggerOverrides, mInflightRawBoostPresent,
                       frameNumber>>
    BY <1>2 DEF importRequest, NoCapture, Fields, inflightState
  <2> QED BY <2>1 DEF Overrides
<1>3. CASE recordRequest
  <2>1. /\ UNCHANGED <<frameNumber, device, mInflightRawBoostPresent>> /\ request.at = "record"
        /\ mInflightAETriggerOverrides' =
             mInflightAETriggerOverrides \cup (IF AeCancelNeeded THEN {frameNumber} ELSE {})
        /\ \/ request'.at = "none"
           \/ request'.at = "send" /\ request'.settings = request.settings
    BY <1>3 DEF recordRequest, NoCapture, Fields
  <2> QED BY <2>1 DEF Overrides, AeCancelNeeded, Fields
<1>4. CASE sendRequest_ok \/ sendRequest_failed \/ requestSent
  <2>1. /\ UNCHANGED <<frameNumber, device, mInflightRawBoostPresent>>
        /\ request'.at \in {"none", "sent"}
        /\ mInflightAETriggerOverrides' \subseteq mInflightAETriggerOverrides
    <3>1. CASE sendRequest_ok
      BY <3>1 DEF sendRequest_ok, Fields, inflightState
    <3>2. CASE sendRequest_failed
      BY <3>2 DEF sendRequest_failed, NoCapture
    <3>3. CASE requestSent
      BY <3>3 DEF requestSent, NoCapture, inflightState
    <3> QED BY <1>4, <3>1, <3>2, <3>3
  <2> QED BY <2>1, OverridesQuiet
<1>5. CASE \/ readStatus \/ (\E c \in Configurations : configureStreams(c)) \/ close
           \/ signalStreamFlush \/ lookUpStreams \/ signal_stream_flush
  <2>1. UNCHANGED <<inflightState, frameNumber, device, request>>
    BY <1>5 DEF readStatus, configureStreams, close, signalStreamFlush, lookUpStreams,
                signal_stream_flush
  <2> QED BY <2>1, OverridesQuiet DEF inflightState
<1>6. CASE metadataResult \/ bufferResult \/ errorNotified
  <2>1. /\ UNCHANGED <<frameNumber, device, request>>
        /\ mInflightAETriggerOverrides' \subseteq mInflightAETriggerOverrides
    BY <1>6, Zenon DEF metadataResult, bufferResult, errorNotified
  <2>2. CASE metadataResult
    <3>1. \/ mInflightRawBoostPresent' = mInflightRawBoostPresent
          \/ device.derivePostRawSensKey
      BY <2>2 DEF metadataResult
    <3> QED BY <2>1, <3>1, OverridesQuiet
  <2>3. CASE bufferResult
    BY <2>1, <2>3, OverridesQuiet DEF bufferResult
  <2>4. CASE errorNotified
    <3>1. PICK f \in DOMAIN hal.metadata :
            mInflightRawBoostPresent' = Without(mInflightRawBoostPresent, f)
      BY <2>4 DEF errorNotified
    <3>2. DOMAIN mInflightRawBoostPresent' = DOMAIN mInflightRawBoostPresent \ {f}
      BY <3>1, WithoutDomain
    <3> QED BY <2>1, <3>2, OverridesQuiet
  <2> QED BY <1>6, <2>2, <2>3, <2>4
<1>7. CASE UNCHANGED sessionVars
  BY <1>7, OverridesQuiet DEF sessionVars
<1> QED
  BY <1>1, <1>2, <1>3, <1>4, <1>5, <1>6, <1>7 DEF SessionNext, SessionStep

\* A step that leaves what is in flight alone, and sends no request and gets no
\* answer, keeps InflightAccounted.
LEMMA AccountedQuiet ==
  ASSUME InflightAccounted, UNCHANGED <<inflightState, leftover, frameNumber>>,
         hal'.buffers = hal.buffers, hal'.metadata = hal.metadata, mClosed' = mClosed,
         \/ request' = request
         \/ request.at # "send" /\ request'.at # "send"
  PROVE  InflightAccounted'
  BY DEF InflightAccounted, inflightState

\* Every action keeps InflightAccounted.
LEMMA StepKeepsAccounted ==
  Fields /\ Numbered /\ Overrides /\ InflightAccounted /\ [SessionNext]_sessionVars =>
    InflightAccounted'
<1> SUFFICES ASSUME Fields, Numbered, Overrides, InflightAccounted, [SessionNext]_sessionVars
             PROVE  InflightAccounted'
  OBVIOUS
<1>1. CASE checkRequest
  <2>1. /\ UNCHANGED <<inflightState, hal, leftover, mClosed>>
        /\ request.at = "none" /\ request'.at # "send"
    BY <1>1 DEF checkRequest, NoCapture
  <2> QED BY <2>1 DEF InflightAccounted, inflightState
<1>2. CASE importRequest
  <2>1. request.at = "import" /\ request'.at # "send"
    BY <1>2 DEF importRequest, NoCapture, Fields
  <2> QED BY <1>2, <2>1, AccountedQuiet DEF importRequest
<1>3. CASE recordRequest
  <2> DEFINE buffer == {<<request.stream, frameNumber>>}
             override == IF AeCancelNeeded THEN {frameNumber} ELSE {}
  <2>1. /\ UNCHANGED <<hal, frameNumber, mClosed, mInflightRawBoostPresent>>
        /\ request.at = "record"
        /\ mInflightBuffers' = mInflightBuffers \cup buffer
        /\ mInflightAETriggerOverrides' = mInflightAETriggerOverrides \cup override
    BY <1>3 DEF recordRequest
  <2>2. CASE PhysicalRefused
    <3>1. /\ leftover'.buffers = leftover.buffers \cup buffer
          /\ leftover'.overrides = leftover.overrides \cup override
          /\ request'.at = "none"
      BY <1>3, <2>2 DEF recordRequest, NoCapture
    <3> QED BY <2>1, <3>1 DEF InflightAccounted
  <2>3. CASE ~ PhysicalRefused
    <3>1. leftover' = leftover /\ request'.at = "send" /\ request'.stream = request.stream
      BY <1>3, <2>3 DEF recordRequest, Fields
    <3> QED BY <2>1, <3>1 DEF InflightAccounted
  <2> QED BY <2>2, <2>3
<1>4. CASE sendRequest_ok
  <2>1. /\ UNCHANGED <<inflightState, leftover, frameNumber, mClosed>>
        /\ request.at = "send" /\ request'.at = "sent"
        /\ hal'.buffers = hal.buffers \cup {<<request.stream, frameNumber>>}
        /\ DOMAIN hal'.metadata = DOMAIN hal.metadata \cup {frameNumber}
    BY <1>4, ExtendedDomain DEF sendRequest_ok, Fields
  <2> QED BY <2>1 DEF InflightAccounted, inflightState
<1>5. CASE sendRequest_failed
  <2>1. /\ UNCHANGED <<leftover, frameNumber, mClosed, hal, mInflightRawBoostPresent>>
        /\ request.at = "send" /\ request'.at = "none"
        /\ mInflightBuffers' = mInflightBuffers \ {<<request.stream, frameNumber>>}
    BY <1>5 DEF sendRequest_failed, NoCapture
  <2>2. <<request.stream, frameNumber>> \notin hal.buffers \cup leftover.buffers
    <3>1. <<request.stream, frameNumber>>[2] = frameNumber /\ frameNumber \in Nat
      BY DEF Fields
    <3> QED BY <2>1, <3>1 DEF Numbered, Processing
  <2>3. frameNumber \notin mInflightAETriggerOverrides'
    BY <1>5 DEF sendRequest_failed, Overrides
  <2>4. mInflightAETriggerOverrides' \subseteq mInflightAETriggerOverrides
    BY <1>5 DEF sendRequest_failed
  <2> QED BY <2>1, <2>2, <2>3, <2>4 DEF InflightAccounted
<1>6. CASE requestSent
  <2>1. request.at = "sent" /\ request'.at = "none"
    BY <1>6 DEF requestSent, NoCapture
  <2> QED BY <1>6, <2>1, AccountedQuiet DEF requestSent
<1>7. CASE readStatus \/ signalStreamFlush \/ lookUpStreams \/ signal_stream_flush
  BY <1>7, AccountedQuiet DEF readStatus, signalStreamFlush, lookUpStreams, signal_stream_flush
<1>8. ASSUME NEW c \in Configurations, configureStreams(c) PROVE InflightAccounted'
  <2>1. hal'.buffers = hal.buffers /\ hal'.metadata = hal.metadata
    BY <1>8, Zenon DEF configureStreams, configurationChanged, configurationTaken, configurationFailed,
                Fields
  <2> QED BY <1>8, <2>1, AccountedQuiet DEF configureStreams
<1>9. CASE close
  BY <1>9 DEF close, InflightAccounted
<1>10. CASE metadataResult
  <2>1. UNCHANGED <<mInflightBuffers, request, frameNumber, leftover, mClosed>>
    BY <1>10 DEF metadataResult
  <2>2. PICK f \in DOMAIN hal.metadata, boost \in BOOLEAN :
          LET m == hal.metadata[f]
              final == m.partial + 1 = NumPartialResults
          IN /\ hal' = [hal EXCEPT !.metadata = IF final THEN Without(@, f)
                           ELSE [@ EXCEPT ![f] = [m EXCEPT !.partial = @ + 1, !.boost = @ \/ boost]]]
             /\ mInflightRawBoostPresent' =
                  IF ~ device.derivePostRawSensKey THEN mInflightRawBoostPresent
                  ELSE IF final THEN Without(mInflightRawBoostPresent, f)
                  ELSE Extended(mInflightRawBoostPresent, f, BoostPresent(f, boost))
             /\ mInflightAETriggerOverrides' = IF final THEN mInflightAETriggerOverrides \ {f}
                                               ELSE mInflightAETriggerOverrides
    BY <1>10, ZenonT(60) DEF metadataResult
  <2>3. hal'.buffers = hal.buffers
    <3>1. \A x : [hal EXCEPT !.metadata = x].buffers = hal.buffers
      BY DEF Fields
    <3> QED BY <2>2, <3>1, Zenon
  <2>4. CASE hal.metadata[f].partial + 1 = NumPartialResults
    <3>1. hal'.metadata = Without(hal.metadata, f)
      BY <2>2, <2>4 DEF Fields
    <3>2. /\ DOMAIN hal'.metadata = DOMAIN hal.metadata \ {f}
          /\ DOMAIN Without(mInflightRawBoostPresent, f) = DOMAIN mInflightRawBoostPresent \ {f}
      BY <3>1, WithoutDomain
    <3>3. DOMAIN mInflightRawBoostPresent' = DOMAIN mInflightRawBoostPresent \ {f}
      BY <2>2, <2>4, <3>2 DEF Overrides
    <3> QED BY <2>1, <2>2, <2>3, <2>4, <3>2, <3>3 DEF InflightAccounted
  <2>5. CASE hal.metadata[f].partial + 1 # NumPartialResults
    <3>1. DOMAIN hal'.metadata = DOMAIN hal.metadata
      BY <2>2, <2>5 DEF Fields
    <3>2. DOMAIN Extended(mInflightRawBoostPresent, f, BoostPresent(f, boost)) =
            DOMAIN mInflightRawBoostPresent \cup {f}
      BY ExtendedDomain, Zenon
    <3> QED BY <2>1, <2>2, <2>3, <2>5, <3>1, <3>2 DEF InflightAccounted
  <2> QED BY <2>4, <2>5
<1>11. CASE bufferResult
  <2>1. PICK b \in hal.buffers :
          /\ UNCHANGED <<request, frameNumber, leftover, mClosed, mInflightAETriggerOverrides,
                         mInflightRawBoostPresent>>
          /\ hal'.buffers = hal.buffers \ {b} /\ hal'.metadata = hal.metadata
          /\ mInflightBuffers' = mInflightBuffers \ {b}
    BY <1>11 DEF bufferResult, Fields
  <2>2. b \notin leftover.buffers
    BY DEF Numbered
  <2>3. request.at = "send" => b # <<request.stream, frameNumber>>
    <3>1. <<request.stream, frameNumber>>[2] = frameNumber /\ frameNumber \in Nat
      BY DEF Fields
    <3> QED BY <3>1 DEF Numbered, Processing
  <2> QED BY <2>1, <2>2, <2>3 DEF InflightAccounted
<1>12. CASE errorNotified
  <2>1. PICK f \in DOMAIN hal.metadata :
          /\ UNCHANGED <<mInflightBuffers, request, frameNumber, leftover, mClosed>>
          /\ hal'.buffers = hal.buffers
          /\ DOMAIN hal'.metadata = DOMAIN hal.metadata \ {f}
          /\ mInflightAETriggerOverrides' = mInflightAETriggerOverrides \ {f}
          /\ DOMAIN mInflightRawBoostPresent' = DOMAIN mInflightRawBoostPresent \ {f}
    <3>1. PICK f \in DOMAIN hal.metadata :
            /\ hal' = [hal EXCEPT !.metadata = Without(hal.metadata, f)]
            /\ mInflightAETriggerOverrides' = mInflightAETriggerOverrides \ {f}
            /\ mInflightRawBoostPresent' = Without(mInflightRawBoostPresent, f)
      BY <1>12 DEF errorNotified
    <3>2. UNCHANGED <<mInflightBuffers, request, frameNumber, leftover, mClosed>>
      BY <1>12 DEF errorNotified
    <3>3. hal'.buffers = hal.buffers /\ hal'.metadata = Without(hal.metadata, f)
      BY <3>1 DEF Fields
    <3>4. /\ DOMAIN hal'.metadata = DOMAIN hal.metadata \ {f}
          /\ DOMAIN mInflightRawBoostPresent' = DOMAIN mInflightRawBoostPresent \ {f}
      BY <3>1, <3>3, WithoutDomain
    <3> QED BY <3>1, <3>2, <3>3, <3>4
  <2> QED BY <2>1 DEF InflightAccounted
<1>13. CASE UNCHANGED sessionVars
  BY <1>13, AccountedQuiet DEF sessionVars, inflightState
<1> QED
  BY <1>1, <1>2, <1>3, <1>4, <1>5, <1>6, <1>7, <1>8, <1>9, <1>10, <1>11, <1>12, <1>13
  DEF SessionNext, SessionStep

\* The invariant holds in every reachable state, with any interleaving of the binder
\* threads and the HAL's callbacks.
LEMMA Invariance == SessionSpec => []IInv
<1>1. IInv /\ [SessionNext]_sessionVars => IInv'
  BY StepKeepsFields, StepKeepsCaches, StepKeepsNumbered, StepKeepsOverrides,
     StepKeepsAccounted DEF IInv
<1> QED BY InitHasIInv, <1>1, PTL DEF SessionSpec

\* cleanupBuffersLocked finds the cache of every stream it deletes, however the
\* configurations before succeeded, failed or were refused.
THEOREM CachesAlwaysMatch == SessionSpec => []CachesMatchStreams
<1>1. IInv => CachesMatchStreams
  BY DEF IInv, Caches, CachesMatchStreams
<1> QED BY Invariance, <1>1, PTL

\* What configureStreams reads from the in-flight records is what the HAL holds, the
\* request on its way, and what requests with refused physical settings left behind.
THEOREM InflightAlwaysAccounted == SessionSpec => []InflightAccounted
<1>1. IInv => InflightAccounted
  BY DEF IInv
<1> QED BY Invariance, <1>1, PTL
=============================================================================
