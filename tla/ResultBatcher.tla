--------------------------- MODULE ResultBatcher ---------------------------
(***************************************************************************)
(* CameraDeviceSession::ResultBatcher: the capture requests of one         *)
(* high-speed burst form a batch, and the results the camera HAL returns   *)
(* for it are queued and sent up together when the last frame's arrives.   *)
(*                                                                         *)
(* Four threads meet here.  The binder thread sends the requests of a      *)
(* burst one by one and registers the batch after the last; the HAL        *)
(* answers on a thread of its own for each kind of answer.  Each answer    *)
(* is looked up (getBatch, under mLock), applied (under the batch's own    *)
(* lock) and followed by checkAndRemoveFirstBatch (mLock again), and the   *)
(* other threads may move between the three.                               *)
(*                                                                         *)
(* A frame's metadata is one final result.  "video" is the stream that is  *)
(* batched; a "preview" buffer, of a stream that is not, comes in the      *)
(* same result and goes up at once.                                        *)
(***************************************************************************)
EXTENDS Integers, SequencesExt

CONSTANTS NumBatches,   \* bursts submitted
          BatchSize,    \* requests per burst
          MaxFaults     \* requests the HAL refuses, errors it reports and calls
                        \* that find mProcessCaptureResultLock held for 1 s

Kinds == {"shutter", "metadata", "video"}
Channels == Kinds \cup {"preview"}
Batches == 1 .. NumBatches
Frames == 1 .. NumBatches * BatchSize
mFirstFrame(b) == (b - 1) * BatchSize + 1
mLastFrame(b) == b * BatchSize
BatchOf(f) == (f - 1) \div BatchSize + 1

VARIABLES
  sent,              \* frames the HAL has been asked for
  registered,        \* bursts submitted to the end, registered or given up
  refused,           \* frames the HAL was never asked for
  mInflightBatches,  \* batches in flight, oldest first
  batch,             \* batch |-> the InflightBatch
  halCall,           \* kind |-> the HAL's call on that thread
  done,              \* kind |-> frames answered so far
  up,                \* channel |-> [frame, as] sent to the framework, in order
  faults,            \* how many, for the bound
  early,             \* an answer overtook the registration of its batch
  beyond,            \* an error stopped a batch after its own, or found none left
  stale,             \* a batch left the queue under a pending error
  lost,              \* results dropped after waiting 1 s
  batcherDown        \* the process died

batcherVars == <<sent, registered, refused, mInflightBatches, batch, halCall, done, up,
                 faults, early, beyond, stale, lost, batcherDown>>

NewBatch == [mShutterMsgs |-> <<>>, mShutterDelivered |-> FALSE,
             mMds |-> <<>>, mMdsDelivered |-> FALSE,
             mBuffers |-> <<>>, mDelivered |-> FALSE, mRemoved |-> FALSE]

Returned == [at |-> "returned", frame |-> 0, batch |-> 0, index |-> 0]

BatcherInit ==
  /\ sent = 0 /\ registered = 0 /\ refused = {}
  /\ mInflightBatches = <<>>
  /\ batch = [b \in Batches |-> NewBatch]
  /\ halCall = [k \in Kinds |-> Returned]
  /\ done = [k \in Kinds |-> 0]
  /\ up = [c \in Channels |-> <<>>]
  /\ faults = 0
  /\ early = FALSE /\ beyond = FALSE /\ stale = FALSE /\ lost = {}
  /\ batcherDown = FALSE

----------------------------------------------------------------------------
(* The binder thread.                                                      *)

\* processCaptureRequest: the next request of the burst goes to the HAL.
sendRequest ==
  /\ registered < NumBatches /\ sent < mLastFrame(registered + 1)
  /\ sent' = sent + 1
  /\ UNCHANGED <<registered, refused, mInflightBatches, batch, halCall, done, up,
                 faults, early, beyond, stale, lost, batcherDown>>

\* The HAL refuses it: the rest of the burst is not sent and what was sent
\* is not batched.
refuseRequest ==
  /\ registered < NumBatches /\ sent < mLastFrame(registered + 1) /\ faults < MaxFaults
  /\ faults' = faults + 1
  /\ registered' = registered + 1
  /\ refused' = refused \cup (sent + 1 .. mLastFrame(registered'))
  /\ sent' = mLastFrame(registered')
  /\ UNCHANGED <<mInflightBatches, batch, halCall, done, up, early, beyond,
                 stale, lost, batcherDown>>

\* registerBatch, after the last request of the burst was sent.
registerBatch ==
  /\ registered < NumBatches
  /\ sent = mLastFrame(registered + 1)
  /\ registered' = registered + 1
  /\ mInflightBatches' = Append(mInflightBatches, registered')
  /\ early' = (early \/ \E k \in Kinds : \/ done[k] >= mFirstFrame(registered')
                                         \/ halCall[k].frame >= mFirstFrame(registered'))
  /\ UNCHANGED <<sent, refused, batch, halCall, done, up, faults, beyond,
                 stale, lost, batcherDown>>

----------------------------------------------------------------------------
(* What goes up to the framework.  A batch's shutters and metadata carry   *)
(* their own frame numbers; its buffers are numbered from mFirstFrame.     *)

Own(frames) == [i \in 1 .. Len(frames) |-> [frame |-> frames[i], as |-> frames[i]]]

Counted(b, frames) ==
  [i \in 1 .. Len(frames) |-> [frame |-> frames[i], as |-> mFirstFrame(b) + i - 1]]

\* sendBatchShutterCbsLocked, sendBatchMetadataLocked, sendBatchBuffersLocked:
\* nothing is sent twice.
BatchMessages(b, k) ==
  CASE k = "shutter" /\ ~ batch[b].mShutterDelivered -> Own(batch[b].mShutterMsgs)
    [] k = "metadata" /\ ~ batch[b].mMdsDelivered -> Own(batch[b].mMds)
    [] k = "video" /\ ~ batch[b].mDelivered -> Counted(b, batch[b].mBuffers)
    [] OTHER -> <<>>

SentUp(record, k) ==
  CASE k = "shutter" -> [record EXCEPT !.mShutterMsgs = <<>>, !.mShutterDelivered = TRUE]
    [] k = "metadata" -> [record EXCEPT !.mMds = <<>>, !.mMdsDelivered = TRUE]
    [] k = "video" -> [record EXCEPT !.mBuffers = <<>>, !.mDelivered = TRUE]

\* Mutation of Queued: a buffer is put in front of the earlier ones.
QueuedInFront(record, k, f) ==
  CASE k = "shutter" -> [record EXCEPT !.mShutterMsgs = Append(@, f)]
    [] k = "metadata" -> [record EXCEPT !.mMds = Append(@, f)]
    [] k = "video" -> [record EXCEPT !.mBuffers = <<f>> \o @]

Queued(record, k, f) ==
  CASE k = "shutter" -> [record EXCEPT !.mShutterMsgs = Append(@, f)]
    [] k = "metadata" -> [record EXCEPT !.mMds = Append(@, f)]
    [] k = "video" -> [record EXCEPT !.mBuffers = Append(@, f)]

\* Mutation of allDelivered: the buffers of the streams are not asked.
AllButBuffers(record) == record.mShutterDelivered /\ record.mMdsDelivered

allDelivered(record) ==
  record.mShutterDelivered /\ record.mMdsDelivered /\ record.mDelivered

\* invokeProcessCaptureResultCallback gives the results up when another call
\* holds mProcessCaptureResultLock for a second; that one is sending a batch
\* whose lock it holds too.
TimesOut(k, locked) ==
  /\ faults < MaxFaults
  /\ \E other \in Kinds \ {k, "shutter"} :
       /\ halCall[other].at = "apply" /\ halCall[other].batch \notin locked
       /\ halCall[other].frame = mLastFrame(halCall[other].batch)

----------------------------------------------------------------------------
(* The HAL's threads: notify (shutters and errors) and                     *)
(* processCaptureResult (metadata and buffers).                            *)

Indexes(f) == {i \in DOMAIN mInflightBatches : mInflightBatches[i] = BatchOf(f)}

\* Frames the HAL owes an answer of this kind, on whose thread they come in
\* frame order.
Owed(k) == {f \in Frames : done[k] < f /\ f <= sent} \ refused

Return(k, f) ==
  /\ halCall' = [halCall EXCEPT ![k] = Returned]
  /\ done' = [done EXCEPT ![k] = f]

\* notifySingleMsg, processOneCaptureResult: an answer sent up alone.  A
\* result with a video buffer has the preview's with it.
Alone(k, f, locked) ==
  LET carried == IF k = "video" THEN {"video", "preview"} ELSE {k}
      one == [frame |-> f, as |-> f]
  IN \/ /\ up' = [c \in Channels |-> IF c \in carried THEN Append(up[c], one) ELSE up[c]]
        /\ UNCHANGED <<faults, lost>>
     \/ /\ k # "shutter" /\ TimesOut(k, locked)
        /\ faults' = faults + 1
        /\ lost' = lost \cup [kind : carried, frame : {f}]
        /\ UNCHANGED up

\* getBatch under mLock finds no batch: the answer goes up alone.
single(k) ==
  /\ halCall[k].at = "returned" /\ Owed(k) # {}
  /\ LET f == Min(Owed(k))
     IN Indexes(f) = {} /\ Alone(k, f, {}) /\ Return(k, f)
  /\ UNCHANGED <<sent, registered, refused, mInflightBatches, batch, early, beyond,
                 stale, batcherDown>>

\* getBatch finds the frame's batch and its index in the queue; the answer is
\* a result or, in the metadata's place, an error.
getBatch(k) ==
  /\ halCall[k].at = "returned" /\ Owed(k) # {}
  /\ LET f == Min(Owed(k))
     IN \E i \in Indexes(f), error \in BOOLEAN :
          /\ error => k = "metadata" /\ faults < MaxFaults
          /\ halCall' = [halCall EXCEPT ![k] = [at |-> IF error THEN "stop" ELSE "apply",
                                          frame |-> f, batch |-> BatchOf(f), index |-> i]]
          /\ faults' = IF error THEN faults + 1 ELSE faults
  /\ UNCHANGED <<sent, registered, refused, mInflightBatches, batch, done, up,
                 early, beyond, stale, lost, batcherDown>>

\* The batch left the queue before its lock was taken.
Removed(b) == batch[b].mRemoved

\* The batch was removed while the call waited for its lock.
applyRemoved(k) ==
  /\ halCall[k].at = "apply" /\ Removed(halCall[k].batch)
  /\ Alone(k, halCall[k].frame, {halCall[k].batch})
  /\ Return(k, halCall[k].frame)
  /\ UNCHANGED <<sent, registered, refused, mInflightBatches, batch, early, beyond,
                 stale, batcherDown>>

\* The answer is queued, a preview buffer goes up at once, and the last
\* frame's answer sends up what the batch holds of its kind.
apply(k) ==
  LET c == halCall[k]
      b == c.batch
      queued == Queued(batch[b], k, c.frame)
      last == c.frame = mLastFrame(b)
      messages == IF k = "video" THEN Counted(b, queued.mBuffers)
                  ELSE IF k = "shutter" THEN Own(queued.mShutterMsgs) ELSE Own(queued.mMds)
      preview == IF k = "video" THEN [up EXCEPT !["preview"] =
                                        Append(@, [frame |-> c.frame, as |-> c.frame])]
                 ELSE up
  IN /\ c.at = "apply" /\ ~ Removed(b)
     /\ batch' = [batch EXCEPT ![b] = IF last THEN SentUp(queued, k) ELSE queued]
     /\ \/ /\ up' = IF last THEN [preview EXCEPT ![k] = @ \o messages] ELSE preview
           /\ UNCHANGED <<faults, lost>>
        \/ /\ last /\ k # "shutter" /\ TimesOut(k, {b})
           /\ faults' = faults + 1
           /\ lost' = lost \cup [kind : {k}, frame : {messages[i].frame : i \in DOMAIN messages}]
           /\ up' = preview
     /\ IF last THEN /\ halCall' = [halCall EXCEPT ![k].at = "check"]
                     /\ UNCHANGED done
                ELSE Return(k, halCall[k].frame)
     /\ UNCHANGED <<sent, registered, refused, mInflightBatches, early, beyond,
                    stale, batcherDown>>

\* Calls that looked a batch's index up and have yet to use it.
Outdated == \E k \in Kinds : halCall[k].at = "stop"

checkAndRemoveFirstBatch(k) ==
  LET removes == /\ mInflightBatches # <<>>
                 /\ allDelivered(batch[Head(mInflightBatches)])
  IN /\ halCall[k].at = "check"
     /\ mInflightBatches' = IF removes THEN Tail(mInflightBatches) ELSE mInflightBatches
     /\ batch' = IF removes THEN [batch EXCEPT ![Head(mInflightBatches)].mRemoved = TRUE]
                 ELSE batch
     /\ stale' = (stale \/ (removes /\ Outdated))
     /\ Return(k, halCall[k].frame)
     /\ UNCHANGED <<sent, registered, refused, up, faults, early, beyond, lost,
                    batcherDown>>

\* The number of batches notify(error) stops: the index looked up before
\* mLock was taken, and the ones before it.
Stopped(k) == halCall[k].index

\* notify(error) with mLock held: the batches up to the error's are sent up
\* as they are and removed, then the error goes up.  The queue may hold fewer
\* by now; the front of an empty deque is no batch, and the process dies.
stop(k) ==
  LET n == Stopped(k)
      taken == SubSeq(mInflightBatches, 1, IF n < Len(mInflightBatches) THEN n
                                           ELSE Len(mInflightBatches))
      Gone == IF TimesOut(k, ToSet(taken)) THEN ToSet(taken) \X {"video", "metadata"} ELSE {}
      Flushed(c, gone) == FlattenSeq([i \in DOMAIN taken |->
                            IF <<taken[i], c>> \in gone THEN <<>> ELSE BatchMessages(taken[i], c)])
  IN /\ halCall[k].at = "stop"
     /\ \E gone \in {{}} \cup {{g} : g \in Gone} :
          /\ up' = [c \in Channels |-> IF c = "preview" THEN up[c] ELSE up[c] \o Flushed(c, gone)]
          /\ lost' = lost \cup UNION {{[kind |-> g[2], frame |-> m.frame] :
                                       m \in ToSet(BatchMessages(g[1], g[2]))} : g \in gone}
          /\ faults' = IF gone = {} THEN faults ELSE faults + 1
     /\ batch' = [b \in Batches |->
                    IF b \in ToSet(taken)
                      THEN [SentUp(SentUp(SentUp(batch[b], "shutter"), "video"), "metadata")
                              EXCEPT !.mRemoved = TRUE]
                      ELSE batch[b]]
     /\ mInflightBatches' = SubSeq(mInflightBatches, Len(taken) + 1, Len(mInflightBatches))
     /\ beyond' = (\/ beyond \/ n > Len(taken)
                   \/ \E i \in DOMAIN taken : mFirstFrame(taken[i]) > halCall[k].frame)
     /\ batcherDown' = (n > Len(taken))
     /\ Return(k, halCall[k].frame)
     /\ UNCHANGED <<sent, registered, refused, early, stale>>

----------------------------------------------------------------------------
Answering(k) ==
  ~ batcherDown /\ ( \/ getBatch(k) \/ single(k) \/ applyRemoved(k) \/ apply(k)
                     \/ checkAndRemoveFirstBatch(k) \/ stop(k) )

Submitting == ~ batcherDown /\ (sendRequest \/ refuseRequest \/ registerBatch)

BatcherNext == Submitting \/ \E k \in Kinds : Answering(k)

BatcherSpec == BatcherInit /\ [][BatcherNext]_batcherVars

----------------------------------------------------------------------------
\* Results of each kind reach the framework in frame order and at most once,
\* whatever the three callback threads, the registration and the errors do.
SentUpInOrder ==
  \A c \in Channels : \A i, j \in DOMAIN up[c] : i < j => up[c][i].frame < up[c][j].frame

\* A buffer reaches the framework under its own frame number, although a
\* batch keeps no number with its buffers, unless an answer overtook
\* registerBatch.
OwnFrameNumber ==
  ~ early => \A c \in Channels : \A i \in DOMAIN up[c] : up[c][i].as = up[c][i].frame

\* An error ends the batching of its own batch and the earlier ones, no
\* other, and finds them all in the queue, unless a batch was removed
\* between the error's look-up of its index and its use of it.
OnlyEarlierStopped == beyond => stale

\* What goes up is in order, under its own frame number and batched until an error
\* concerns it.
SentUpFaithfully == SentUpInOrder /\ OwnFrameNumber /\ OnlyEarlierStopped

\* Every burst has been submitted and every answer has been handled.
Answered ==
  registered = NumBatches /\ \A k \in Kinds : halCall[k].at = "returned" /\ Owed(k) = {}

\* When the HAL has answered every request, every shutter and buffer has gone up:
\* none waits for ever in a batch that was removed or that no answer completes.
\* Only results given up after a second's wait for the lock are missing.
EverythingSentUp ==
  Answered /\ ~ batcherDown =>
    \A c \in Channels \ {"metadata"} : \A f \in Frames \ refused :
      \/ \E i \in DOMAIN up[c] : up[c][i].frame = f
      \/ [kind |-> c, frame |-> f] \in lost

\* By then the queue of batches is empty, unless an answer overtook
\* registerBatch: then its batch may stay for ever.
QueueDrains == Answered /\ ~ batcherDown /\ ~ early => mInflightBatches = <<>>

\* When all is answered nothing is left behind, neither a result nor a batch.
NothingLeftBehind == EverythingSentUp /\ QueueDrains
=============================================================================
