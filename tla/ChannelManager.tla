--------------------------- MODULE ChannelManager ---------------------------
(***************************************************************************)
(* The message channels of ADPF sessions (ChannelManager.cpp,              *)
(* ChannelGroup.cpp, SessionChannel.cpp in power-libperfmgr/aidl).         *)
(*                                                                         *)
(* A client (tgid, uid) has one channel, a queue in shared memory.  Up to  *)
(* kMaxChannels channels form a group with one event flag and one thread   *)
(* that reads them.  The manager's calls hold mChannelManagerMutex; they   *)
(* come from the binder thread.  A group's thread holds mGroupMutex from   *)
(* the moment it has seen the flag until all of its messages are handled.  *)
(*                                                                         *)
(* The queue and the event flag (fmq) are external: write appends, read    *)
(* takes what availableToRead counted, wake sets bits and wait takes them. *)
(***************************************************************************)
EXTENDS Integers, SequencesExt

CONSTANTS Keys,          \* clients
          Uid,           \* uid of each client
          BadKeys,       \* clients whose queue may be unreadable
          kMaxChannels,
          Sids, LiveSids,  \* session ids, and those getSession finds
          MaxChannels,   \* bound on the channels ever made
          MaxMessages    \* bound on the messages a channel gets

ASSUME ChannelsAssumption ==
    /\ kMaxChannels \in Nat \ {0}
    /\ BadKeys \subseteq Keys
    /\ LiveSids \subseteq Sids
    /\ MaxChannels \in Nat /\ MaxMessages \in Nat

Slots == 0..kMaxChannels - 1

Messages == [sid : Sids, tag : {"hint", "workDuration"}]

VARIABLES mChannelGroups,  \* id -> [flags, bits, mChannels, mLiveChannels, mDestructing, thread]
          mChannelMap,     \* client -> [groupId, offset]
          blocklist,       \* uids, shared by all group threads
          chan,            \* every channel made: [key, groupId, offset, flags, queue]
          sent, handled,   \* messages written to and handled from each channel
          client,          \* [ch, due]: channel a client has, and whether it owes a wake
          closing,         \* progress of a closeChannel that destroys a group
          fatal            \* LOG_ALWAYS_FATAL was met

vars == <<mChannelGroups, mChannelMap, blocklist, chan, sent, handled, client, closing, fatal>>

\* A channel is named by its number; 0 is no channel.  The event flag of a group is
\* named by the first channel of the group: a later group with the same id has
\* another flag.
NoChannel == 0

Thread(at) == [at |-> at, flagState |-> {}, ch |-> NoChannel, messages |-> <<>>]

NotClosing == [at |-> "no", groupId |-> 0]

Init ==
    /\ mChannelGroups = [g \in {} |-> 0]
    /\ mChannelMap = [k \in {} |-> 0]
    /\ blocklist = {}
    /\ chan = <<>>
    /\ sent = <<>>
    /\ handled = <<>>
    /\ client = [k \in Keys |-> [ch |-> NoChannel, due |-> FALSE]]
    /\ closing = NotClosing
    /\ fatal = FALSE

\* Nobody holds the mutex of group g.
GroupMutexFree(g) == mChannelGroups[g].thread.at \notin {"scan", "messages"}

Reset(f, x, e) == [y \in DOMAIN f \cup {x} |-> IF y = x THEN e ELSE f[y]]

Erase(f, x) == [y \in DOMAIN f \ {x} |-> f[y]]
-----------------------------------------------------------------------------
\* Calls of the manager.

RoomIn(g) == mChannelGroups[g].mLiveChannels < kMaxChannels

\* The group for a new channel: the first with room, else a new one.
GroupForNew ==
    LET ids == DOMAIN mChannelGroups
    IN  IF \E g \in ids : RoomIn(g) THEN Min({g \in ids : RoomIn(g)})
        ELSE IF ids = {} THEN 0 ELSE Max(ids) + 1

NewGroup(flags) ==
    [flags |-> flags, bits |-> {}, mChannels |-> [o \in Slots |-> NoChannel],
     mLiveChannels |-> 0, mDestructing |-> FALSE, thread |-> Thread("loop")]

\* createChannel puts the channel into the first empty slot.
createChannel(k) ==
    LET g == GroupForNew
        ch == Len(chan) + 1
        group == IF g \in DOMAIN mChannelGroups THEN mChannelGroups[g] ELSE NewGroup(ch)
        free == {o \in Slots : group.mChannels[o] = NoChannel}
        o == Min(free)
    IN  /\ ch =< MaxChannels
        /\ g \in DOMAIN mChannelGroups => GroupMutexFree(g)
        /\ IF free = {}
           THEN /\ fatal' = TRUE
                /\ UNCHANGED <<mChannelGroups, mChannelMap, chan, sent, handled, client>>
           ELSE /\ mChannelGroups' = Reset(mChannelGroups, g,
                      [group EXCEPT !.mChannels[o] = ch, !.mLiveChannels = @ + 1])
                /\ mChannelMap' = Reset(mChannelMap, k, [groupId |-> g, offset |-> o])
                /\ chan' = Append(chan, [key |-> k, groupId |-> g, offset |-> o,
                                         flags |-> group.flags, queue |-> <<>>])
                /\ sent' = Append(sent, <<>>)
                /\ handled' = Append(handled, <<>>)
                /\ client' = [client EXCEPT ![k] = [ch |-> ch, due |-> FALSE]]
                /\ UNCHANGED fatal

\* getOrCreateChannel; getChannel insists on a live channel.
getChannelConfig(k) ==
    /\ closing.at = "no"
    /\ \/ /\ k \in DOMAIN mChannelMap
          /\ GroupMutexFree(mChannelMap[k].groupId)
          /\ LET ch == mChannelGroups[mChannelMap[k].groupId].mChannels[mChannelMap[k].offset]
             IN  /\ fatal' = (ch = NoChannel)
                 /\ client' = [client EXCEPT ![k].ch = ch]
          /\ UNCHANGED <<mChannelGroups, mChannelMap, chan, sent, handled>>
       \/ /\ k \notin DOMAIN mChannelMap
          /\ createChannel(k)
    /\ UNCHANGED <<blocklist, closing>>

\* Mutation of closeChannel: mLiveChannels is not decremented.
CloseKeepsCount(k) ==
    LET g == mChannelMap[k].groupId
        o == mChannelMap[k].offset
    IN  /\ closing.at = "no"
        /\ k \in DOMAIN mChannelMap
        /\ GroupMutexFree(g)
        /\ mChannelGroups' = [mChannelGroups EXCEPT ![g].mChannels[o] = NoChannel]
        /\ mChannelMap' = Erase(mChannelMap, k)
        /\ UNCHANGED <<blocklist, chan, sent, handled, client, closing, fatal>>

\* removeChannel, and the removal of a group that is left without channels.  The
\* map entry goes at the very end of the call; nobody can look it up before, so
\* it goes here.
closeChannel(k) ==
    LET g == mChannelMap[k].groupId
        o == mChannelMap[k].offset
        live == mChannelGroups[g].mLiveChannels - 1
    IN  /\ closing.at = "no"
        /\ k \in DOMAIN mChannelMap
        /\ GroupMutexFree(g)
        /\ mChannelGroups[g].mChannels[o] # NoChannel
        /\ mChannelGroups' = [mChannelGroups EXCEPT ![g].mChannels[o] = NoChannel,
                                                    ![g].mLiveChannels = live]
        /\ mChannelMap' = Erase(mChannelMap, k)
        /\ closing' = IF live = 0 THEN [at |-> "destruct", groupId |-> g] ELSE NotClosing
        /\ UNCHANGED <<blocklist, chan, sent, handled, client, fatal>>

\* ~ChannelGroup: the thread is told to stop, woken, and joined.
Destruct ==
    /\ closing.at = "destruct"
    /\ mChannelGroups' = [mChannelGroups EXCEPT ![closing.groupId].mDestructing = TRUE]
    /\ closing' = [closing EXCEPT !.at = "wake"]
    /\ UNCHANGED <<mChannelMap, blocklist, chan, sent, handled, client, fatal>>

\* Mutation of WakeHandler: no bit is set.
NoWake ==
    /\ closing.at = "wake"
    /\ closing' = [closing EXCEPT !.at = "join"]
    /\ UNCHANGED <<mChannelGroups, mChannelMap, blocklist, chan, sent, handled, client, fatal>>

WakeHandler ==
    /\ closing.at = "wake"
    /\ mChannelGroups' = [mChannelGroups EXCEPT ![closing.groupId].bits = Slots]
    /\ closing' = [closing EXCEPT !.at = "join"]
    /\ UNCHANGED <<mChannelMap, blocklist, chan, sent, handled, client, fatal>>

Join ==
    /\ closing.at = "join"
    /\ mChannelGroups[closing.groupId].thread.at = "exit"
    /\ mChannelGroups' = Erase(mChannelGroups, closing.groupId)
    /\ closing' = NotClosing
    /\ UNCHANGED <<mChannelMap, blocklist, chan, sent, handled, client, fatal>>
-----------------------------------------------------------------------------
\* runChannelGroup, the thread of group g.

GoOn(g, thread) == mChannelGroups' = [mChannelGroups EXCEPT ![g].thread = thread]

Loop(g) ==
    /\ mChannelGroups[g].thread.at = "loop"
    /\ GoOn(g, Thread(IF mChannelGroups[g].mDestructing THEN "exit" ELSE "wait"))
    /\ UNCHANGED <<mChannelMap, blocklist, chan, sent, handled, client, closing, fatal>>

Wait(g) ==
    /\ mChannelGroups[g].thread.at = "wait"
    /\ mChannelGroups[g].bits # {}
    /\ mChannelGroups' = [mChannelGroups EXCEPT ![g].bits = {},
          ![g].thread = [Thread("woken") EXCEPT !.flagState = mChannelGroups[g].bits]]
    /\ UNCHANGED <<mChannelMap, blocklist, chan, sent, handled, client, closing, fatal>>

Woken(g) ==
    /\ mChannelGroups[g].thread.at = "woken"
    /\ GoOn(g, IF mChannelGroups[g].mDestructing THEN Thread("exit")
               ELSE [mChannelGroups[g].thread EXCEPT !.at = "lock"])
    /\ UNCHANGED <<mChannelMap, blocklist, chan, sent, handled, client, closing, fatal>>

\* The mutex is taken: the group may have begun to be destructed meanwhile.
Lock(g) ==
    /\ mChannelGroups[g].thread.at = "lock"
    /\ GoOn(g, [mChannelGroups[g].thread EXCEPT !.at = "scan"])
    /\ UNCHANGED <<mChannelMap, blocklist, chan, sent, handled, client, closing, fatal>>

\* The channel of the lowest bit, if it can be read.
Readable(ch) ==
    /\ ch # NoChannel
    /\ Uid[chan[ch].key] \notin blocklist
    /\ chan[ch].queue # <<>>

\* Mutation of ScanDone: bits set meanwhile are cleared.
ScanDoneClears(g) ==
    /\ mChannelGroups[g].thread.at = "scan"
    /\ mChannelGroups[g].thread.flagState = {} \/ mChannelGroups[g].mDestructing
    /\ mChannelGroups' = [mChannelGroups EXCEPT ![g].thread = Thread("loop"), ![g].bits = {}]
    /\ UNCHANGED <<mChannelMap, blocklist, chan, sent, handled, client, closing, fatal>>

ScanDone(g) ==
    /\ mChannelGroups[g].thread.at = "scan"
    /\ mChannelGroups[g].thread.flagState = {} \/ mChannelGroups[g].mDestructing
    /\ GoOn(g, Thread("loop"))
    /\ UNCHANGED <<mChannelMap, blocklist, chan, sent, handled, client, closing, fatal>>

\* The next channel whose bit is set: it is passed over, cannot be read and is
\* blocked, or all of its messages are read at once.
Scan(g) ==
    LET th == mChannelGroups[g].thread
        o == Min(th.flagState)
        ch == mChannelGroups[g].mChannels[o]
        next == [th EXCEPT !.flagState = @ \ {o}]
    IN  /\ th.at = "scan"
        /\ th.flagState # {} /\ ~mChannelGroups[g].mDestructing
        /\ \/ /\ ~Readable(ch)
              /\ GoOn(g, next)
              /\ UNCHANGED <<chan, blocklist>>
           \/ /\ Readable(ch) /\ chan[ch].key \in BadKeys
              /\ blocklist' = blocklist \cup {Uid[chan[ch].key]}
              /\ GoOn(g, next)
              /\ UNCHANGED chan
           \/ /\ Readable(ch)
              /\ GoOn(g, [next EXCEPT !.at = "messages", !.ch = ch,
                                      !.messages = chan[ch].queue])
              /\ chan' = [chan EXCEPT ![ch].queue = <<>>]
              /\ UNCHANGED blocklist
        /\ UNCHANGED <<mChannelMap, sent, handled, client, closing, fatal>>

\* Mutation of BatchLength: the session ids are not compared.
BatchOfAnySession(ms) ==
    Max({n \in 1..Len(ms) : \A i \in 1..n : ms[i].tag = "workDuration"})

\* How many messages are reported at once: the work durations of one session that
\* follow each other.
BatchLength(ms) ==
    Max({n \in 1..Len(ms) :
            \A i \in 1..n : ms[i].tag = "workDuration" /\ ms[i].sid = ms[1].sid})

\* How many messages one turn of the loop deals with.
Consumed(ms) ==
    IF ms[1].sid \in LiveSids /\ ms[1].tag = "workDuration" THEN BatchLength(ms) ELSE 1

\* One turn of the loop over the messages; to is the session that gets them, which
\* is the one the first of them names, if it is still there.
Handle(g) ==
    LET th == mChannelGroups[g].thread
        n == Consumed(th.messages)
        batch == SubSeq(th.messages, 1, n)
    IN  /\ th.at = "messages"
        /\ \/ /\ th.messages = <<>>
              /\ GoOn(g, [th EXCEPT !.at = "scan", !.ch = NoChannel])
              /\ UNCHANGED handled
           \/ /\ th.messages # <<>>
              /\ handled' = [handled EXCEPT ![th.ch] = @ \o
                    [i \in DOMAIN batch |-> [message |-> batch[i], to |-> th.messages[1].sid]]]
              /\ GoOn(g, [th EXCEPT !.messages = SubSeq(@, n + 1, Len(@))])
        /\ UNCHANGED <<mChannelMap, blocklist, chan, sent, client, closing, fatal>>

GroupThread(g) == Loop(g) \/ Wait(g) \/ Woken(g) \/ Lock(g) \/ ScanDone(g) \/ Scan(g) \/ Handle(g)
-----------------------------------------------------------------------------
\* The client: it writes to its channel, which may be closed by now, and wakes the
\* group afterwards.
Write(k) ==
    \E m \in Messages :
        /\ client[k].ch # NoChannel
        /\ Len(sent[client[k].ch]) < MaxMessages
        /\ chan' = [chan EXCEPT ![client[k].ch].queue = Append(@, m)]
        /\ sent' = [sent EXCEPT ![client[k].ch] = Append(@, m)]
        /\ client' = [client EXCEPT ![k].due = TRUE]
        /\ UNCHANGED <<mChannelGroups, mChannelMap, blocklist, handled, closing, fatal>>

Wake(k) ==
    LET c == chan[client[k].ch]
    IN  /\ client[k].due
        /\ client' = [client EXCEPT ![k].due = FALSE]
        /\ mChannelGroups' =
              IF c.groupId \in DOMAIN mChannelGroups
                   /\ mChannelGroups[c.groupId].flags = c.flags
              THEN [mChannelGroups EXCEPT ![c.groupId].bits = @ \cup {c.offset}]
              ELSE mChannelGroups
        /\ UNCHANGED <<mChannelMap, blocklist, chan, sent, handled, closing, fatal>>
-----------------------------------------------------------------------------

Closing == Destruct \/ WakeHandler \/ Join

Next ==
    \/ \E k \in Keys : getChannelConfig(k) \/ closeChannel(k) \/ Write(k) \/ Wake(k)
    \/ Closing
    \/ \E g \in DOMAIN mChannelGroups : GroupThread(g)

\* Threads run, a call of the manager goes on, a client that has written wakes the
\* group.
Fairness ==
    /\ \A g \in 0..MaxChannels : WF_vars(g \in DOMAIN mChannelGroups /\ GroupThread(g))
    /\ WF_vars(Closing)
    /\ \A k \in Keys : WF_vars(Wake(k))

Spec == Init /\ [][Next]_vars /\ Fairness
-----------------------------------------------------------------------------
\* The type of the state.
TypeOK ==
    /\ \A g \in DOMAIN mChannelGroups :
        LET group == mChannelGroups[g]
        IN  /\ group.flags \in 1..Len(chan)
            /\ group.bits \subseteq Slots
            /\ group.mChannels \in [Slots -> 0..Len(chan)]
            /\ group.mLiveChannels \in 0..kMaxChannels
            /\ group.mDestructing \in BOOLEAN
            /\ group.thread.at \in {"loop", "wait", "woken", "lock", "scan", "messages", "exit"}
            /\ group.thread.flagState \subseteq Slots
            /\ group.thread.ch \in 0..Len(chan)
    /\ mChannelMap \in [DOMAIN mChannelMap -> [groupId : DOMAIN mChannelGroups, offset : Slots]]
    /\ Len(sent) = Len(chan) /\ Len(handled) = Len(chan)
    /\ client \in [Keys -> [ch : 0..Len(chan), due : BOOLEAN]]
    /\ closing.at \in {"no", "destruct", "wake", "join"}
    /\ fatal \in BOOLEAN

\* mChannelMap "guarantee[s] uniqueness" (ChannelManager.h): it names every occupied
\* slot of every group exactly once, under the client the channel was made for;
\* mLiveChannels counts the occupied slots, and no group stays without channels.
MapMatchesSlots ==
    /\ \A k \in DOMAIN mChannelMap :
        LET ch == mChannelGroups[mChannelMap[k].groupId].mChannels[mChannelMap[k].offset]
        IN  ch # NoChannel /\ chan[ch].key = k
    /\ \A g \in DOMAIN mChannelGroups :
        LET used == {o \in Slots : mChannelGroups[g].mChannels[o] # NoChannel}
        IN  /\ \A o \in used : \E k \in DOMAIN mChannelMap :
                   mChannelMap[k] = [groupId |-> g, offset |-> o]
            /\ mChannelGroups[g].mLiveChannels = Cardinality(used)
            /\ used = {} => closing.at # "no" /\ closing.groupId = g

\* createChannel always finds an empty slot ("Failed to create channel!") and
\* getChannel a live channel ("Requesting a dead channel!").
NeverFatal == ~fatal

\* Groups, slots and map agree after every call, so that none of them finds a slot
\* missing or dead.
SlotsSound == TypeOK /\ MapMatchesSlots /\ NeverFatal

\* The messages of channel ch that its group's thread has read and not yet handled.
Reading(ch) ==
    LET g == chan[ch].groupId
    IN  IF g \in DOMAIN mChannelGroups /\ mChannelGroups[g].thread.ch = ch
        THEN mChannelGroups[g].thread.messages ELSE <<>>

\* The messages of a channel are handled in the order they were written, each once,
\* and none is left out, whatever batches the thread reads and reports them in and
\* whenever channels are closed and their slots reused; each goes to its session.
MessagesInOrder ==
    \A ch \in DOMAIN chan :
        /\ [i \in DOMAIN handled[ch] |-> handled[ch][i].message]
                \o Reading(ch) \o chan[ch].queue = sent[ch]
        /\ \A i \in DOMAIN handled[ch] : handled[ch][i].to = handled[ch][i].message.sid

\* A group is only destructed when its thread is handling no message: closing a
\* channel throws away nothing that was read already.
NoMessageCutOff ==
    \A g \in DOMAIN mChannelGroups :
        mChannelGroups[g].mDestructing => mChannelGroups[g].thread.at # "messages"

\* No message is lost, repeated, misdirected or cut off by the end of its group.
MessagesExact == MessagesInOrder /\ NoMessageCutOff

\* closeChannel returns: joining the group's thread never waits for ever.
CloseReturns == closing.at # "no" ~> closing.at = "no"

\* A message in a channel is handled, unless the channel is closed or its client is
\* on the blocklist: no wake-up is lost between the queue and the event flag.
MessagesHandled ==
    \A ch \in 1..MaxChannels :
        (ch \in DOMAIN chan /\ chan[ch].queue # <<>>)
            ~> (ch \in DOMAIN chan =>
                  \/ chan[ch].queue = <<>>
                  \/ Uid[chan[ch].key] \in blocklist
                  \/ \A g \in DOMAIN mChannelGroups : \A o \in Slots :
                        mChannelGroups[g].mChannels[o] # ch)
=============================================================================
