--------------------------- MODULE TouchInjector ---------------------------
(***************************************************************************)
(* The slots and touches of the touch injector's clients (touchinjector/   *)
(* aidl/default: binder_service.rs, and slot_states of touch_emulator.rs). *)
(*                                                                         *)
(* A call first looks at slot_range_map under its read lock only, then     *)
(* waits for the touch emulator's mutex and does the rest under it: two    *)
(* actions, between which other calls change what the first has seen.      *)
(* What is done under the mutex is one action: a first part that runs      *)
(* meanwhile reads one entry of the map, which is the entry before or the  *)
(* one after.  A panic aborts the process, and init starts it again.       *)
(* Positions are left out: a touch is there or not.                        *)
(***************************************************************************)
EXTENDS Integers, FiniteSetsExt

CONSTANTS Clients,        \* naturals, in the order of their binder pointers
          CallThreads,    \* binder threads
          SlotCounts,     \* what getSlotCount may return
          AddSlotCount,   \* ADD_SLOT_COUNT
          MaxSlotCount    \* bound of slot_count, which overlapping calls can leak

ASSUME InjectorAssumption ==
    /\ Clients \subseteq Nat
    /\ SlotCounts \subseteq Nat
    /\ AddSlotCount \in Nat

SlotIds == 0..(Max(SlotCounts) - 1)

VARIABLES slot_count,
          slot_range_map,   \* client |-> [start, len]
          pressed,          \* pressed_position_map: client |-> slot ids with a position
          slot_states,      \* slots of the emulator that are down
          call,             \* what each thread is doing
          crashed,
          overtaken         \* history: a call acted on a registration that had changed

injectorVars ==
    <<slot_count, slot_range_map, pressed, slot_states, call, crashed, overtaken>>

Free == [op |-> "none"]
NoRange == [start |-> 0, len |-> 0]
Registered == DOMAIN slot_range_map
RangeOf(c) == IF c \in Registered THEN slot_range_map[c] ELSE NoRange

InjectorInit ==
    /\ slot_count = 0
    /\ slot_range_map = <<>>
    /\ pressed = <<>>
    /\ slot_states = {}
    /\ call = [t \in CallThreads |-> Free]
    /\ crashed = FALSE
    /\ overtaken = FALSE

\* Init starts the service again after a panic; every client must register anew.
Restart ==
    /\ crashed
    /\ slot_count' = 0
    /\ slot_range_map' = <<>>
    /\ pressed' = <<>>
    /\ slot_states' = {}
    /\ call' = [t \in CallThreads |-> Free]
    /\ crashed' = FALSE
    /\ overtaken' = FALSE

Panic ==
    /\ crashed' = TRUE
    /\ UNCHANGED <<slot_count, slot_range_map, pressed, slot_states>>
-----------------------------------------------------------------------------
\* The first part of a call, without the emulator's mutex.  An early return leaves
\* the thread free.

Begin(t, req) ==
    /\ ~crashed
    /\ call[t] = Free
    /\ call' = [call EXCEPT ![t] = req]
    /\ UNCHANGED <<slot_count, slot_range_map, pressed, slot_states, crashed, overtaken>>

registerClient(t, c, n) ==
    /\ c \notin Registered
    /\ n # 0
    /\ slot_count + n <= MaxSlotCount
    /\ Begin(t, [op |-> "register", client |-> c, count |-> n])

unregisterClient(t, c) ==
    /\ c \in Registered
    /\ Begin(t, [op |-> "unregister", client |-> c])

beginTouch(t, c, slot) ==
    /\ c \in Registered
    /\ slot < slot_range_map[c].len
    /\ Begin(t, [op |-> "begin", client |-> c, slot |-> slot, range |-> slot_range_map[c]])

endTouch(t, c, slot) ==
    /\ c \in Registered
    /\ slot < slot_range_map[c].len
    /\ Begin(t, [op |-> "end", client |-> c, slot |-> slot, range |-> slot_range_map[c]])
-----------------------------------------------------------------------------
\* The second part, under the emulator's mutex.

\* TouchEmulator::touch refuses a slot above the length of slot_states; the slot
\* equal to it gets past that check and out of bounds.
OutOfBounds(slot) == slot = AddSlotCount
Pressable(slot) == slot < AddSlotCount

Touches(ranges, pos) ==
    UNION {{ranges[c].start + i : i \in pos[c]} : c \in DOMAIN ranges}

\* Mutation of Remap: the touches are not enabled again.
RemapLeavesDisabled(count, ranges, pos) ==
    /\ slot_count' = count
    /\ slot_range_map' = ranges
    /\ pressed' = pos
    /\ slot_states' = {}
    /\ UNCHANGED crashed

\* disable_all_touches, the change of the maps, enable_all_touches.
Remap(count, ranges, pos) ==
    IF \E slot \in Touches(ranges, pos) : OutOfBounds(slot) THEN Panic
    ELSE /\ slot_count' = count
         /\ slot_range_map' = ranges
         /\ pressed' = pos
         /\ slot_states' = {slot \in Touches(ranges, pos) : Pressable(slot)}
         /\ UNCHANGED crashed

Finish(t, changed) ==
    /\ call' = [call EXCEPT ![t] = Free]
    /\ overtaken' = (overtaken \/ changed)

With(f, c, v) == [d \in DOMAIN f \cup {c} |-> IF d = c THEN v ELSE f[d]]
WithoutClient(f, c) == [d \in DOMAIN f \ {c} |-> f[d]]

register_locked(t) ==
    LET c == call[t].client
        range == [start |-> slot_count, len |-> call[t].count]
    IN  /\ ~crashed
        /\ call[t].op = "register"
        /\ slot_count + range.len <= MaxSlotCount
        /\ Remap(slot_count + range.len, With(slot_range_map, c, range), With(pressed, c, {}))
        /\ Finish(t, c \in Registered)

\* Ranges are handed out again from 0 in the order of the map.
Compacted(ranges) ==
    [c \in DOMAIN ranges |->
        [start |-> MapThenSumSet(LAMBDA d : ranges[d].len, {d \in DOMAIN ranges : d < c}),
         len |-> ranges[c].len]]

unregister_locked(t) ==
    LET c == call[t].client
    IN  /\ ~crashed
        /\ call[t].op = "unregister"
        /\ IF c \notin Registered THEN Panic     \* get(client).unwrap()
           ELSE Remap(slot_count - slot_range_map[c].len,
                      Compacted(WithoutClient(slot_range_map, c)), WithoutClient(pressed, c))
        /\ Finish(t, c \notin Registered)

\* The range is the one read before the mutex was taken.
begin_locked(t) ==
    LET r == call[t]
        c == r.client
        slot == r.range.start + r.slot
    IN  /\ ~crashed
        /\ r.op = "begin"
        /\ IF r.slot >= RangeOf(c).len THEN Panic     \* get_mut(..).unwrap()
           ELSE IF r.slot \in pressed[c]
           THEN UNCHANGED <<slot_count, slot_range_map, pressed, slot_states, crashed>>
           ELSE IF OutOfBounds(slot) THEN Panic
           ELSE /\ pressed' = [pressed EXCEPT ![c] = @ \cup {r.slot}]
                /\ slot_states' = slot_states \cup {s \in {slot} : Pressable(s)}
                /\ UNCHANGED <<slot_count, slot_range_map, crashed>>
        /\ Finish(t, RangeOf(c) # r.range)

end_locked(t) ==
    LET r == call[t]
        c == r.client
        slot == r.range.start + r.slot
    IN  /\ ~crashed
        /\ r.op = "end"
        /\ IF r.slot >= RangeOf(c).len THEN Panic
           ELSE IF r.slot \notin pressed[c]
           THEN UNCHANGED <<slot_count, slot_range_map, pressed, slot_states, crashed>>
           ELSE IF OutOfBounds(slot) THEN Panic
           ELSE /\ pressed' = [pressed EXCEPT ![c] = @ \ {r.slot}]
                /\ slot_states' = slot_states \ {slot}
                /\ UNCHANGED <<slot_count, slot_range_map, crashed>>
        /\ Finish(t, RangeOf(c) # r.range)

InjectorNext ==
    \/ Restart
    \/ \E t \in CallThreads :
        \/ register_locked(t) \/ unregister_locked(t) \/ begin_locked(t) \/ end_locked(t)
        \/ \E c \in Clients :
            \/ \E n \in SlotCounts : registerClient(t, c, n)
            \/ unregisterClient(t, c)
            \/ \E slot \in SlotIds : beginTouch(t, c, slot) \/ endTouch(t, c, slot)

InjectorSpec == InjectorInit /\ [][InjectorNext]_injectorVars
-----------------------------------------------------------------------------
Interval(r) == r.start..(r.start + r.len - 1)

\* No two clients share a slot, and slot_count, from which registerClient assigns
\* the next range, lies beyond all of them: even after the remapping in
\* unregisterClient and whatever calls overtook each other.
RangesDisjoint ==
    /\ DOMAIN pressed = Registered
    /\ \A c \in Registered : slot_range_map[c].start + slot_range_map[c].len <= slot_count
    /\ \A c, d \in Registered :
          c # d => Interval(slot_range_map[c]) \cap Interval(slot_range_map[d]) = {}

\* As long as no call acts on a registration that changed since it looked,
\* slot_count is the number of slots in use (a client that registers twice at once
\* leaks the first range).
NoSlotLeak ==
    ~overtaken => slot_count = MapThenSumSet(LAMBDA c : slot_range_map[c].len, Registered)

\* As long as no call acts on a changed registration, the emulator's slots that are
\* down are the touches the clients have begun and not ended, moved along by every
\* remapping (slots beyond the emulator's are never down).
TouchesMatchPositions ==
    ~overtaken => slot_states = {s \in Touches(slot_range_map, pressed) : Pressable(s)}

\* The service only panics when a call acts on a changed registration or when more
\* slots were handed out than the emulator has.
PanicExplained == crashed => overtaken \/ slot_count > AddSlotCount

\* Slots handed out, slots counted and slots pressed stay in step through every
\* registration, remapping and overtaking call, and the service does not panic.
SlotsInStep == RangesDisjoint /\ NoSlotLeak /\ TouchesMatchPositions /\ PanicExplained
=============================================================================
