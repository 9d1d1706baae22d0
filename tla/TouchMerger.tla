---------------------------- MODULE TouchMerger ----------------------------
(***************************************************************************)
(* The virtual touch screen of the touch injector (touchinjector/aidl/     *)
(* default: touch_merger.rs, touch_emulator.rs, stream.rs).                *)
(*                                                                         *)
(* The frames of the grabbed touch screen and those of the emulated        *)
(* touches go to one virtual device, whose slots are the slots of the      *)
(* source followed by the additional ones.  The multi-touch protocol is    *)
(* stateful: an event belongs to the slot selected last, and a source that *)
(* stays on a slot does not select it again.  A frame is the sequence of   *)
(* its events up to SYN_REPORT and is emitted under the merger's mutex:    *)
(* one action.  Positions, times and tracking ids are left out, a tracking *)
(* id being 1 when a contact begins and -1 when it ends.                   *)
(***************************************************************************)
EXTENDS Integers, SequencesExt

CONSTANTS SrcSlots,      \* src_slot_count
          AddSlots,      \* ADD_SLOT_COUNT
          MaxChanges     \* contacts that begin or end in one source frame

ASSUME MergerAssumption ==
    SrcSlots \in Nat \ {0} /\ AddSlots \in Nat /\ MaxChanges \in Nat \ {0}

SrcSlotIds == 0..(SrcSlots - 1)
AddSlotIds == 0..(AddSlots - 1)
AllSlotIds == 0..(SrcSlots + AddSlots - 1)

VARIABLES merger,     \* TouchMerger: [cur, states, src]
          emulator,   \* slot_states of the TouchEmulator
          source,     \* the kernel's state of the source: [slot, down]
          virt,       \* the kernel's state of the virtual device: [slot, down, btn]
          together    \* history: two contacts began in one source frame

mergerVars == <<merger, emulator, source, virt, together>>

Slot(n) == [code |-> "slot", value |-> n]
Tracking(v) == [code |-> "tracking", value |-> v]
Button(v) == [code |-> "btn", value |-> v]
Position == [code |-> "position", value |-> 0]

MergerInit ==
    /\ merger = [cur |-> 0, states |-> [s \in AllSlotIds |-> FALSE], src |-> 0]
    /\ emulator = [s \in AddSlotIds |-> FALSE]
    /\ source = [slot |-> 0, down |-> [s \in SrcSlotIds |-> FALSE]]
    /\ virt = [slot |-> 0, down |-> [s \in AllSlotIds |-> FALSE], btn |-> FALSE]
    /\ together = FALSE
-----------------------------------------------------------------------------
\* Mutation of ResetSlot: the source's frame goes to whatever slot is selected.
NoReset(m, evs, add) == m

\* A source frame that does not select a slot goes on with the source's own.
ResetSlot(m, evs, add) ==
    LET axis == SelectSeq(evs, LAMBDA e : e.code # "btn")
    IN  IF ~add /\ m.cur # m.src /\ axis # <<>> /\ axis[1].code # "slot"
        THEN [m EXCEPT !.cur = m.src, !.out = <<Slot(m.src)>>]
        ELSE m

SelectSlot(m, n, add) ==
    LET slot == IF add THEN SrcSlots + n ELSE n
        own == IF add THEN m ELSE [m EXCEPT !.src = slot]
    IN  IF m.cur = slot THEN own
        ELSE [own EXCEPT !.cur = slot, !.out = Append(@, Slot(slot))]

Track(m, v) ==
    [m EXCEPT !.states[m.cur] = (v # -1), !.out = Append(@, Tracking(v))]

Touched(m, v) ==
    IF \E s \in AllSlotIds \ {m.cur} : m.states[s] THEN m
    ELSE [m EXCEPT !.out = Append(@, Button(v))]

EmitEvent(m, e, add) ==
    CASE e.code = "slot" -> SelectSlot(m, e.value, add)
      [] e.code = "tracking" -> Track(m, e.value)
      [] e.code = "btn" -> Touched(m, e.value)
      [] OTHER -> [m EXCEPT !.out = Append(@, e)]

\* TouchMerger::emit; out is the queue given to the virtual device.
Emitted(evs, add) ==
    LET m == [cur |-> merger.cur, states |-> merger.states, src |-> merger.src,
              out |-> <<>>]
    IN  FoldLeft(LAMBDA x, e : EmitEvent(x, e, add), ResetSlot(m, evs, add), evs)

\* What the kernel makes of an event (external).
Kernel(dev, e) ==
    CASE e.code = "slot" -> [dev EXCEPT !.slot = e.value]
      [] e.code = "tracking" -> [dev EXCEPT !.down[dev.slot] = (e.value # -1)]
      [] e.code = "btn" -> [dev EXCEPT !.btn = (e.value = 1)]
      [] OTHER -> dev

emit(evs, add) ==
    LET m == Emitted(evs, add)
    IN  /\ merger' = [cur |-> m.cur, states |-> m.states, src |-> m.src]
        /\ virt' = FoldLeft(Kernel, virt, m.out)
-----------------------------------------------------------------------------
\* The source (external): the contacts in chg begin or end, or the finger on the
\* current slot moves.  The slot is selected when it is not the current one, and
\* BTN_TOUCH follows the contacts when the first begins or the last ends.
Changes == {chg \in SeqOf(SrcSlotIds, MaxChanges) : IsInjective(chg)}

SourceFrame(chg) ==
    LET step(x, s) ==
            [evs |-> x.evs \o (IF x.slot = s THEN <<>> ELSE <<Slot(s)>>)
                           \o <<Tracking(IF x.down[s] THEN -1 ELSE 1)>>,
             slot |-> s,
             down |-> [x.down EXCEPT ![s] = ~@]]
    IN  FoldLeft(step, [evs |-> <<>>, slot |-> source.slot, down |-> source.down], chg)

src_dev_task(chg) ==
    LET f == SourceFrame(chg)
        before == \E s \in SrcSlotIds : source.down[s]
        after == \E s \in SrcSlotIds : f.down[s]
        btn == IF before = after THEN <<>> ELSE <<Button(IF after THEN 1 ELSE 0)>>
        began == {i \in DOMAIN chg : f.down[chg[i]]}
    IN  /\ chg = <<>> => source.down[source.slot]
        /\ emit(f.evs \o btn \o <<Position>>, FALSE)
        /\ source' = [slot |-> f.slot, down |-> f.down]
        /\ together' = (together \/ Cardinality(began) > 1)
        /\ UNCHANGED emulator

\* TouchEmulator::touch, for a slot in range: nothing when the slot already is in
\* the state asked for.
touch(slot, is_press) ==
    LET after == [emulator EXCEPT ![slot] = is_press]
        first == is_press /\ ~\E s \in AddSlotIds : emulator[s]
        last == ~is_press /\ ~\E s \in AddSlotIds : after[s]
        value == IF is_press THEN 1 ELSE -1
        btn == IF first \/ last THEN <<Button(IF is_press THEN 1 ELSE 0)>> ELSE <<>>
        pos == IF is_press THEN <<Position>> ELSE <<>>
    IN  /\ emulator[slot] # is_press
        /\ emulator' = after
        /\ emit(<<Slot(slot), Tracking(value)>> \o btn \o pos, TRUE)
        /\ UNCHANGED <<source, together>>

MergerNext ==
    \/ \E chg \in Changes : src_dev_task(chg)
    \/ \E slot \in AddSlotIds, is_press \in BOOLEAN : touch(slot, is_press)

MergerSpec == MergerInit /\ [][MergerNext]_mergerVars
-----------------------------------------------------------------------------
\* Every contact of the virtual screen is a contact of the source or an emulated
\* one, on the slot that stands for it, however the frames of the two interleave:
\* the reset in TouchMerger::emit selects the right slot for a source that does not.
ContactsMirrored ==
    /\ \A s \in SrcSlotIds : virt.down[s] = source.down[s]
    /\ \A s \in AddSlotIds : virt.down[SrcSlots + s] = emulator[s]

\* The merger's idea of the virtual device (all_current_slot, all_slot_states) and
\* of the source (src_current_slot) is the kernel's.
MergerInStep ==
    /\ virt.slot = merger.cur
    /\ virt.down = merger.states
    /\ source.slot = merger.src

\* BTN_TOUCH, which emit passes on only when no other contact is down, is never
\* left set without a contact; and it is missing under a contact only when two
\* contacts began in one frame of the source, each keeping back the other's event.
ButtonFollowsContacts ==
    LET down == \E s \in AllSlotIds : virt.down[s]
    IN  /\ virt.btn => down
        /\ down /\ ~together => virt.btn

\* The virtual screen shows the contacts of source and emulator, the button that
\* goes with them, and the merger knows what it shows.
ScreenMirrors == ContactsMirrored /\ MergerInStep /\ ButtonFollowsContacts
=============================================================================
