-------------------------- MODULE MCChannelManager --------------------------
(***************************************************************************)
(* Groups of two slots, in three scenarios: three clients that send        *)
(* nothing, so that a second group is made, destroyed and its id reused;   *)
(* one client with enough messages for batches of two sessions; and two    *)
(* clients, one with an unreadable queue, whose slots are reused while     *)
(* messages are on their way on two of three channels.                     *)
(***************************************************************************)
EXTENDS ChannelManager

CONSTANTS k1, k2, k3, u1, u2, a, b

\* k1 and k2 belong to one user.
MCUid == [k \in Keys |-> IF k = k3 THEN u2 ELSE u1]

Scenarios == {[keys |-> Keys, channels |-> 4, writers |-> 0, messages |-> 0, sids |-> Sids],
              [keys |-> {k1}, channels |-> 1, writers |-> 1, messages |-> 3, sids |-> Sids],
              [keys |-> {k1, k2}, channels |-> 3, writers |-> 2, messages |-> 1, sids |-> {a}]}

VARIABLE scenario

Within ==
    /\ Len(chan) <= scenario.channels
    /\ Cardinality({ch \in DOMAIN chan : sent[ch] # <<>>}) <= scenario.writers
    /\ \A ch \in DOMAIN chan :
        /\ chan[ch].key \in scenario.keys
        /\ Len(sent[ch]) <= scenario.messages
        /\ \A i \in DOMAIN sent[ch] : sent[ch][i].sid \in scenario.sids

MCInit == Init /\ scenario \in Scenarios
MCNext == Next /\ UNCHANGED scenario /\ Within'

MCSpec == MCInit /\ [][MCNext]_<<vars, scenario>> /\ Fairness
=============================================================================
