------------------------- MODULE RadioConfigProofs -------------------------
(***************************************************************************)
(* OneDataModem for any number of slots.                                   *)
(***************************************************************************)
EXTENDS RadioConfig, TLAPS

\* The type of the state; a modem whose service is down allows no
\* data and has heard nothing.
ConfigTypeOK ==
    /\ cache \subseteq ModemIds
    /\ slotUp \subseteq ModemIds
    /\ dataAllowed \subseteq slotUp
    /\ told \subseteq slotUp
    /\ switch \in [modem : ModemIds \cup {-1}, radios : SUBSET ModemIds, left : SUBSET ModemIds]
    /\ missed \in BOOLEAN

\* The modems that heard of a switch and allow data.
Allowed == dataAllowed \cap told

\* While a switch is under way, the modems it is done with allow no data.
SwitchedOff ==
    ~missed /\ switch # NoSwitch =>
        /\ switch.modem \in ModemIds
        /\ switch.left \subseteq ModemIds \ {switch.modem}
        /\ Allowed \subseteq switch.left \cup {switch.modem}

\* The inductive invariant.  OneDataModem says nothing of a switch half-way;
\* SwitchedOff says what is true of it there.
IInv == ConfigTypeOK /\ SwitchedOff /\ OneDataModem
-----------------------------------------------------------------------------
\* No switch is under way at the start, and nobody was told anything.
LEMMA InitHasIInv == ConfigInit => IInv
<1> SUFFICES ASSUME ConfigInit PROVE IInv
  OBVIOUS
<1>1. ConfigTypeOK
  BY Zenon DEF ConfigInit, ConfigTypeOK, NoSwitch
<1> QED BY <1>1 DEF ConfigInit, IInv, SwitchedOff, OneDataModem

\* One step keeps the type.
LEMMA StepKeepsType == ConfigTypeOK /\ [ConfigNext]_configVars => ConfigTypeOK'
<1> SUFFICES ASSUME ConfigTypeOK, [ConfigNext]_configVars PROVE ConfigTypeOK'
  OBVIOUS
<1> USE DEF ConfigTypeOK
<1>1. ASSUME NEW cb \in {"1.0", "1.1"}, setResponseFunctions(cb) PROVE ConfigTypeOK'
  BY <1>1 DEF setResponseFunctions
<1>2. ASSUME NEW c, simulated(c) PROVE ConfigTypeOK'
  BY <1>2 DEF simulated
<1>3. ASSUME NEW m \in 0..NumSlots, setPreferredDataModem(m) PROVE ConfigTypeOK'
  <2>1. getRadioForModemId \subseteq ModemIds
    BY DEF getRadioForModemId
  <2>2. switch' \in [modem : ModemIds \cup {-1}, radios : SUBSET ModemIds, left : SUBSET ModemIds]
    BY <1>3, <2>1 DEF setPreferredDataModem, Others, NoSwitch
  <2> QED BY <1>3, <2>1, <2>2 DEF setPreferredDataModem
<1>4. ASSUME NEW m \in ModemIds, DisallowOther(m) PROVE ConfigTypeOK'
  BY <1>4 DEF DisallowOther, setDataAllowed
<1>5. ASSUME NEW m \in ModemIds, RadioDied(m) PROVE ConfigTypeOK'
  BY <1>5 DEF RadioDied, NoSwitch
<1>6. ASSUME NEW m \in ModemIds, RadioStarted(m) PROVE ConfigTypeOK'
  BY <1>6 DEF RadioStarted
<1>7. CASE AllowPreferred
  <2>1. dataAllowed' \subseteq slotUp /\ told' \subseteq slotUp
    <3>1. CASE switch.modem \in slotUp
      BY <1>7, <3>1 DEF AllowPreferred, setDataAllowed
    <3>2. CASE switch.modem \notin slotUp
      BY <1>7, <3>2 DEF AllowPreferred, setDataAllowed
    <3> QED BY <3>1, <3>2
  <2> QED BY <1>7, <2>1 DEF AllowPreferred, NoSwitch
<1>8. CASE UNCHANGED configVars
  BY <1>8 DEF configVars
<1> QED BY <1>1, <1>2, <1>3, <1>4, <1>5, <1>6, <1>7, <1>8 DEF ConfigNext

\* A step that changes neither the switch nor what it has said keeps both facts.
LEMMA Quiet ==
    ASSUME SwitchedOff, OneDataModem, Allowed' \subseteq Allowed, switch' = switch,
           missed' = missed
    PROVE  SwitchedOff' /\ OneDataModem'
  BY DEF SwitchedOff, OneDataModem, Allowed, ModemIds

\* One step keeps SwitchedOff and OneDataModem: only AllowPreferred lets a modem
\* told of a switch allow data, and then no other one does.
LEMMA StepKeepsIInv == IInv /\ [ConfigNext]_configVars => IInv'
<1> SUFFICES ASSUME IInv, [ConfigNext]_configVars PROVE SwitchedOff' /\ OneDataModem'
  BY StepKeepsType DEF IInv
<1>0. ConfigTypeOK /\ SwitchedOff /\ OneDataModem
  BY DEF IInv
<1>1. ASSUME NEW cb \in {"1.0", "1.1"}, setResponseFunctions(cb)
      PROVE SwitchedOff' /\ OneDataModem'
  BY <1>0, <1>1, Quiet DEF setResponseFunctions, Allowed
<1>2. ASSUME NEW c, simulated(c) PROVE SwitchedOff' /\ OneDataModem'
  BY <1>0, <1>2, Quiet DEF simulated, Allowed
<1>3. ASSUME NEW m \in 0..NumSlots, setPreferredDataModem(m)
      PROVE SwitchedOff' /\ OneDataModem'
  <2>1. Allowed' = Allowed /\ (~missed' => ~missed)
    BY <1>3, Zenon DEF setPreferredDataModem, Allowed
  <2>2. OneDataModem'
    BY <1>0, <2>1 DEF OneDataModem, Allowed
  <2>3. CASE m \in getRadioForModemId
    <3>1. ~missed' => getRadioForModemId = ModemIds
      BY <1>3, <2>3, Zenon DEF setPreferredDataModem
    <3>2. switch' = [modem |-> m, radios |-> getRadioForModemId,
                     left |-> getRadioForModemId \ {m}]
      BY <1>3, <2>3 DEF setPreferredDataModem, Others
    <3>3. m \in ModemIds
      BY <2>3 DEF getRadioForModemId
    <3>4. Allowed \subseteq ModemIds
      BY <1>0 DEF ConfigTypeOK, Allowed
    <3>5. SwitchedOff'
      BY <2>1, <3>1, <3>2, <3>3, <3>4 DEF SwitchedOff, ModemIds
    <3> QED BY <2>2, <3>5
  <2>4. CASE m \notin getRadioForModemId
    <3>1. switch' = NoSwitch
      BY <1>3, <2>4 DEF setPreferredDataModem
    <3> QED BY <2>2, <3>1 DEF SwitchedOff, NoSwitch
  <2> QED BY <2>3, <2>4
<1>4. ASSUME NEW m \in ModemIds, DisallowOther(m) PROVE SwitchedOff' /\ OneDataModem'
  <2>1. Allowed' \subseteq Allowed \ {m}
    <3>1. CASE m \in slotUp
      BY <1>4, <3>1 DEF DisallowOther, setDataAllowed, Allowed
    <3>2. CASE m \notin slotUp
      BY <1>0, <1>4, <3>2 DEF DisallowOther, setDataAllowed, Allowed, ConfigTypeOK
    <3> QED BY <3>1, <3>2
  <2>2. /\ switch' = [switch EXCEPT !.left = @ \ {m}]
        /\ missed' = missed
        /\ m \in switch.left
    BY <1>4 DEF DisallowOther
  <2>3. switch # NoSwitch
    BY <2>2 DEF NoSwitch
  <2>4. switch'.modem = switch.modem /\ switch'.left = switch.left \ {m}
    BY <1>0, <2>2 DEF ConfigTypeOK
  <2>5. OneDataModem'
    BY <1>0, <2>1, <2>2 DEF OneDataModem, Allowed
  <2>6. ASSUME ~missed
        PROVE  /\ switch.modem \in ModemIds
               /\ switch.left \subseteq ModemIds \ {switch.modem}
               /\ Allowed \subseteq switch.left \cup {switch.modem}
    BY <1>0, <2>3, <2>6 DEF SwitchedOff
  <2>7. ModemIds' = ModemIds
    BY DEF ModemIds
  <2>8. SwitchedOff'
    <3>1. SUFFICES ASSUME ~missed'
                   PROVE  /\ switch'.modem \in ModemIds
                          /\ switch'.left \subseteq ModemIds \ {switch'.modem}
                          /\ Allowed' \subseteq switch'.left \cup {switch'.modem}
      BY <2>7 DEF SwitchedOff
    <3> QED BY <2>1, <2>2, <2>4, <2>6, <3>1
  <2> QED BY <2>5, <2>8
<1>5. ASSUME NEW m \in ModemIds, RadioDied(m) PROVE SwitchedOff' /\ OneDataModem'
  <2>1. Allowed' \subseteq Allowed /\ missed' = missed
    BY <1>5 DEF RadioDied, Allowed
  <2>2. CASE switch' = switch
    BY <1>0, <2>1, <2>2, Quiet
  <2>3. CASE switch' = NoSwitch
    BY <1>0, <2>1, <2>3 DEF SwitchedOff, OneDataModem, Allowed, NoSwitch
  <2> QED BY <1>5, <2>2, <2>3 DEF RadioDied
<1>6. ASSUME NEW m \in ModemIds, RadioStarted(m) PROVE SwitchedOff' /\ OneDataModem'
  <2>1. m \notin told
    BY <1>0, <1>6 DEF RadioStarted, ConfigTypeOK
  <2> QED BY <1>0, <1>6, <2>1, Quiet DEF RadioStarted, Allowed
<1>7. CASE AllowPreferred
  <2>1. switch' = NoSwitch /\ missed' = missed
    BY <1>7 DEF AllowPreferred
  <2>2. Allowed' \subseteq Allowed \cup {switch.modem}
    <3>1. CASE switch.modem \in slotUp
      BY <1>7, <3>1 DEF AllowPreferred, setDataAllowed, Allowed
    <3>2. CASE switch.modem \notin slotUp
      BY <1>7, <3>2 DEF AllowPreferred, setDataAllowed, Allowed
    <3> QED BY <3>1, <3>2
  <2>3. ~missed => Allowed \subseteq {switch.modem}
    BY <1>0, <1>7 DEF AllowPreferred, SwitchedOff
  <2>4. OneDataModem'
    BY <2>1, <2>2, <2>3 DEF OneDataModem, Allowed
  <2> QED BY <2>1, <2>4 DEF SwitchedOff, NoSwitch
<1>8. CASE UNCHANGED configVars
  BY <1>0, <1>8, Quiet DEF configVars, Allowed
<1> QED BY <1>1, <1>2, <1>3, <1>4, <1>5, <1>6, <1>7, <1>8 DEF ConfigNext

\* Whatever dies or starts in the middle of setPreferredDataModem, and however many
\* slots there are, no two modems that were told of a switch allow data at once
\* unless a switch could not reach a modem.
THEOREM OneModemHasData == ConfigSpec => []OneDataModem
<1>1. ConfigInit => IInv
  BY InitHasIInv
<1>2. IInv /\ [ConfigNext]_configVars => IInv'
  BY StepKeepsIInv
<1>3. IInv => OneDataModem
  BY DEF IInv
<1> QED BY <1>1, <1>2, <1>3, PTL DEF ConfigSpec
=============================================================================
