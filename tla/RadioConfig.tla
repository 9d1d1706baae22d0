---------------------------- MODULE RadioConfig ----------------------------
(***************************************************************************)
(* The radio config wrapper (radio/config/1.1-wrapper/RadioConfig.cpp) and *)
(* the radio services of the slots, which it tells one after the other     *)
(* whether data is allowed.  One hwbinder thread.  When a service it is    *)
(* linked to dies it exits and is started again, possibly in the middle of *)
(* setPreferredDataModem.                                                  *)
(***************************************************************************)
EXTENDS Integers

CONSTANT NumSlots

ASSUME SlotAssumption == NumSlots \in Nat \ {0}

ModemIds == 0..(NumSlots - 1)

VARIABLES realV1_1,       \* the vendor has radio.config 1.1
          response,       \* mRadioConfigResponse: "none", "1.0" or "1.1"
          cache,          \* modems in mModemIdToRadioCache
          slotUp,         \* radio services that are up
          dataAllowed,    \* modems where data is allowed
          switch,         \* setPreferredDataModem in progress
          answered,       \* the error it told its client
          told,           \* history: modems that heard from a switch since they started
          missed          \* history: a switch did not reach a modem beyond a missing one

configVars == <<realV1_1, response, cache, slotUp, dataAllowed, switch, answered, told, missed>>

NoSwitch == [modem |-> -1, radios |-> {}, left |-> {}]

ConfigInit ==
    /\ realV1_1 \in BOOLEAN
    /\ response = "none"
    /\ cache = {}
    /\ slotUp = ModemIds
    /\ dataAllowed = ModemIds
    /\ switch = NoSwitch
    /\ answered = "none"
    /\ told = {}
    /\ missed = FALSE

ConfigIdle == switch = NoSwitch

setResponseFunctions(cb) ==
    /\ ConfigIdle
    /\ response' = cb
    /\ UNCHANGED <<realV1_1, cache, slotUp, dataAllowed, switch, answered, told, missed>>

\* getPhoneCapability, setModemsConfig and getModemsConfig without a 1.1 service.
SimulatedAnswer(call) ==
    IF response # "1.1" THEN "EX_ILLEGAL_STATE"
    ELSE IF call = "getPhoneCapability" THEN "NONE" ELSE "REQUEST_NOT_SUPPORTED"

simulated(call) ==
    /\ ConfigIdle
    /\ ~realV1_1
    /\ answered' = SimulatedAnswer(call)
    /\ UNCHANGED <<realV1_1, response, cache, slotUp, dataAllowed, switch, told, missed>>

\* The modems up to the first that has no service; a cached one is not asked for again.
getRadioForModemId == {m \in ModemIds : \A n \in 0..m : n \in cache \cup slotUp}

\* Mutation of Others: the loop ends at the preferred modem.
OthersBefore(radios, m) == {n \in radios : n < m}

\* The modems that must not have data before the preferred one may.
Others(radios, m) == radios \ {m}

setPreferredDataModem(m) ==
    LET radios == getRadioForModemId
    IN  /\ ConfigIdle
        /\ ~realV1_1
        /\ cache' = cache \cup radios
        /\ switch' = IF m \in radios
                     THEN [modem |-> m, radios |-> radios, left |-> Others(radios, m)]
                     ELSE NoSwitch
        /\ answered' = IF m \in radios THEN "none"
                       ELSE IF response = "1.1" THEN "INVALID_ARGUMENTS" ELSE "EX_ILLEGAL_STATE"
        /\ missed' = (missed \/ (m \in radios /\ radios # ModemIds))
        /\ UNCHANGED <<realV1_1, response, slotUp, dataAllowed, told>>

setDataAllowed(m, allow) ==
    /\ dataAllowed' = IF allow THEN dataAllowed \cup ({m} \cap slotUp) ELSE dataAllowed \ {m}
    /\ told' = told \cup ({m} \cap slotUp)

DisallowOther(m) ==
    /\ m \in switch.left
    /\ \A n \in switch.left : m <= n
    /\ setDataAllowed(m, FALSE)
    /\ switch' = [switch EXCEPT !.left = @ \ {m}]
    /\ UNCHANGED <<realV1_1, response, cache, slotUp, answered, missed>>

AllowPreferred ==
    /\ switch # NoSwitch
    /\ switch.left = {}
    /\ setDataAllowed(switch.modem, TRUE)
    /\ switch' = NoSwitch
    /\ answered' = IF response = "1.1" THEN "NONE" ELSE "EX_ILLEGAL_STATE"
    /\ UNCHANGED <<realV1_1, response, cache, slotUp, missed>>

\* A radio service dies (external); the wrapper dies with it once it is linked to it.
\* A radio service that starts allows data.
RadioDied(m) ==
    /\ m \in slotUp
    /\ slotUp' = slotUp \ {m}
    /\ dataAllowed' = dataAllowed \ {m}
    /\ told' = told \ {m}
    /\ UNCHANGED <<realV1_1, missed>>
    /\ IF m \in cache
       THEN response' = "none" /\ cache' = {} /\ switch' = NoSwitch /\ answered' = "none"
       ELSE UNCHANGED <<response, cache, switch, answered>>

RadioStarted(m) ==
    /\ m \notin slotUp
    /\ slotUp' = slotUp \cup {m}
    /\ dataAllowed' = dataAllowed \cup {m}
    /\ UNCHANGED <<realV1_1, response, cache, switch, answered, told, missed>>

ConfigNext ==
    \/ \E cb \in {"1.0", "1.1"} : setResponseFunctions(cb)
    \/ \E c \in {"getPhoneCapability", "setModemsConfig", "getModemsConfig"} : simulated(c)
    \/ \E m \in 0..NumSlots : setPreferredDataModem(m)
    \/ \E m \in ModemIds : DisallowOther(m) \/ RadioDied(m) \/ RadioStarted(m)
    \/ AllowPreferred

ConfigSpec == ConfigInit /\ [][ConfigNext]_configVars
-----------------------------------------------------------------------------
\* Never do two modems that a switch has spoken to allow data at once, not even in
\* the middle of a switch or after a crash there, as long as every switch could reach
\* all modems (one behind a missing modem is not reached).
OneDataModem == ~missed => \A m, n \in dataAllowed \cap told : m = n
=============================================================================
