------------------------------- MODULE Radio -------------------------------
(***************************************************************************)
(* The radio wrapper between a client of IRadio 1.4 and a modem with an    *)
(* older radio service (radio/1.4/legacy).  RadioRequests says which of    *)
(* the modem's methods a request becomes, RadioResponses which of the      *)
(* client's methods an answer becomes; this module adds what is kept in    *)
(* between: the client's callbacks and the data registration (mDataRoaming *)
(* and mRat) that older modems want back with every data call.             *)
(*                                                                         *)
(* One hwbinder thread handles requests and responses, so each is one      *)
(* step.  The modem is external: it carries a request out when it gets it  *)
(* and answers some time later, in any order.  When it dies the wrapper    *)
(* exits with it and is started again.                                     *)
(***************************************************************************)
EXTENDS RadioResponses, FiniteSets

CONSTANTS Conversations,   \* what happens in one run: [requests, max, moves], the
                           \* requests asked, max of them at a time, and whether the
                           \* data registration changes
          Bitmaps,         \* families asked for with setPreferredNetworkTypeBitmap
          Carriers         \* carriers that may be restricted

VARIABLES minor,                \* version of the modem's service
          conversation,
          net,                  \* the data registration: [roaming, rat]
          stored,               \* what the modem keeps: [nw, carriers], one value or none
          mRealRadioResponse,   \* "none" before setResponseFunctions, "null" or "client"
          mDataRoaming, mRat,
          pending,              \* requests the modem has to answer: [req, method]
          waiting,              \* requests the client waits for, with their arguments
          delivered,            \* what the client was given last
          heard,                \* the data registration it was told last
          lastSet,              \* the arguments it set last, likewise
          flags                 \* what the last call with a roaming flag was given

radioVars == <<minor, conversation, net, stored, mRealRadioResponse, mDataRoaming, mRat, pending,
               waiting, delivered, heard, lastSet, flags>>

Silence == [req |-> NoRequest, to |-> NoRequest, value |-> {}]
NoFlags == [roaming |-> FALSE, rat |-> "UNKNOWN", heard |-> [roaming |-> FALSE, rat |-> "UNKNOWN"]]
NothingHeard == NoFlags.heard
Unset == [nw |-> {}, carriers |-> {}]

WrapperInit ==
    /\ mRealRadioResponse = "none"
    /\ mDataRoaming = FALSE
    /\ mRat = "UNKNOWN"

RadioInit ==
    /\ minor \in 0..4
    /\ conversation \in Conversations
    /\ net = [roaming |-> FALSE, rat |-> "LTE"]
    /\ stored = Unset
    /\ WrapperInit
    /\ pending = {}
    /\ waiting = {}
    /\ delivered = Silence
    /\ heard = NothingHeard
    /\ lastSet = Unset
    /\ flags = NoFlags

\* A client of an older interface has no 1.4 callbacks to cast to.
setResponseFunctions(cb) ==
    /\ mRealRadioResponse = "none"
    /\ mRealRadioResponse' = cb
    /\ UNCHANGED <<minor, conversation, net, stored, mDataRoaming, mRat, pending, waiting,
                   delivered, heard, lastSet, flags>>
-----------------------------------------------------------------------------
\* Requests.

CarrierLists == [allowed : SUBSET Carriers, excluded : SUBSET Carriers,
                 prioritized : BOOLEAN, multiSim : BOOLEAN]

\* Arguments that matter to the wrapper.
Arguments(r) ==
    CASE r = Request("setSimCardPower", 1) -> {"up", "pass_through"}
      [] r = Request("setDataProfile", 4) -> {"persistent", "other"}
      [] r = Request("setPreferredNetworkType", 4) -> Bitmaps
      [] r = Request("setPreferredNetworkType", 0) -> {"GSM_WCDMA", "LTE_ONLY"}
      [] r = Request("setAllowedCarriers", 4) -> CarrierLists
      [] r = Request("setAllowedCarriers", 0) ->
            [all : {FALSE}, allowed : SUBSET Carriers, excluded : SUBSET Carriers]
      [] OTHER -> {"any"}

\* The calls that carry the roaming flag of the last data registration.
WithRoamingFlag ==
    {Request("setupDataCall", 4), Request("setInitialAttachApn", 4), Request("setDataProfile", 4)}

Flags(r, method) ==
    [roaming |-> mDataRoaming,
     rat |-> IF r.name = "setupDataCall" /\ method.minor = 0 THEN mRat ELSE heard.rat,
     heard |-> heard]

\* A modem keeps the network type and the carriers in the form of its own version.
Keeps(method) == method.minor = IF minor = 4 THEN 4 ELSE 0

Store(s, method, values) ==
    CASE method.name = "setPreferredNetworkType" /\ Keeps(method) -> [s EXCEPT !.nw = values]
      [] method.name = "setAllowedCarriers" /\ Keeps(method) -> [s EXCEPT !.carriers = values]
      [] OTHER -> s

ask(r, arg) ==
    LET method == Routed(r, arg, minor)
    IN  /\ mRealRadioResponse # "none"
        /\ Cardinality(waiting) < conversation.max
        /\ \A w \in waiting : w.req # r
        /\ waiting' = waiting \cup {[req |-> r, arg |-> arg]}
        /\ pending' = IF method = NoRequest THEN pending
                      ELSE pending \cup {[req |-> r, method |-> method]}
        /\ stored' = Store(stored, method, {Passed(r, arg, minor)})
        /\ lastSet' = Store(lastSet, method, IF r.minor = 4 THEN {arg} ELSE {})
        /\ flags' = IF r \in WithRoamingFlag /\ method # NoRequest /\ method.minor < 4
                    THEN Flags(r, method) ELSE flags
        /\ delivered' = Silence
        /\ UNCHANGED <<minor, conversation, net, mRealRadioResponse, mDataRoaming, mRat, heard>>

\* The client stops waiting for a request that the modem never got.
giveUp(w) ==
    /\ w \in waiting
    /\ \A p \in pending : p.req # w.req
    /\ waiting' = waiting \ {w}
    /\ delivered' = Silence
    /\ UNCHANGED <<minor, conversation, net, stored, mRealRadioResponse, mDataRoaming, mRat, pending,
                   heard, lastSet, flags>>
-----------------------------------------------------------------------------
\* The modem (external): names and versions of its responses.

ResponseName(n) ==
    CASE n = "getImsiForApp" -> "getIMSIForApp"
      [] n = "hangup" -> "hangupConnection"
      [] OTHER -> n

\* The versions in which a response exists, for those that have several.
ResponseVersions(n) ==
    CASE n \in {"getIccCardStatus", "getDataRegistrationState", "getCellInfoList",
                "getSignalStrength"} -> {0, 2, 4}
      [] n \in {"getCurrentCalls", "getVoiceRegistrationState"} -> {0, 2}
      [] n \in {"setupDataCall", "getDataCallList", "getPreferredNetworkType",
                "setPreferredNetworkType", "setAllowedCarriers", "getAllowedCarriers"} -> {0, 4}
      [] n = "startNetworkScan" -> {1, 4}
      [] n = "setSimCardPower" -> {0, 1}
      [] n \in {"deactivateDataCall", "setIndicationFilter", "setInitialAttachApn",
                "setDataProfile"} -> {0}
      [] OTHER -> {}

\* A method answers with its own version; requests that only version 0 has are
\* answered with any the modem knows.
AnswerVersions(method) ==
    LET vs == ResponseVersions(method.name)
    IN  CASE vs = {} -> {method.minor}
          [] method.name \in {"getIccCardStatus", "getDataRegistrationState", "getCellInfoList",
                              "getCurrentCalls", "getVoiceRegistrationState", "getDataCallList"} ->
                {v \in vs : v <= minor}
          [] OTHER -> {v \in vs : v <= method.minor /\ \A w \in vs : w <= method.minor => w <= v}

Answer(method) ==
    CASE method.name = "getPreferredNetworkType" /\ Keeps(method) -> stored.nw
      [] method.name = "getAllowedCarriers" /\ Keeps(method) -> stored.carriers
      [] OTHER -> {}

\* The data registration comes along with its response; only versions 0 and 2 leave
\* a trace in the wrapper.
Registration(n, v) ==
    IF n # "getDataRegistrationState" THEN UNCHANGED <<mDataRoaming, mRat, heard>>
    ELSE /\ heard' = net
         /\ mDataRoaming' = IF v \in {0, 2} THEN net.roaming ELSE mDataRoaming
         /\ mRat' = IF v = 0 THEN net.rat ELSE mRat

respond(p, v) ==
    LET n == ResponseName(p.method.name)
    IN  /\ mRealRadioResponse = "client"
        /\ pending' = pending \ {p}
        /\ waiting' = {w \in waiting : w.req # p.req}
        /\ delivered' = [req |-> p.req, to |-> Response(n, v),
                         value |-> {Told(n, v, x) : x \in Answer(p.method)}]
        /\ Registration(n, v)
        /\ UNCHANGED <<minor, conversation, net, stored, mRealRadioResponse, lastSet, flags>>

indicate(n, v) ==
    /\ mRealRadioResponse = "client"
    /\ v <= minor
    /\ conversation.requests = {}
    /\ delivered' = [req |-> Request(n, v), to |-> Indication(n, v), value |-> {}]
    /\ UNCHANGED <<minor, conversation, net, stored, mRealRadioResponse, mDataRoaming, mRat,
                   pending, waiting, heard, lastSet, flags>>

Move(n) ==
    /\ conversation.moves
    /\ net' = n
    /\ net # n
    /\ delivered' = Silence
    /\ UNCHANGED <<minor, conversation, stored, mRealRadioResponse, mDataRoaming, mRat, pending,
                   waiting, heard, lastSet, flags>>

\* linkDeathToDeath: the modem dies and the wrapper exits.  A response for a client
\* without 1.4 callbacks ends the wrapper too.
Died ==
    /\ mRealRadioResponse \in {"client", "null"}
    /\ mRealRadioResponse' = "none"
    /\ mDataRoaming' = FALSE
    /\ mRat' = "UNKNOWN"
    /\ pending' = {}
    /\ waiting' = {}
    /\ delivered' = Silence
    /\ heard' = NothingHeard
    /\ flags' = NoFlags
    /\ UNCHANGED <<minor, conversation, net, stored, lastSet>>

RadioNext ==
    \/ \E cb \in {"client", "null"} : setResponseFunctions(cb)
    \/ \E r \in conversation.requests : \E arg \in Arguments(r) : ask(r, arg)
    \/ \E w \in waiting : giveUp(w)
    \/ \E p \in pending : \E v \in AnswerVersions(p.method) : respond(p, v)
    \/ \E i \in Indications : indicate(i[1], i[2])
    \/ \E n \in [roaming : BOOLEAN, rat : {"LTE", "EDGE"}] : Move(n)
    \/ Died

RadioSpec == RadioInit /\ [][RadioNext]_radioVars
-----------------------------------------------------------------------------
\* The requests the source marks "TODO implement" for a modem of version m, and the
\* arguments no older version can express.
Unanswerable(r, arg, m) ==
    \/ r.name \in {"setCarrierInfoForImsiEncryption", "startNetworkScan", "stopNetworkScan",
                   "startKeepalive", "stopKeepalive"} /\ m < 1
    \/ r.minor < 4 /\ r.minor > m /\ r.name \in {"startNetworkScan", "setupDataCall",
                   "setSignalStrengthReportingCriteria", "setLinkCapacityReportingCriteria"}
    \/ r.name \in {"setSystemSelectionChannels", "enableModem", "getModemStackStatus"} /\ m < 3
    \/ r.name = "emergencyDial" /\ m < 4
    \/ r.name = "setSimCardPower" /\ m < 1 /\ arg = "pass_through"
    \/ r.name = "setDataProfile" /\ m < 4 /\ arg = "other"
    \/ /\ r = Request("setAllowedCarriers", 4) /\ m < 4
       /\ \/ arg.multiSim
          \/ arg.excluded # {}
          \/ ~arg.prioritized /\ arg.allowed # {}

\* Every request of the client is with the modem until it is answered, on modems of
\* every version; only the ones the source gives up on are never answered.
NoRequestForgotten ==
    \A w \in waiting : \/ \E p \in pending : p.req = w.req
                       \/ Unanswerable(w.req, w.arg, minor)

\* A response reaches the client as the answer to what was asked and in the newest
\* version of it, whatever version the modem speaks: a 1.4 client waits for no other.
NewestResponse ==
    delivered.req \in AllRequests =>
        /\ delivered.to.name = ResponseName(delivered.req.name)
        /\ \A v \in ResponseVersions(delivered.to.name) : v <= delivered.to.minor

\* An indication that has several versions reaches the client in the newest one.
NewestIndication ==
    delivered.req.name \in {"currentSignalStrength", "dataCallListChanged", "cellInfoList",
                            "networkScanResult", "currentPhysicalChannelConfigs"} =>
        delivered.to = Request(delivered.req.name, 4)

\* A client of the newest interface is served whatever version the modem speaks:
\* no request is forgotten, and all that comes back comes in the newest form.
ClientServed == NoRequestForgotten /\ NewestResponse /\ NewestIndication

\* A data call, an attach APN or a data profile sent to an older modem carries the
\* roaming state the client was told last, and the radio technology where it is asked.
RoamingPassedOn == flags.roaming = flags.heard.roaming /\ flags.rat = flags.heard.rat

\* What getPreferredNetworkTypeBitmap answers is what was set last, completed to whole
\* groups, when the older interface has a type for it, and else the default type.
NetworkTypeKept ==
    \A bitmap \in lastSet.nw :
        LET whole == Completed(bitmap)
            types == {UNION c[2] : c \in NetworkTypeCases}
        IN  delivered.req = Request("getPreferredNetworkType", 4) =>
                delivered.value =
                    {IF minor = 4 THEN bitmap
                     ELSE IF whole \in types THEN whole
                     ELSE UNION {LTEBITS, CDMABITS, EVDOBITS, GSMBITS, WCDMABITS}}

\* The carriers read back are the ones the client was allowed to set.
CarriersKept ==
    \A c \in lastSet.carriers :
        delivered.req = Request("getAllowedCarriers", 4) =>
            \A got \in delivered.value :
                /\ got.allowed = c.allowed
                /\ got.excluded = c.excluded
                /\ got.prioritized = c.prioritized

\* What the wrapper carries from one call to a later one, for modems whose interface
\* has no place for it, arrives there as it was told.
CarriedOver == RoamingPassedOn /\ NetworkTypeKept /\ CarriersKept
=============================================================================
