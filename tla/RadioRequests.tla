--------------------------- MODULE RadioRequests ---------------------------
(***************************************************************************)
(* What the radio wrapper (radio/1.4/legacy/Radio.cpp) asks of the modem's *)
(* own radio service, whose interface has the minor version m <= 4.        *)
(*                                                                         *)
(* A request is its name without version suffix and the minor version of   *)
(* the interface it belongs to; the "Bitmap" requests for the preferred    *)
(* network type are version 4 of that name.  Arguments are left out except *)
(* where they decide what is called.                                       *)
(***************************************************************************)
EXTENDS Integers

Request(n, v) == [name |-> n, minor |-> v]
NoRequest == Request("none", 0)

\* Forwarded as they are (WRAP_V1_0_CALL), in the order of the source.

CardAndCallRequests ==
    {"getIccCardStatus", "supplyIccPinForApp", "supplyIccPukForApp", "supplyIccPin2ForApp",
     "supplyIccPuk2ForApp", "changeIccPinForApp", "changeIccPin2ForApp",
     "supplyNetworkDepersonalization", "getCurrentCalls", "dial", "getImsiForApp",
     "hangup", "hangupWaitingOrBackground", "hangupForegroundResumeBackground",
     "switchWaitingOrHoldingAndActive", "conference", "rejectCall",
     "getLastCallFailCause", "getSignalStrength", "getVoiceRegistrationState",
     "getDataRegistrationState", "getOperator"}

DataAndServiceRequests ==
    {"setRadioPower", "sendDtmf", "sendSms", "sendSMSExpectMore", "setupDataCall",
     "iccIOForApp", "sendUssd", "cancelPendingUssd", "getClir", "setClir",
     "getCallForwardStatus", "setCallForward", "getCallWaiting", "setCallWaiting",
     "acknowledgeLastIncomingGsmSms", "acceptCall", "deactivateDataCall",
     "getFacilityLockForApp", "setFacilityLockForApp", "setBarringPassword",
     "getNetworkSelectionMode", "setNetworkSelectionModeAutomatic",
     "setNetworkSelectionModeManual", "getAvailableNetworks", "startDtmf", "stopDtmf",
     "getBasebandVersion", "separateConnection", "setMute", "getMute", "getClip"}

NetworkAndCdmaRequests ==
    {"getDataCallList", "setSuppServiceNotifications", "writeSmsToSim", "deleteSmsOnSim",
     "setBandMode", "getAvailableBandModes", "sendEnvelope",
     "sendTerminalResponseToSim", "handleStkCallSetupRequestFromSim",
     "explicitCallTransfer", "setPreferredNetworkType", "getPreferredNetworkType",
     "getNeighboringCids", "setLocationUpdates", "setCdmaSubscriptionSource",
     "setCdmaRoamingPreference", "getCdmaRoamingPreference", "setTTYMode", "getTTYMode",
     "setPreferredVoicePrivacy", "getPreferredVoicePrivacy", "sendCDMAFeatureCode",
     "sendBurstDtmf", "sendCdmaSms", "acknowledgeLastIncomingCdmaSms",
     "getGsmBroadcastConfig", "setGsmBroadcastConfig", "setGsmBroadcastActivation",
     "getCdmaBroadcastConfig", "setCdmaBroadcastConfig", "setCdmaBroadcastActivation",
     "getCDMASubscription", "writeSmsToRuim", "deleteSmsOnRuim", "getDeviceIdentity",
     "exitEmergencyCallbackMode"}

SmscToCarrierRequests ==
    {"getSmscAddress", "setSmscAddress", "reportSmsMemoryStatus",
     "reportStkServiceIsRunning", "getCdmaSubscriptionSource",
     "requestIsimAuthentication", "acknowledgeIncomingGsmSmsWithPdu",
     "sendEnvelopeWithStatus", "getVoiceRadioTechnology", "getCellInfoList",
     "setCellInfoListRate", "setInitialAttachApn", "getImsRegistrationState",
     "sendImsSms", "iccTransmitApduBasicChannel", "iccOpenLogicalChannel",
     "iccCloseLogicalChannel", "iccTransmitApduLogicalChannel", "nvReadItem",
     "nvWriteItem", "nvWriteCdmaPrl", "nvResetConfig", "setUiccSubscription",
     "setDataAllowed", "getHardwareConfig", "requestIccSimAuthentication",
     "setDataProfile", "requestShutdown", "getRadioCapability", "setRadioCapability",
     "startLceService", "stopLceService", "pullLceData", "getModemActivityInfo",
     "setAllowedCarriers", "getAllowedCarriers"}

StateRequests == {"sendDeviceState", "setIndicationFilter", "setSimCardPower"}

PlainRequests ==
    {Request(n, 0) : n \in CardAndCallRequests \cup DataAndServiceRequests
                           \cup NetworkAndCdmaRequests \cup SmscToCarrierRequests
                           \cup StateRequests}

\* Forwarded when the modem has their version and otherwise dropped ("TODO implement").
Requests_1_1 == {Request(n, 1) : n \in {"setCarrierInfoForImsiEncryption", "startNetworkScan",
                                        "stopNetworkScan", "startKeepalive", "stopKeepalive"}}
Requests_1_2 == {Request(n, 2) : n \in {"startNetworkScan", "setSignalStrengthReportingCriteria",
                                        "setLinkCapacityReportingCriteria", "setupDataCall"}}
Requests_1_3 == {Request(n, 3) : n \in {"setSystemSelectionChannels", "enableModem",
                                        "getModemStackStatus"}}
emergencyDial == Request("emergencyDial", 4)

\* Those that have a substitute in older versions.
WithSubstitute ==
    {Request("setSimCardPower", 1), Request("setIndicationFilter", 2),
     Request("deactivateDataCall", 2), Request("setupDataCall", 4),
     Request("setInitialAttachApn", 4), Request("setDataProfile", 4),
     Request("startNetworkScan", 4), Request("getPreferredNetworkType", 4),
     Request("setPreferredNetworkType", 4), Request("setAllowedCarriers", 4),
     Request("getAllowedCarriers", 4), Request("getSignalStrength", 4)}

AllRequests == PlainRequests \cup Requests_1_1 \cup Requests_1_2 \cup Requests_1_3
               \cup {emergencyDial} \cup WithSubstitute
-----------------------------------------------------------------------------
\* The preferred network type: a set of radio access families in version 4, one of a
\* fixed list of combinations before.

GSMBITS == {"GSM", "GPRS", "EDGE"}
CDMABITS == {"IS95A", "IS95B", "ONE_X_RTT"}
EVDOBITS == {"EVDO_0", "EVDO_A", "EVDO_B", "EHRPD"}
WCDMABITS == {"HSUPA", "HSDPA", "HSPA", "HSPAP", "UMTS"}
LTEBITS == {"LTE", "LTE_CA"}
TDSCDMABIT == {"TD_SCDMA"}

\* One family of a group stands for all of the group.
Completed(bitmap) ==
    bitmap \cup UNION {g \in {GSMBITS, CDMABITS, EVDOBITS, WCDMABITS, LTEBITS} :
                          bitmap \cap g # {}}

\* The cases of the switch in setPreferredNetworkTypeBitmap.
NetworkTypeCases ==
    {<<"GSM_WCDMA_AUTO", {GSMBITS, WCDMABITS}>>,
     <<"GSM_ONLY", {GSMBITS}>>,
     <<"WCDMA", {WCDMABITS}>>,
     <<"CDMA_EVDO_AUTO", {CDMABITS, EVDOBITS}>>,
     <<"CDMA_ONLY", {CDMABITS}>>,
     <<"EVDO_ONLY", {EVDOBITS}>>,
     <<"GSM_WCDMA_CDMA_EVDO_AUTO", {GSMBITS, WCDMABITS, CDMABITS, EVDOBITS}>>,
     <<"LTE_CDMA_EVDO", {LTEBITS, CDMABITS, EVDOBITS}>>,
     <<"LTE_GSM_WCDMA", {LTEBITS, GSMBITS, WCDMABITS}>>,
     <<"LTE_CMDA_EVDO_GSM_WCDMA", {LTEBITS, CDMABITS, EVDOBITS, GSMBITS, WCDMABITS}>>,
     <<"LTE_ONLY", {LTEBITS}>>,
     <<"LTE_WCDMA", {LTEBITS, WCDMABITS}>>,
     <<"TD_SCDMA_ONLY", {TDSCDMABIT}>>,
     <<"TD_SCDMA_WCDMA", {TDSCDMABIT, WCDMABITS}>>,
     <<"TD_SCDMA_LTE", {TDSCDMABIT, LTEBITS}>>,
     <<"TD_SCDMA_GSM", {TDSCDMABIT, GSMBITS}>>,
     <<"TD_SCDMA_GSM_LTE", {TDSCDMABIT, GSMBITS, LTEBITS}>>,
     <<"TD_SCDMA_GSM_WCDMA", {TDSCDMABIT, GSMBITS, WCDMABITS}>>,
     <<"TD_SCDMA_WCDMA_LTE", {TDSCDMABIT, WCDMABITS, LTEBITS}>>,
     <<"TD_SCDMA_GSM_WCDMA_LTE", {TDSCDMABIT, GSMBITS, WCDMABITS, LTEBITS}>>,
     <<"TD_SCDMA_GSM_WCDMA_CDMA_EVDO_AUTO",
       {TDSCDMABIT, GSMBITS, WCDMABITS, CDMABITS, EVDOBITS}>>,
     <<"TD_SCDMA_LTE_CDMA_EVDO_GSM_WCDMA",
       {TDSCDMABIT, LTEBITS, CDMABITS, EVDOBITS, GSMBITS, WCDMABITS}>>}

\* Mutation of setPreferredNetworkTypeBitmap: the groups are not completed.
IncompleteBitmap(bitmap) ==
    LET cases == {c \in NetworkTypeCases : UNION c[2] = bitmap}
    IN  IF cases = {} THEN "LTE_CMDA_EVDO_GSM_WCDMA" ELSE (CHOOSE c \in cases : TRUE)[1]

setPreferredNetworkTypeBitmap(bitmap) ==
    LET cases == {c \in NetworkTypeCases : UNION c[2] = Completed(bitmap)}
    IN  IF cases = {} THEN "LTE_CMDA_EVDO_GSM_WCDMA" ELSE (CHOOSE c \in cases : TRUE)[1]
-----------------------------------------------------------------------------

\* setAllowedCarriers_1_4: lists without exclusion or priority fit version 0.
AllCarriersAllowed(c) == c.allowed = {} /\ c.excluded = {} /\ ~c.prioritized

CarriersSupported(c) ==
    (AllCarriersAllowed(c) \/ (c.excluded = {} /\ c.prioritized)) /\ ~c.multiSim

setAllowedCarriers(c) == [all |-> AllCarriersAllowed(c), allowed |-> c.allowed, excluded |-> {}]
-----------------------------------------------------------------------------
\* Mutation of Substitute: nothing stands in for newer requests.
NoSubstitute(r, arg, m) == NoRequest

Substitute(r, arg, m) ==
    CASE r.name = "setSimCardPower" -> IF arg # "pass_through" THEN Request(r.name, 0) ELSE NoRequest
      [] r.name = "setupDataCall" -> Request(r.name, IF m >= 2 THEN 2 ELSE 0)
      [] r.name = "setDataProfile" -> IF arg = "persistent" THEN Request(r.name, 0) ELSE NoRequest
      [] r.name = "startNetworkScan" -> IF m >= 2 THEN Request(r.name, 2)
                                        ELSE IF m = 1 THEN Request(r.name, 1) ELSE NoRequest
      [] r.name = "setAllowedCarriers" -> IF CarriersSupported(arg) THEN Request(r.name, 0)
                                          ELSE NoRequest
      [] OTHER -> Request(r.name, 0)

\* The modem's method that a request leads to.
Routed(r, arg, m) ==
    CASE r.minor <= m -> r
      [] r.minor > m /\ r \in WithSubstitute -> Substitute(r, arg, m)
      [] OTHER -> NoRequest

\* The argument it is given.
Passed(r, arg, m) ==
    CASE r.minor > m /\ r.name = "setPreferredNetworkType" -> setPreferredNetworkTypeBitmap(arg)
      [] r.minor > m /\ r.name = "setAllowedCarriers" -> setAllowedCarriers(arg)
      [] OTHER -> arg
=============================================================================
