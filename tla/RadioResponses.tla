--------------------------- MODULE RadioResponses --------------------------
(***************************************************************************)
(* What the radio wrapper makes of the modem's responses and indications   *)
(* (radio/1.4/legacy/RadioResponse.cpp, RadioIndication.cpp).  A response  *)
(* is its name without "Response" and version suffix and its version; the  *)
(* contents that conversions copy field by field are left out.             *)
(***************************************************************************)
EXTENDS RadioRequests

\* Responses forwarded as they are, in the order of the source.

CardAndCallResponses ==
    {"supplyIccPinForApp", "supplyIccPukForApp", "supplyIccPin2ForApp",
     "supplyIccPuk2ForApp", "changeIccPinForApp", "changeIccPin2ForApp",
     "supplyNetworkDepersonalization", "dial", "getIMSIForApp", "hangupConnection",
     "hangupWaitingOrBackground", "hangupForegroundResumeBackground",
     "switchWaitingOrHoldingAndActive", "conference", "rejectCall",
     "getLastCallFailCause"}

DataAndServiceResponses ==
    {"getOperator", "setRadioPower", "sendDtmf", "sendSms", "sendSMSExpectMore",
     "iccIOForApp", "sendUssd", "cancelPendingUssd", "getClir", "setClir",
     "getCallForwardStatus", "setCallForward", "getCallWaiting", "setCallWaiting",
     "acknowledgeLastIncomingGsmSms", "acceptCall", "deactivateDataCall",
     "getFacilityLockForApp", "setFacilityLockForApp", "setBarringPassword",
     "getNetworkSelectionMode", "setNetworkSelectionModeAutomatic",
     "setNetworkSelectionModeManual", "getAvailableNetworks", "startDtmf", "stopDtmf",
     "getBasebandVersion", "separateConnection", "setMute", "getMute", "getClip"}

SimAndStkResponses ==
    {"setSuppServiceNotifications", "writeSmsToSim", "deleteSmsOnSim", "setBandMode",
     "getAvailableBandModes", "sendEnvelope", "sendTerminalResponseToSim",
     "handleStkCallSetupRequestFromSim", "explicitCallTransfer"}

CdmaResponses ==
    {"getNeighboringCids", "setLocationUpdates",
     "setCdmaSubscriptionSource", "setCdmaRoamingPreference", "getCdmaRoamingPreference",
     "setTTYMode", "getTTYMode", "setPreferredVoicePrivacy", "getPreferredVoicePrivacy",
     "sendCDMAFeatureCode", "sendBurstDtmf", "sendCdmaSms",
     "acknowledgeLastIncomingCdmaSms", "getGsmBroadcastConfig", "setGsmBroadcastConfig",
     "setGsmBroadcastActivation", "getCdmaBroadcastConfig", "setCdmaBroadcastConfig",
     "setCdmaBroadcastActivation", "getCDMASubscription", "writeSmsToRuim",
     "deleteSmsOnRuim", "getDeviceIdentity", "exitEmergencyCallbackMode",
     "getSmscAddress", "setSmscAddress", "reportSmsMemoryStatus",
     "reportStkServiceIsRunning", "getCdmaSubscriptionSource",
     "requestIsimAuthentication", "acknowledgeIncomingGsmSmsWithPdu",
     "sendEnvelopeWithStatus"}

ImsToCarrierResponses ==
    {"getVoiceRadioTechnology", "setCellInfoListRate", "setInitialAttachApn",
     "getImsRegistrationState", "sendImsSms", "iccTransmitApduBasicChannel",
     "iccOpenLogicalChannel", "iccCloseLogicalChannel", "iccTransmitApduLogicalChannel",
     "nvReadItem", "nvWriteItem", "nvWriteCdmaPrl", "nvResetConfig",
     "setUiccSubscription", "setDataAllowed", "getHardwareConfig",
     "requestIccSimAuthentication", "setDataProfile", "requestShutdown",
     "getRadioCapability", "setRadioCapability", "startLceService", "stopLceService",
     "pullLceData", "getModemActivityInfo", "sendDeviceState", "setIndicationFilter"}

Responses_1_1 == {"setCarrierInfoForImsiEncryption", "setSimCardPower", "stopNetworkScan",
                  "startKeepalive", "stopKeepalive"}
Responses_1_2 == {"setSignalStrengthReportingCriteria", "setLinkCapacityReportingCriteria",
                  "getCurrentCalls", "getVoiceRegistrationState"}
Responses_1_3 == {"setSystemSelectionChannels", "enableModem", "getModemStackStatus"}
Responses_1_4 == {"emergencyDial", "startNetworkScan", "getCellInfoList",
                  "getDataRegistrationState", "getIccCardStatus", "getPreferredNetworkType",
                  "setPreferredNetworkType", "getDataCallList", "setupDataCall",
                  "setAllowedCarriers", "getAllowedCarriers", "getSignalStrength"}

\* Responses given to the client as a later version of them.
UpgradedResponses ==
    {<<"getIccCardStatus", 0, 4>>, <<"getCurrentCalls", 0, 2>>, <<"getSignalStrength", 0, 4>>,
     <<"getVoiceRegistrationState", 0, 2>>, <<"getDataRegistrationState", 0, 4>>,
     <<"setupDataCall", 0, 4>>, <<"getDataCallList", 0, 4>>,
     <<"setPreferredNetworkType", 0, 4>>, <<"getPreferredNetworkType", 0, 4>>,
     <<"getCellInfoList", 0, 4>>, <<"setAllowedCarriers", 0, 4>>,
     <<"getAllowedCarriers", 0, 4>>, <<"setSimCardPower", 0, 1>>, <<"startNetworkScan", 1, 4>>,
     <<"getCellInfoList", 2, 4>>, <<"getIccCardStatus", 2, 4>>, <<"getSignalStrength", 2, 4>>,
     <<"getDataRegistrationState", 2, 4>>}

ForwardedResponses ==
    {<<n, 0>> : n \in CardAndCallResponses \cup DataAndServiceResponses \cup SimAndStkResponses
                      \cup CdmaResponses \cup ImsToCarrierResponses}
    \cup {<<n, 1>> : n \in Responses_1_1} \cup {<<n, 2>> : n \in Responses_1_2}
    \cup {<<n, 3>> : n \in Responses_1_3} \cup {<<n, 4>> : n \in Responses_1_4}

Forwarded(n, v, upgraded) ==
    LET later == {u \in upgraded : u[1] = n /\ u[2] = v}
    IN  Request(n, IF later = {} THEN v ELSE (CHOOSE u \in later : TRUE)[3])

\* The client's method that a response of the modem is given to.
Response(n, v) ==
    IF <<n, v>> \in ForwardedResponses THEN Request(n, v)
    ELSE Forwarded(n, v, UpgradedResponses)
-----------------------------------------------------------------------------
\* The switch of getPreferredNetworkTypeResponse.
NetworkTypeBitmap(nwType) ==
    UNION
    CASE nwType \in {"GSM_WCDMA", "GSM_WCDMA_AUTO"} -> {GSMBITS, WCDMABITS}
      [] nwType = "GSM_ONLY" -> {GSMBITS}
      [] nwType = "WCDMA" -> {WCDMABITS}
      [] nwType = "CDMA_EVDO_AUTO" -> {CDMABITS, EVDOBITS}
      [] nwType = "CDMA_ONLY" -> {CDMABITS}
      [] nwType = "EVDO_ONLY" -> {EVDOBITS}
      [] nwType = "GSM_WCDMA_CDMA_EVDO_AUTO" -> {GSMBITS, WCDMABITS, CDMABITS, EVDOBITS}
      [] nwType = "LTE_CDMA_EVDO" -> {LTEBITS, CDMABITS, EVDOBITS}
      [] nwType = "LTE_GSM_WCDMA" -> {LTEBITS, GSMBITS, WCDMABITS}
      [] nwType = "LTE_CMDA_EVDO_GSM_WCDMA" -> {LTEBITS, CDMABITS, EVDOBITS, GSMBITS, WCDMABITS}
      [] nwType = "LTE_ONLY" -> {LTEBITS}
      [] nwType = "LTE_WCDMA" -> {LTEBITS, WCDMABITS}
      [] nwType = "TD_SCDMA_ONLY" -> {TDSCDMABIT}
      [] nwType = "TD_SCDMA_WCDMA" -> {TDSCDMABIT, WCDMABITS}
      [] nwType = "TD_SCDMA_LTE" -> {TDSCDMABIT, LTEBITS}
      [] nwType = "TD_SCDMA_GSM" -> {TDSCDMABIT, GSMBITS}
      [] nwType = "TD_SCDMA_GSM_LTE" -> {TDSCDMABIT, GSMBITS, LTEBITS}
      [] nwType = "TD_SCDMA_GSM_WCDMA" -> {TDSCDMABIT, GSMBITS, WCDMABITS}
      [] nwType = "TD_SCDMA_WCDMA_LTE" -> {TDSCDMABIT, WCDMABITS, LTEBITS}
      [] nwType = "TD_SCDMA_GSM_WCDMA_LTE" -> {TDSCDMABIT, GSMBITS, WCDMABITS, LTEBITS}
      [] nwType = "TD_SCDMA_GSM_WCDMA_CDMA_EVDO_AUTO" ->
            {TDSCDMABIT, GSMBITS, WCDMABITS, CDMABITS, EVDOBITS}
      [] nwType = "TD_SCDMA_LTE_CDMA_EVDO_GSM_WCDMA" ->
            {TDSCDMABIT, LTEBITS, CDMABITS, EVDOBITS, GSMBITS, WCDMABITS}

getAllowedCarriersResponse(c) ==
    IF c.all THEN [allowed |-> {}, excluded |-> {}, prioritized |-> FALSE]
    ELSE [allowed |-> c.allowed, excluded |-> c.excluded, prioritized |-> TRUE]

\* What the client is told with a response; only these two are looked at.
Told(n, v, value) ==
    CASE n = "getPreferredNetworkType" /\ v = 0 -> NetworkTypeBitmap(value)
      [] n = "getAllowedCarriers" /\ v = 0 -> getAllowedCarriersResponse(value)
      [] OTHER -> value
-----------------------------------------------------------------------------
EarlyIndications ==
    {"radioStateChanged", "callStateChanged", "networkStateChanged", "newSms",
     "newSmsStatusReport", "newSmsOnSim", "onUssd", "nitzTimeReceived", "suppSvcNotify",
     "stkSessionEnd", "stkProactiveCommand", "stkEventNotify", "stkCallSetup",
     "simSmsStorageFull", "simRefresh", "callRing", "simStatusChanged", "cdmaNewSms",
     "newBroadcastSms", "cdmaRuimSmsStorageFull", "restrictedStateChanged",
     "enterEmergencyCallbackMode", "cdmaCallWaiting", "cdmaOtaProvisionStatus",
     "cdmaInfoRec", "indicateRingbackTone", "resendIncallMute",
     "cdmaSubscriptionSourceChanged", "cdmaPrlChanged", "exitEmergencyCallbackMode"}

LateIndications ==
    {"rilConnected", "voiceRadioTechChanged", "imsNetworkStateChanged",
     "subscriptionStatusChanged", "srvccStateNotify", "hardwareConfigChanged",
     "radioCapabilityIndication", "onSupplementaryServiceIndication",
     "stkCallControlAlphaNotify", "lceData", "pcoData", "modemReset"}

UpgradedIndications ==
    {<<"currentSignalStrength", 0, 4>>, <<"dataCallListChanged", 0, 4>>,
     <<"cellInfoList", 0, 4>>, <<"networkScanResult", 1, 4>>, <<"networkScanResult", 2, 4>>,
     <<"cellInfoList", 2, 4>>, <<"currentPhysicalChannelConfigs", 2, 4>>,
     <<"currentSignalStrength", 2, 4>>}

LaterIndications ==
    {<<"carrierInfoForImsiEncryption", 1>>, <<"keepaliveStatus", 1>>,
     <<"currentLinkCapacityEstimate", 2>>, <<"currentEmergencyNumberList", 4>>,
     <<"cellInfoList", 4>>, <<"networkScanResult", 4>>, <<"currentPhysicalChannelConfigs", 4>>,
     <<"dataCallListChanged", 4>>, <<"currentSignalStrength", 4>>}

\* The modem's indications, and the client's method that each is given to.
Indications ==
    {<<n, 0>> : n \in EarlyIndications \cup LateIndications} \cup LaterIndications
    \cup {<<u[1], u[2]>> : u \in UpgradedIndications}

Indication(n, v) == Forwarded(n, v, UpgradedIndications)
=============================================================================
