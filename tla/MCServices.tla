----------------------------- MODULE MCServices -----------------------------
(***************************************************************************)
(* Seven modules that share no state: a behaviour is one of any of them,   *)
(* and the others rest in one of their first states.                       *)
(***************************************************************************)
EXTENDS TouchMerger, TouchInjector, Radio, CameraDeviceSession, ResultBatcher,
        CameraProvider, Lights

VARIABLE service

----------------------------------------------------------------------------
(* Radio: every request on its own and every indication; setting and       *)
(* reading the network type and the carriers; and data calls while the     *)
(* registration changes.  The bitmaps are whole groups of families, one    *)
(* family of one or two groups, and a family no group has.                 *)

BitGroups == {GSMBITS, CDMABITS, EVDOBITS, WCDMABITS, LTEBITS, TDSCDMABIT}
MCBitmaps == {UNION s : s \in SUBSET BitGroups}
             \cup {{CHOOSE b \in g : TRUE : g \in s} : s \in {{a, b} : a, b \in BitGroups}}
             \cup {LTEBITS \cup {"NR"}}

BothVersions(n) == {Request(n, 0), Request(n, 4)}
NetworkType == BothVersions("setPreferredNetworkType") \cup BothVersions("getPreferredNetworkType")
AllowedCarriers == BothVersions("setAllowedCarriers") \cup BothVersions("getAllowedCarriers")

MCConversations ==
  {[requests |-> AllRequests \ (NetworkType \cup AllowedCarriers), max |-> 1, moves |-> FALSE],
   [requests |-> {}, max |-> 0, moves |-> FALSE],
   [requests |-> NetworkType \ {Request("setPreferredNetworkType", 4)}, max |-> 2, moves |-> FALSE],
   [requests |-> {r \in NetworkType : r.minor = 4}, max |-> 2, moves |-> FALSE],
   [requests |-> AllowedCarriers, max |-> 2, moves |-> FALSE],
   [requests |-> {Request("setupDataCall", 4), Request("getDataRegistrationState", 0),
                  Request("setDataProfile", 4)}, max |-> 2, moves |-> TRUE]}

----------------------------------------------------------------------------
(* A camera with one or two streams, one of which changes its size.  Old   *)
(* devices get AE cancels, new ones null and physical settings; three      *)
(* configurations with a close or with flushes, one frame.                 *)

MCConfigurations == {(1 :> "a"), (1 :> "a" @@ 2 :> "a"), (1 :> "b" @@ 2 :> "a")}

OldCamera == [version3_2 |-> TRUE, aeLockAvailable |-> TRUE, derivePostRawSensKey |-> TRUE,
              freeBufEarly |-> TRUE, settings |-> {"plain", "cancel", "cancel_locked"},
              physical |-> {"none"}, frames |-> 2, configurations |-> 1, closes |-> FALSE, flushes |-> FALSE]
NewCamera == [version3_2 |-> FALSE, aeLockAvailable |-> FALSE, derivePostRawSensKey |-> FALSE,
              freeBufEarly |-> FALSE, settings |-> {"plain", "null"},
              physical |-> {"none"}, frames |-> 2, configurations |-> 2, closes |-> FALSE, flushes |-> FALSE]
MCUses ==
  {OldCamera, [OldCamera EXCEPT !.aeLockAvailable = FALSE, !.settings = {"plain", "cancel"}],
   NewCamera, [NewCamera EXCEPT !.configurations = 1, !.physical = {"none", "null", "corrupt"}]}
  \cup {[NewCamera EXCEPT !.freeBufEarly = b, !.settings = {"null"}, !.frames = 1,
           !.configurations = 3, !.closes = c, !.flushes = ~ c] : b, c \in BOOLEAN}

MCRemapIds == <<{}, {2}>>

----------------------------------------------------------------------------
(* Phones with one white LED of several kinds; with RGB LEDs, of which a   *)
(* color may be missing, that blink each in its own way or together; and   *)
(* with LEDs behind the keys and the screen.                               *)

Phone(leds, backlights) ==
  [leds |-> leds, backlights |-> backlights, sync |-> FALSE, scans |-> TRUE, snap |-> FALSE]

Qualcomm == [nodes |-> {"blink", "qcom"}, max |-> 255]

MCPhones ==
  {Phone(("white" :> [nodes |-> n, max |-> 255]), <<>>) :
      n \in {{"timer", "breath"}, {"blink", "qcom", "timer"}}}
  \cup {[Phone([l \in s |-> IF l = "blue" THEN Qualcomm ELSE [nodes |-> {"blink", "timer"}, max |-> 255]],
               <<>>) EXCEPT !.scans = FALSE] : s \in {{"red"}, {"red", "blue"}}}
  \cup {[Phone([l \in {"red", "green", "blue"} |-> Qualcomm], <<>>) EXCEPT !.sync = TRUE],
         [Phone([l \in {"red:status", "green:status", "blue:status"} |-> [nodes |-> {}, max |-> 100]],
                <<>>) EXCEPT !.snap = TRUE]}
  \cup {Phone([l \in {"button-backlight", "keyboard-backlight", "lcd-backlight"} |->
                 [nodes |-> {}, max |-> 1]], (b :> 1023)) : b \in {"backlight", "foo"}}

MCLightStates ==
  {NoState, [color |-> Color(128, 255, 255, 255), effect |-> "TIMED", timing |-> 1],
   [color |-> Color(255, 255, 60, 0), effect |-> "TIMED", timing |-> 2],
   [color |-> Color(255, 0, 0, 255), effect |-> "FIXED", timing |-> 0],
   [color |-> Color(0, 0, 0, 3), effect |-> "HARDWARE", timing |-> 0]}

\* At most two of the lights that share the notification LED are on.
FewLights == Cardinality({l \in SharedLights : mLast[l] # NoState}) <= 2

----------------------------------------------------------------------------
serviceVars == <<service, mergerVars, injectorVars, radioVars, sessionVars, batcherVars,
                 providerVars, lightsVars>>

ServicesInit ==
  /\ service \in {"merger", "injector", "radio", "session", "batcher", "provider", "lights"}
  /\ MergerInit /\ InjectorInit /\ ProviderInit /\ BatcherInit
  /\ RadioInit /\ SessionInit /\ LightsInit
  /\ service # "radio" => minor = 0 /\ conversation.requests = {}
  /\ service # "session" => device = OldCamera
  /\ service # "lights" => phone = (CHOOSE p \in MCPhones : DOMAIN p.leds = {"white"})

ServicesNext ==
  /\ UNCHANGED service
  /\ \/ /\ service = "merger" /\ MergerNext
        /\ UNCHANGED <<batcherVars, injectorVars, radioVars, sessionVars, providerVars, lightsVars>>
     \/ /\ service = "injector" /\ InjectorNext
        /\ UNCHANGED <<batcherVars, mergerVars, radioVars, sessionVars, providerVars, lightsVars>>
     \/ /\ service = "radio" /\ RadioNext
        /\ UNCHANGED <<batcherVars, mergerVars, injectorVars, sessionVars, providerVars, lightsVars>>
     \/ /\ service = "session" /\ SessionNext
        /\ UNCHANGED <<batcherVars, mergerVars, injectorVars, radioVars, providerVars, lightsVars>>
     \/ /\ service = "provider" /\ ProviderNext
        /\ UNCHANGED <<batcherVars, mergerVars, injectorVars, radioVars, sessionVars, lightsVars>>
     \/ /\ service = "batcher" /\ BatcherNext
        /\ UNCHANGED <<mergerVars, injectorVars, radioVars, sessionVars, providerVars, lightsVars>>
     \/ /\ service = "lights" /\ LightsNext /\ FewLights'
        /\ UNCHANGED <<batcherVars, mergerVars, injectorVars, radioVars, sessionVars, providerVars>>

ServicesSpec == ServicesInit /\ [][ServicesNext]_serviceVars
=============================================================================
