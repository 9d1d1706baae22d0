------------------------------- MODULE Lights -------------------------------
(***************************************************************************)
(* The lights service: which devices there are, the last state set for     *)
(* each light, and the one notification LED that five lights share.  The   *)
(* service has one thread.                                                 *)
(***************************************************************************)
EXTENDS LightDevices

CONSTANTS
  Phones,       \* records: leds (a function from names to LEDs), backlights
                \* (a function from names to max_brightness), and BOOLEANs: sync (there
                \* is a node rgb_blink), scans and snap (how the service was built)
  LightStates,  \* the states the framework asks for: records color, effect, timing
  MaxFailed,    \* updates of the notification LED in a row in which a write fails
  FailingLights \* lights on it in whose updates one may fail

VARIABLES
  phone, mLast, ledNodes, backlight,
  rgb_blink,    \* the node that starts the three LEDs of the first group together
  failed        \* the number of the last such updates in which a write failed

lightsVars == <<phone, mLast, ledNodes, backlight, rgb_blink, failed>>

\* The nodes that may fail in a call: none, or one of a LED or backlight, or rgb_blink.
LedNodeNames(led) ==
  {"brightness"} \cup (led.nodes \cap {"breath", "blink", "qcom"})
                 \cup IF "timer" \in led.nodes THEN {"trigger", "delays"} ELSE {}
Failures ==
  {{}} \cup UNION {{{<<l, n>>} : n \in LedNodeNames(phone.leds[l])} : l \in DOMAIN phone.leds}
       \cup {{<<b, "brightness">>} : b \in DOMAIN phone.backlights}
       \cup IF phone.sync THEN {{<<"rgb", "rgb_blink">>}} ELSE {}
Bad(broken, device) == {n \in {p[2] : p \in broken} : <<device, n>> \in broken}

----------------------------------------------------------------------------
(* Devices.                                                                *)

kBacklightDevices == {"backlight", "panel0-backlight", "panel0-backlight-ex", "sprd_backlight"}
kLedBacklightDevices == {"lcd-backlight", "lcd-backlight-ex", "lcd_backlight0"}
kButtonLedDevices == {"button-backlight", "button-backlight1", "button-backlight2"}
kKeyboardLedDevices == {"keyboard-backlight"}
kNotificationLedDevices == {"charging", "left", "white", "white:indicator", "white:status"}
kRgbLedDevices == {[red |-> "red", green |-> "green", blue |-> "blue"],
                   [red |-> "red:indicator", green |-> "green:indicator", blue |-> "blue:indicator"],
                   [red |-> "red:status", green |-> "green:status", blue |-> "blue:status"]}

\* A device is kept when its brightness node is there.
Found(names) == names \cap DOMAIN phone.leds

getBacklightDevices ==
  LET known == kBacklightDevices \cap DOMAIN phone.backlights
  IN IF known = {} /\ phone.scans THEN DOMAIN phone.backlights ELSE known

\* The colors of an RGB device that have a LED.
Roles(names) == {c \in DOMAIN names : names[c] \in DOMAIN phone.leds}

getNotificationRgbLedDevices == {names \in kRgbLedDevices : Roles(names) # {}}

hasBacklightDevices == getBacklightDevices # {} \/ Found(kLedBacklightDevices) # {}
hasNotificationDevices ==
  getNotificationRgbLedDevices # {} \/ Found(kNotificationLedDevices) # {}

\* setBacklightState's LEDs, setButtonsState, setKeyboardState and the last
\* loop of setNotificationState.  What setState returns is not looked at.
SetLeds(names, state, nodes, broken) ==
  [l \in DOMAIN nodes |-> IF l \in names THEN LedSetState(phone.leds[l], state, nodes[l], Bad(broken, l))
                                         ELSE nodes[l]]

RgbLeds(names) == [c \in Roles(names) |-> phone.leds[names[c]]]

\* The groups have no LED in common.
SetRgb(state, nodes, broken) ==
  [l \in DOMAIN nodes |->
     IF \E names \in kRgbLedDevices : l \in Range(names)
     THEN LET names == CHOOSE n \in kRgbLedDevices : l \in Range(n)
              c == CHOOSE d \in DOMAIN names : names[d] = l
          IN RgbSetState(RgbLeds(names), c, state, phone.snap, nodes[l], Bad(broken, l))
     ELSE nodes[l]]

\* The group with a sync node blinks: rgb_blink is 0 while its LEDs are set, then 1.
SyncGroup == [red |-> "red", green |-> "green", blue |-> "blue"]
Synced(state) ==
  /\ phone.sync /\ SyncGroup \in getNotificationRgbLedDevices
  /\ ModeFor(state.effect, RgbModes(RgbLeds(SyncGroup))) = "TIMED_QCOM"

setNotificationState(state, broken) ==
  /\ ledNodes' = SetLeds(Found(kNotificationLedDevices), state, SetRgb(state, ledNodes, broken), broken)
  /\ rgb_blink' = IF Synced(state) /\ Bad(broken, "rgb") = {} THEN 1 ELSE rgb_blink

----------------------------------------------------------------------------
(* Lights.                                                                 *)

SharedLights == {"CAMERA", "MICROPHONE", "NOTIFICATIONS", "ATTENTION", "BATTERY"}

LightsInit ==
  /\ phone \in Phones
  /\ mLast = [l \in SharedLights |-> NoState]
  /\ ledNodes = [l \in DOMAIN phone.leds |-> NodesOff]
  /\ backlight = [b \in DOMAIN phone.backlights |-> 0]
  /\ rgb_blink = 0 /\ failed = 0

\* updateNotificationColor's choice among the states.
FirstLit(last) ==
  IF isLit(last["CAMERA"]) THEN last["CAMERA"]
  ELSE IF isLit(last["MICROPHONE"]) THEN last["MICROPHONE"]
  ELSE IF isLit(last["NOTIFICATIONS"]) THEN last["NOTIFICATIONS"]
  ELSE IF isLit(last["ATTENTION"]) THEN last["ATTENTION"]
  ELSE IF isLit(last["BATTERY"]) THEN last["BATTERY"]
  ELSE NoState

\* setLightState for a light on the notification LED.  The camera's and the
\* microphone's are accepted without one.
setNotificationLight(light, state) ==
  \E broken \in IF failed < MaxFailed /\ light \in FailingLights THEN Failures ELSE {{}} :
    /\ hasNotificationDevices \/ light \in {"CAMERA", "MICROPHONE"}
    /\ mLast' = [mLast EXCEPT ![light] = state]
    /\ setNotificationState(FirstLit(mLast'), broken)
    /\ failed' = IF broken = {} THEN 0 ELSE failed + 1
    /\ UNCHANGED <<phone, backlight>>

\* ... and for one with devices of its own.
setBacklight(state) ==
  \E broken \in Failures :
    /\ hasBacklightDevices
    /\ backlight' = [b \in DOMAIN backlight |->
         IF b \in getBacklightDevices /\ Bad(broken, b) = {}
         THEN scaleBrightness(toBrightness(state.color), phone.backlights[b]) ELSE backlight[b]]
    /\ ledNodes' = SetLeds(Found(kLedBacklightDevices), state, ledNodes, broken)
    /\ UNCHANGED <<phone, mLast, rgb_blink, failed>>

setKeys(names, state) ==
  \E broken \in Failures :
    /\ Found(names) # {}
    /\ ledNodes' = SetLeds(Found(names), state, ledNodes, broken)
    /\ UNCHANGED <<phone, mLast, backlight, rgb_blink, failed>>

LightsNext ==
  \E state \in LightStates :
    \/ \E light \in SharedLights : setNotificationLight(light, state)
    \/ setBacklight(state)
    \/ setKeys(kButtonLedDevices, state)
    \/ setKeys(kKeyboardLedDevices, state)

LightsSpec == LightsInit /\ [][LightsNext]_lightsVars

----------------------------------------------------------------------------
\* What the nodes of a LED hold when it shows a value in a mode and nothing else.
Shows(led, nodes, value, mode, timing) ==
  LET on(b) == IF value > 0 /\ b THEN 1 ELSE 0
      breathes(node) == mode = "BREATH" /\ mBreathNode(led) = node
  IN /\ nodes.brightness = IF mode \in {"STATIC", "BREATH"} THEN scaleBrightness(value, led.max) ELSE 0
     /\ nodes.trigger = IF value > 0 /\ mode = "TIMED_UPSTREAM" THEN "timer" ELSE "none"
     /\ nodes.trigger = "timer" => nodes.delays = timing
     /\ nodes.breath = on(breathes("breath"))
     /\ nodes.blink = on(breathes("blink") \/ mode = "TIMED_QCOM")
     /\ value > 0 /\ mode = "TIMED_QCOM" => nodes.qcom = <<value, timing>>

\* A light that is lit is never hidden by one of a lower place, in the order
\* of Chosen: camera, microphone, notifications, attention, battery.
Order == <<"CAMERA", "MICROPHONE", "NOTIFICATIONS", "ATTENTION", "BATTERY">>
Chosen == IF \A i \in 1 .. 5 : ~ isLit(mLast[Order[i]]) THEN NoState
          ELSE mLast[Order[CHOOSE i \in 1 .. 5 : /\ isLit(mLast[Order[i]])
                                                 /\ \A j \in 1 .. i - 1 : ~ isLit(mLast[Order[j]])]]

\* After an update in which no write failed each notification LED shows what the
\* first lit of the five lights asks of it, in its timing, and nothing that is left
\* over, however the lights were set before (blinking by the Qualcomm nodes, by the
\* kernel's timer, breathing, steady) and whatever an update before it left half done;
\* a group that blinks by the Qualcomm nodes was started together.
LedShowsFirstLit ==
  failed = 0 =>
    /\ \A l \in Found(kNotificationLedDevices) :
         LET led == phone.leds[l]
         IN Shows(led, ledNodes[l], toBrightness(Chosen.color),
                  ModeFor(Chosen.effect, LedModes(led)), Chosen.timing)
    /\ \A names \in getNotificationRgbLedDevices :
         LET rgb == RgbLeds(names)
         IN \A c \in Roles(names) :
              Shows(rgb[c], ledNodes[names[c]], RgbValue(rgb, Chosen.color, c, phone.snap),
                    ModeFor(Chosen.effect, RgbModes(rgb)), Chosen.timing)
    /\ Synced(Chosen) => rgb_blink = 1
=============================================================================
