---------------------------- MODULE LightDevices ----------------------------
(***************************************************************************)
(* The devices of the lights service: colors, single LEDs, RGB groups of   *)
(* LEDs and backlights, as functions on the sysfs nodes they write.        *)
(*                                                                         *)
(* A LED is known by the set of nodes in its directory ("qcom" stands for  *)
(* the five nodes that come with blink on a Qualcomm LED, "timer" for a    *)
(* trigger node that offers the timer) and by its max_brightness.  The     *)
(* content of the five is the value and the timing they were made from.    *)
(* A write may fail: bad is the set of nodes whose writes fail in a call.  *)
(***************************************************************************)
EXTENDS Integers, FiniteSets, Functions

\* The color of an AARRGGBB value, its alpha applied.
Color(alpha, red, green, blue) ==
  LET scaled(c) == IF alpha > 0 /\ alpha < 255 THEN (c * alpha) \div 255 ELSE c
  IN [red |-> scaled(red), green |-> scaled(green), blue |-> scaled(blue)]

isLit(state) == \E c \in {"red", "green", "blue"} : state.color[c] # 0

toBrightness(color) == (77 * color.red + 150 * color.green + 29 * color.blue) \div 256

scaleBrightness(brightness, maxBrightness) == (brightness * maxBrightness) \div 255

\* State(): black, fixed.  The timing stands for the two durations of TIMED.
NoState == [color |-> Color(255, 0, 0, 0), effect |-> "FIXED", timing |-> 0]

----------------------------------------------------------------------------
(* LedDevice.                                                              *)

\* What the constructor finds: the node that breathes, and the modes.
mBreathNode(led) == IF "breath" \in led.nodes THEN "breath" ELSE "blink"

Modes == {"STATIC", "BREATH", "TIMED_UPSTREAM", "TIMED_QCOM"}

supportsMode(led, mode) ==
  CASE mode = "STATIC" -> TRUE
    [] mode = "BREATH" -> led.nodes \cap {"breath", "blink"} # {}
    [] mode = "TIMED_UPSTREAM" -> "timer" \in led.nodes
    [] mode = "TIMED_QCOM" -> {"blink", "qcom"} \subseteq led.nodes

\* The mode setState falls back to, for a device that supports these modes.
ModeFor(effect, modes) ==
  LET breath == IF "BREATH" \in modes THEN "BREATH" ELSE "STATIC"
  IN CASE effect = "FIXED" -> "STATIC"
       [] effect = "HARDWARE" -> breath
       [] effect = "TIMED" -> IF "TIMED_QCOM" \in modes THEN "TIMED_QCOM"
                              ELSE IF "TIMED_UPSTREAM" \in modes THEN "TIMED_UPSTREAM"
                              ELSE breath

\* delays: the timing in delay_on and delay_off, 0 for the kernel's default; qcom: the
\* value and the timing.  -1 where only some of the nodes were written.
NodesOff == [brightness |-> 0, trigger |-> "none", delays |-> 0, breath |-> 0, blink |-> 0,
             qcom |-> <<0, 0>>]

\* A write to a node.  The kernel drops the trigger of a LED whose brightness is set
\* to 0, and starts the timer with delays of its own.
writeToFile(bad, nodes, node, content) ==
  LET written == [nodes EXCEPT ![node] = content]
  IN IF node \in bad THEN nodes
     ELSE IF node = "brightness" /\ content = 0 THEN [written EXCEPT !.trigger = "none"]
     ELSE IF node = "trigger" /\ content = "timer" THEN [written EXCEPT !.delays = 0]
     ELSE written

\* Mutation of StopOthers: the kernel's timer is left running.
StopOthersNotTimer(led, mode, nodes, bad) ==
  IF mode # "TIMED_QCOM" /\ supportsMode(led, "TIMED_QCOM")
  THEN writeToFile(bad, nodes, "blink", 0) ELSE nodes

\* "Disable current blinking", in the order of the code; no failure ends it.
StopOthers(led, mode, nodes, bad) ==
  LET off(m) == mode # m /\ supportsMode(led, m)
      write(n, node, content) == writeToFile(bad, n, node, content)
      qcom == IF off("TIMED_QCOM") THEN write(nodes, "blink", 0) ELSE nodes
      upstream == IF off("TIMED_UPSTREAM") THEN write(qcom, "trigger", "none") ELSE qcom
      breath == IF off("BREATH")
                THEN write(write(upstream, "brightness", 0), mBreathNode(led), 0) ELSE upstream
  IN IF off("STATIC") THEN write(breath, "brightness", 0) ELSE breath

\* A write that fails is the last.  The delays are tried 20 times.
setBrightness(led, value, mode, timing, nodes, bad) ==
  LET stopped == StopOthers(led, mode, nodes, bad)
      write(n, node, content) == writeToFile(bad, n, node, content)
      bright == write(stopped, "brightness", scaleBrightness(value, led.max))
      on == IF value > 0 THEN 1 ELSE 0
  IN CASE mode = "TIMED_QCOM" ->
            IF "qcom" \in bad THEN [stopped EXCEPT !.qcom = <<-1, -1>>]
            ELSE write(write(stopped, "qcom", <<value, timing>>), "blink", on)
       [] mode = "TIMED_UPSTREAM" ->
            IF value = 0 THEN write(stopped, "trigger", "none")
            ELSE IF "trigger" \in bad THEN stopped
            ELSE [write(stopped, "trigger", "timer") EXCEPT
                    !.delays = IF "delays" \in bad THEN -1 ELSE timing]
       [] mode = "BREATH" ->
            IF "brightness" \in bad THEN stopped ELSE write(bright, mBreathNode(led), on)
       [] mode = "STATIC" -> bright

LedModes(led) == {m \in Modes : supportsMode(led, m)}

\* LedDevice::setState.
LedSetState(led, state, nodes, bad) ==
  setBrightness(led, toBrightness(state.color), ModeFor(state.effect, LedModes(led)),
                state.timing, nodes, bad)

----------------------------------------------------------------------------
(* RgbLedDevice: a function from the colors whose LED exists to the LEDs.  *)

\* supportsMode: every LED there is does.
RgbSupportsMode(rgb, mode) == \A c \in DOMAIN rgb : supportsMode(rgb[c], mode)

RgbModes(rgb) == {m \in Modes : RgbSupportsMode(rgb, m)}

\* SNAP_RGB_TO_PURE: a component is full or nothing.
Snapped(color, c) ==
  LET full == \A d \in {"red", "green", "blue"} : color[c] * 2 >= color[d]
  IN IF full /\ \E d \in {"red", "green", "blue"} : color[d] > 0 THEN 255 ELSE 0

\* The value for one LED of the group: its own color with all three, the
\* brightness with one, and half the missing color added with two.
RgbValue(rgb, color, c, snap) ==
  LET missing == CHOOSE d \in {"red", "green", "blue"} : d \notin DOMAIN rgb
  IN CASE Cardinality(DOMAIN rgb) = 3 -> IF snap THEN Snapped(color, c) ELSE color[c]
       [] Cardinality(DOMAIN rgb) = 1 -> toBrightness(color)
       [] OTHER -> (color[c] + color[missing]) \div 2

\* RgbLedDevice::setState for the LED of color c; the sync node is left to Lights.
RgbSetState(rgb, c, state, snap, nodes, bad) ==
  setBrightness(rgb[c], RgbValue(rgb, state.color, c, snap), ModeFor(state.effect, RgbModes(rgb)),
                state.timing, nodes, bad)

=============================================================================
