-------------------------- MODULE ChargingControl --------------------------
(***************************************************************************)
(* The charging control of the health service, built with all of its       *)
(* features and the default paths.  The constructor waits for a node of    *)
(* each feature to become accessible, one feature after the other; then    *)
(* the service writes the nodes it found.  It has one thread; the nodes    *)
(* appear in any order, and a write may fail.  The getters change nothing  *)
(* and are left out.                                                       *)
(***************************************************************************)
EXTENDS Integers, Sequences

CONSTANTS
  OPEN_RETRY_COUNT,
  Deadlines,
  Limits             \* pairs <<min, max>>

\* The candidates of each feature: the paths that one consists of.
ChargingNodes ==
  [enabled |-> <<{"battery_charging_enabled"}, {"charging_enabled"},
                 {"battery/input_suspend"}, {"qcom-battery/input_suspend"}>>,
   deadline |-> <<{"charge_deadline"}>>,
   limit |-> <<{"charge_start_level", "charge_stop_level"}>>]

ChargingPaths == UNION {UNION {ChargingNodes[f][n] : n \in DOMAIN ChargingNodes[f]} :
                          f \in DOMAIN ChargingNodes}

VARIABLES
  accessible,   \* paths the kernel and init have made accessible
  scan,         \* where the constructor is: a feature, a candidate and a try
  mNode,        \* feature |-> the candidate found, 0 while there is none
  content       \* path |-> what was written to it, -1 before

chargingVars == <<accessible, scan, mNode, content>>

ChargingInit ==
  /\ accessible \in SUBSET ChargingPaths
  /\ scan = [feature |-> "enabled", node |-> 1, tries |-> 0]
  /\ mNode = [f \in DOMAIN ChargingNodes |-> 0]
  /\ content = [p \in ChargingPaths |-> -1]

Appear(path) ==
  /\ path \notin accessible
  /\ accessible' = accessible \cup {path}
  /\ UNCHANGED <<scan, mNode, content>>

\* Mutation of NextNode: the last candidate is tried for ever.
LastStays(f, n) == IF n = Len(ChargingNodes[f]) THEN n ELSE n + 1

\* After the last candidate comes the first.
NextNode(f, n) == IF n = Len(ChargingNodes[f]) THEN 1 ELSE n + 1

NextFeature == [enabled |-> "deadline", deadline |-> "limit", limit |-> "none"]

\* One access() of the constructor, which goes round the candidates of a feature
\* until it succeeds.
tryAccess ==
  /\ scan.feature # "none"
  /\ IF ChargingNodes[scan.feature][scan.node] \subseteq accessible
       THEN /\ mNode' = [mNode EXCEPT ![scan.feature] = scan.node]
            /\ scan' = [feature |-> NextFeature[scan.feature], node |-> 1, tries |-> 0]
       ELSE /\ scan' = IF scan.tries + 1 < OPEN_RETRY_COUNT
                       THEN [scan EXCEPT !.tries = @ + 1]
                       ELSE [scan EXCEPT !.node = NextNode(scan.feature, @), !.tries = 0]
            /\ UNCHANGED mNode
  /\ UNCHANGED <<accessible, content>>

ControlUp == scan.feature = "none"

\* The value for a node, the last two of which suspend the input.
ChargingValue(n, enabled) == IF enabled = (n <= 2) THEN 1 ELSE 0

\* WriteStringToFile: a write that fails leaves the file as it was.
Written(files) ==
  /\ ControlUp
  /\ content' = [p \in ChargingPaths |-> IF p \in DOMAIN files THEN files[p] ELSE content[p]]
  /\ UNCHANGED <<accessible, scan, mNode>>

setChargingEnabled(enabled) ==
  \E p \in ChargingNodes.enabled[mNode.enabled] :
    Written([q \in {p} |-> ChargingValue(mNode.enabled, enabled)])

setChargingDeadline(deadline) == Written([charge_deadline |-> deadline])

\* The maximum, then the minimum; a failure of the second leaves the first written.
setChargingLimit(limit) ==
  \/ Written([charge_stop_level |-> limit[2], charge_start_level |-> limit[1]])
  \/ Written([charge_stop_level |-> limit[2]])

ChargingNext ==
  \/ \E path \in ChargingPaths : Appear(path)
  \/ tryAccess
  \/ ControlUp /\ \E enabled \in BOOLEAN : setChargingEnabled(enabled)
  \/ \E deadline \in Deadlines : setChargingDeadline(deadline)
  \/ \E limit \in Limits : setChargingLimit(limit)

\* The constructor goes on; nothing says that a node appears.
ChargingFairness == WF_chargingVars(tryAccess)

ChargingSpec == ChargingInit /\ [][ChargingNext]_chargingVars /\ ChargingFairness

----------------------------------------------------------------------------
\* The service comes up as soon as each feature has a candidate whose paths are all
\* accessible, whichever it is, in whatever order they appeared, and though the
\* constructor may have given up on it in an earlier round.
ControlComesUp ==
  (\A f \in DOMAIN ChargingNodes :
     \E n \in DOMAIN ChargingNodes[f] : ChargingNodes[f][n] \subseteq accessible) ~> ControlUp
=============================================================================
