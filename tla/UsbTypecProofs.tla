--------------------------- MODULE UsbTypecProofs ---------------------------
(***************************************************************************)
(* A successful mode switch means that a partner was attached since, for   *)
(* any ports, partners and roles and any number of uevents on their way.   *)
(***************************************************************************)
EXTENDS UsbTypec, TLAPS

Kinds == {"add", "remove", "change"}

\* A partner's uevent is in the socket, or in the worker's hands.
Underway == sees.pc = "signal" \/ \E i \in DOMAIN uevents : uevents[i] = "add"

\* A mode switch is on record: it began with no partner's uevent under way.
Fresh == binds.role # "dual" /\ ~ binds.stale

\* Any sign of a partner that a fresh switch can meet is of one that came since.
SignsAreSince ==
  /\ binds.pc = "wait" /\ Fresh => (mPartnerUp \/ Underway => binds.since)
  /\ binds.ok /\ Fresh => binds.since

Fields == {"pc", "port", "role", "connected", "stale", "since", "passed", "ok"}

\* The inductive invariant: beside SignsAreSince, the fields of the two threads'
\* records, what the binder's is between calls, and that uevents is a sequence.
IInv ==
  /\ DOMAIN binds = Fields /\ DOMAIN sees = {"pc", "ports"}
  /\ binds.pc \in {"idle", "report", "kill", "join"} => binds.role = "dual" /\ ~ binds.ok
  /\ binds.pc \in {"wait", "drp"} => ~ binds.ok
  /\ binds.pc = "idle" => ~ binds.since
  /\ uevents \in Seq(Kinds)
  /\ SignsAreSince
-----------------------------------------------------------------------------
\* Appending a uevent that is not "add" brings no sign of a partner.
LEMMA AppendedUevent ==
  ASSUME NEW s \in Seq(Kinds), NEW e \in Kinds
  PROVE  /\ Append(s, e) \in Seq(Kinds)
         /\ e # "add" => ((\E i \in DOMAIN Append(s, e) : Append(s, e)[i] = "add") =>
                            \E i \in DOMAIN s : s[i] = "add")
  BY DEF Kinds

\* What is left in the socket was there before.
LEMMA RestOfUevents ==
  ASSUME NEW s \in Seq(Kinds), s # <<>>
  PROVE  /\ Tail(s) \in Seq(Kinds)
         /\ (\E i \in DOMAIN Tail(s) : Tail(s)[i] = "add") => \E i \in DOMAIN s : s[i] = "add"
         /\ Head(s) = "add" => \E i \in DOMAIN s : s[i] = "add"
  BY DEF Kinds

\* A step that adds no sign of a partner and leaves the binder thread alone.
LEMMA Quiet ==
  ASSUME IInv, binds' = binds, uevents' \in Seq(Kinds), DOMAIN sees' = {"pc", "ports"},
         Underway' => Underway, mPartnerUp' => mPartnerUp \/ Underway
  PROVE  IInv'
  BY DEF IInv, SignsAreSince, Fresh

\* A step of the binder thread that leaves the rest alone.
LEMMA BinderQuiet ==
  ASSUME IInv, UNCHANGED <<uevents, sees, mPartnerUp>>, DOMAIN binds' = Fields,
         binds'.role = "dual" /\ ~ binds'.ok /\ ~ binds'.since
  PROVE  IInv'
  BY DEF IInv, SignsAreSince, Fresh

\* The kernel's and the binder thread's steps.
LEMMA OthersKeepIInv ==
  ASSUME IInv
  PROVE  /\ \A p \in Ports, kind \in Accessories : Attach(p, kind) => IInv'
         /\ \A p \in Ports : Detach(p) => IInv'
         /\ \A p \in Switched, role \in {"sink", "source"} : switchMode(p, role) => IInv'
         /\ \A p \in Switched, r \in RoleSwitches : switchRole(p, r[1], r[2]) => IInv'
         /\ \A cb \in {"null", "1.0", "1.1"} : setCallback(cb) => IInv'
         /\ queryPortStatus \/ WaitTimedOut \/ BinderNext => IInv'
<1>1. ASSUME NEW p \in Ports, NEW kind \in Accessories, Attach(p, kind) PROVE IInv'
  <2>1. /\ binds' = [binds EXCEPT !.since = @ \/ binds.pc = "wait",
                                  !.passed = @ /\ binds.port # p]
        /\ UNCHANGED <<mPartnerUp, sees>>
    BY <1>1 DEF Attach
  <2>2. uevents' \in Seq(Kinds)
    BY <1>1, AppendedUevent DEF Attach, Uevent, IInv, Kinds
  <2>3. /\ binds'.pc = binds.pc /\ binds'.role = binds.role /\ binds'.stale = binds.stale
        /\ binds'.ok = binds.ok /\ (binds'.since <=> binds.since \/ binds.pc = "wait")
        /\ DOMAIN binds' = Fields
    BY <2>1 DEF IInv, Fields
  <2> QED BY <2>1, <2>2, <2>3, Zenon DEF IInv, SignsAreSince, Fresh
<1>2. ASSUME NEW p \in Ports, Detach(p) PROVE IInv'
  <2>1. UNCHANGED <<binds, mPartnerUp, sees>>
    BY <1>2 DEF Detach
  <2>2. uevents' = uevents \/ uevents' = Append(uevents, "remove")
    BY <1>2 DEF Detach, Uevent
  <2>3. uevents \in Seq(Kinds) /\ "remove" \in Kinds
    BY DEF IInv, Kinds
  <2>4. uevents' \in Seq(Kinds) /\ (Underway' => Underway)
    BY <2>1, <2>2, <2>3, AppendedUevent DEF Underway
  <2> QED BY <2>1, <2>4, Quiet DEF IInv
<1>3. ASSUME NEW p \in Switched, NEW role \in {"sink", "source"}, switchMode(p, role) PROVE IInv'
  <2>1. PICK file \in {"closed", "refuses", "ignores", "takes"} :
          /\ mPartnerUp' = (~ (file # "closed") /\ mPartnerUp)
          /\ binds' = [binds EXCEPT !.pc = IF file \in {"ignores", "takes"} THEN "wait" ELSE "drp",
                                    !.port = p, !.role = role, !.stale = Underway]
    BY <1>3, Zenon DEF switchMode, PartnerUpReset, Underway
  <2>2. UNCHANGED <<uevents, sees>> /\ binds.pc = "idle"
    BY <1>3 DEF switchMode
  <2>3. /\ binds'.pc = (IF file \in {"ignores", "takes"} THEN "wait" ELSE "drp")
        /\ binds'.ok = binds.ok /\ binds'.since = binds.since
        /\ binds'.stale <=> Underway
        /\ DOMAIN binds' = Fields
    BY <2>1 DEF IInv, Fields
  <2>4. binds'.pc = "wait" => ~ mPartnerUp'
    <3>1. binds'.pc = "wait" => file # "closed"
      BY <2>3
    <3> QED BY <2>1, <3>1, Zenon
  <2>5. Underway' <=> Underway
    BY <2>2 DEF Underway
  <2>6. binds'.pc \in {"wait", "drp"} /\ ~ binds'.ok /\ ~ binds'.since
    BY <2>2, <2>3 DEF IInv
  <2>7. SignsAreSince'
    BY <2>3, <2>4, <2>5, <2>6, Zenon DEF SignsAreSince, Fresh
  <2> QED BY <2>2, <2>3, <2>6, <2>7 DEF IInv
<1>4. ASSUME NEW p \in Switched, NEW r \in RoleSwitches, switchRole(p, r[1], r[2]) PROVE IInv'
  <2>1. /\ binds.pc = "idle" /\ UNCHANGED sees
        /\ binds' = [binds EXCEPT !.pc = "notify", !.port = p, !.ok = (port'[p][r[1]] = r[2])]
    BY <1>4, Zenon DEF switchRole
  <2>2. uevents' = uevents \/ uevents' = Append(uevents, "change")
    BY <1>4, Zenon DEF switchRole, Uevent
  <2>3. uevents \in Seq(Kinds) /\ "change" \in Kinds
    BY DEF IInv, Kinds
  <2>4. uevents' \in Seq(Kinds)
    BY <2>2, <2>3, AppendedUevent
  <2>5. binds'.pc = "notify" /\ binds'.role = binds.role /\ DOMAIN binds' = Fields
    BY <2>1 DEF IInv, Fields
  <2> QED BY <2>1, <2>4, <2>5 DEF IInv, SignsAreSince, Fresh
<1>5. ASSUME NEW cb \in {"null", "1.0", "1.1"}, setCallback(cb) PROVE IInv'
  <2>1. /\ binds' = binds \/ binds' = [binds EXCEPT !.pc = "kill"]
        /\ sees' = sees \/ sees' = [sees EXCEPT !.pc = "open"]
        /\ binds.pc = "idle" /\ UNCHANGED <<uevents, mPartnerUp>>
    BY <1>5 DEF setCallback, kernelVars
  <2>2. /\ binds'.pc \in {"idle", "kill"} /\ binds'.role = "dual" /\ ~ binds'.ok
        /\ ~ binds'.since /\ DOMAIN binds' = Fields /\ DOMAIN sees' = {"pc", "ports"}
    BY <2>1 DEF IInv, Fields
  <2> QED BY <2>1, <2>2 DEF IInv, SignsAreSince, Fresh
<1>6. CASE queryNotify \/ RoleSwitchStatus \/ pthread_join
  <2>1. binds' = Resting /\ UNCHANGED <<uevents, sees, mPartnerUp>>
    BY <1>6 DEF queryNotify, RoleSwitchStatus, pthread_join, kernelVars
  <2>2. DOMAIN binds' = Fields /\ binds'.role = "dual" /\ ~ binds'.ok /\ ~ binds'.since
    BY <2>1 DEF Resting, Fields
  <2> QED BY <2>1, <2>2, BinderQuiet
<1>7. CASE queryPortStatus \/ pthread_kill
  <2>1. /\ UNCHANGED <<uevents, sees, mPartnerUp>> /\ DOMAIN binds' = Fields
        /\ binds'.pc \in {"report", "join"} /\ binds.pc \in {"idle", "kill"}
        /\ binds'.role = binds.role /\ (binds'.ok <=> binds.ok)
    BY <1>7 DEF queryPortStatus, pthread_kill, kernelVars, IInv, Fields
  <2> QED BY <2>1 DEF IInv, SignsAreSince, Fresh
<1>8. CASE PartnerBack
  <2>1. /\ UNCHANGED <<uevents, sees, mPartnerUp>> /\ DOMAIN binds' = Fields
        /\ binds.pc = "wait" /\ mPartnerUp /\ binds'.pc = "notify"
        /\ binds'.role = binds.role /\ binds'.stale = binds.stale /\ binds'.since = binds.since
    BY <1>8 DEF PartnerBack, kernelVars, IInv, Fields
  <2> QED BY <2>1 DEF IInv, SignsAreSince, Fresh
<1>9. CASE WaitTimedOut \/ SwitchFailed
  <2>1. /\ UNCHANGED <<uevents, sees, mPartnerUp>> /\ DOMAIN binds' = Fields
        /\ binds.pc \in {"wait", "drp"} /\ binds'.pc \in {"drp", "notify"}
        /\ binds'.ok = binds.ok
    BY <1>9 DEF WaitTimedOut, SwitchFailed, kernelVars, IInv, Fields
  <2> QED BY <2>1 DEF IInv, SignsAreSince, Fresh
<1> QED
  BY <1>1, <1>2, <1>3, <1>4, <1>5, <1>6, <1>7, <1>8, <1>9 DEF BinderNext

\* The worker's steps and the signal that ends it.
LEMMA WorkerKeepsIInv ==
  ASSUME IInv, WorkerNext \/ sighandler
  PROVE  IInv'
<1>0. uevents \in Seq(Kinds) /\ DOMAIN sees = {"pc", "ports"}
  BY DEF IInv
<1>1. CASE sighandler
  <2>1. /\ UNCHANGED <<binds, uevents, mPartnerUp>>
        /\ sees' = sees \/ sees' = [sees EXCEPT !.pc = "check"]
    BY <1>1 DEF sighandler, kernelVars
  <2> QED BY <1>0, <2>1, Quiet DEF Underway
<1>2. CASE uevent_open_socket \/ work \/ epoll_wait
  <2>1. /\ UNCHANGED <<binds, mPartnerUp>> /\ uevents' \in {<<>>, uevents}
        /\ sees'.pc # "signal" /\ DOMAIN sees' = {"pc", "ports"}
    BY <1>0, <1>2 DEF uevent_open_socket, work, epoll_wait, WorkerStep, kernelVars
  <2>2. Underway' => Underway
    BY <2>1 DEF Underway
  <2>3. uevents' \in Seq(Kinds)
    <3>1. <<>> \in Seq(Kinds)
      OBVIOUS
    <3> QED BY <1>0, <2>1, <3>1, Zenon
  <2> QED BY <2>1, <2>2, <2>3, Quiet
<1>3. CASE uevent_event
  <2>1. /\ UNCHANGED <<binds, mPartnerUp>> /\ uevents # <<>> /\ uevents' = Tail(uevents)
        /\ sees' = [sees EXCEPT !.pc = IF Head(uevents) = "add" THEN "signal" ELSE "list"]
    BY <1>3, Zenon DEF uevent_event, WorkerStep
  <2>2. DOMAIN sees' = {"pc", "ports"} /\ (sees'.pc = "signal" => Head(uevents) = "add")
    BY <1>0, <2>1
  <2>3. uevents' \in Seq(Kinds) /\ (Underway' => Underway)
    BY <1>0, <2>1, <2>2, RestOfUevents, Zenon DEF Underway
  <2> QED BY <2>1, <2>2, <2>3, Quiet
<1>4. CASE uevent_signal
  <2>1. /\ UNCHANGED <<binds, uevents>> /\ sees.pc = "signal"
        /\ sees' = [sees EXCEPT !.pc = "list"]
    BY <1>4 DEF uevent_signal, WorkerStep, kernelVars
  <2> QED BY <1>0, <2>1, Quiet DEF Underway
<1>5. CASE uevent_list \/ uevent_notify
  <2>1. /\ UNCHANGED <<binds, uevents, mPartnerUp>>
        /\ sees'.pc # "signal" /\ DOMAIN sees' = {"pc", "ports"}
    BY <1>0, <1>5 DEF uevent_list, uevent_notify, kernelVars
  <2> QED BY <1>0, <2>1, Quiet DEF Underway
<1>6. CASE uevent_drp
  <2>1. /\ UNCHANGED <<uevents, mPartnerUp>> /\ sees' = [pc |-> "check", ports |-> {}]
        /\ \/ binds' = binds
           \/ \E x : binds' = [binds EXCEPT !.passed = x]
    BY <1>6, Zenon DEF uevent_drp
  <2>2. /\ DOMAIN binds' = Fields /\ binds'.pc = binds.pc /\ binds'.role = binds.role
        /\ binds'.stale = binds.stale /\ binds'.since = binds.since /\ binds'.ok = binds.ok
    BY <2>1 DEF IInv, Fields
  <2>3. DOMAIN sees' = {"pc", "ports"} /\ (Underway' => Underway)
    BY <2>1 DEF Underway
  <2> QED BY <2>1, <2>2, <2>3 DEF IInv, SignsAreSince, Fresh
<1> QED BY <1>1, <1>2, <1>3, <1>4, <1>5, <1>6 DEF WorkerNext

\* Every step keeps the invariant.
LEMMA StepKeepsIInv == IInv /\ [TypecNext]_typecVars => IInv'
<1> SUFFICES ASSUME IInv, [TypecNext]_typecVars PROVE IInv'
  OBVIOUS
<1>1. CASE UNCHANGED typecVars
  BY <1>1, Quiet DEF typecVars, IInv, Underway
<1> QED BY <1>1, OthersKeepIInv, WorkerKeepsIInv DEF TypecNext

\* switchMode reports success only after a partner was attached, to its port or to
\* another, since it wrote the mode; except when a partner's uevent was in the socket, or
\* received by the worker and not yet signalled, at its reset of mPartnerUp.
THEOREM SuccessMeansPartner == TypecSpec => []SwitchSuccessful
<1>1. TypecInit => IInv
  BY DEF TypecInit, Resting, IInv, SignsAreSince, Fresh, Fields, Underway
<1>2. IInv => SwitchSuccessful
  BY DEF IInv, SignsAreSince, Fresh, SwitchSuccessful
<1> QED BY <1>1, <1>2, StepKeepsIInv, PTL DEF TypecSpec
=============================================================================
