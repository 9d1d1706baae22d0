------------------------------ MODULE UsbTypec ------------------------------
(***************************************************************************)
(* The USB Type-C HAL (usb/1.1-typec/Usb.cpp): one hwbinder thread, a      *)
(* worker thread that lives as long as a callback is registered, and the   *)
(* kernel, which attaches and detaches partners and sends uevents.  The    *)
(* ports share mPartnerUp, the lock of a role switch, the socket and every *)
(* report.                                                                 *)
(*                                                                         *)
(* A mode switch keeps mRoleSwitchLock and waits for a partner to come     *)
(* back; the worker receives a uevent in one step and signals the partner  *)
(* in another.  A report to the client lists /sys/class/typec first and    *)
(* reads the attributes of the ports later, both under mLock.  Autosuspend *)
(* of USB devices and failures to open a socket or create a thread are     *)
(* left out.                                                               *)
(***************************************************************************)
EXTENDS Integers, Sequences

CONSTANTS Ports,
          Switched,      \* the ports whose roles the client switches
          Accessories,   \* partners: subset of {"none", "analog_audio", "debug"}
          RoleSwitches,  \* data and power roles asked for: <<type, role>>
          MaxUevents     \* uevents waiting in the socket

VARIABLES port,          \* sysfs: port |-> [mode, partner, data, power]
          uevents,       \* the socket's buffer
          sees,          \* worker: [pc, ports], the ports it found connected, or
                         \* those named in the report it made
          binds,         \* binder thread: [pc, port, role, connected, stale, since,
                         \* passed, ok]
          mCallback,     \* "null", "1.0" or "1.1"
          mPartnerUp, destroyThread,
          signalled,     \* SIGUSR1 is pending for the worker
          shown,         \* last status the client was given
          unheard,       \* history: a uevent found no socket since the last query
          skipped        \* history: ports without a partner that nobody made dual

typecVars == <<port, uevents, sees, binds, mCallback, mPartnerUp, destroyThread,
               signalled, shown, unheard, skipped>>

kernelVars == <<port, uevents, unheard>>

Resting == [pc |-> "idle", port |-> "any", role |-> "dual", connected |-> {}, stale |-> FALSE,
            since |-> FALSE, passed |-> FALSE, ok |-> FALSE]

TypecInit ==
    /\ port = [p \in Ports |->
                [mode |-> "dual", partner |-> "absent", data |-> "host", power |-> "source"]]
    /\ uevents = <<>>
    /\ sees = [pc |-> "off", ports |-> {}]
    /\ binds = Resting
    /\ mCallback = "null"
    /\ mPartnerUp = FALSE
    /\ destroyThread = FALSE
    /\ signalled = FALSE
    /\ shown = [status |-> "unknown"]
    /\ unheard = FALSE
    /\ skipped = {}
-----------------------------------------------------------------------------
\* The kernel (external).  A partner takes the roles its port's mode asks for.

NoSocket == sees.pc \in {"off", "open"}

Uevent(e) ==
    IF NoSocket
    THEN unheard' = TRUE /\ UNCHANGED uevents
    ELSE /\ Len(uevents) < MaxUevents
         /\ uevents' = Append(uevents, e)
         /\ UNCHANGED unheard

Roles(mode) ==
    {r \in {<<"host", "source">>, <<"device", "sink">>} :
        \/ mode = "dual"
        \/ r[2] = mode}

Attach(p, kind) ==
    /\ port[p].partner = "absent"
    /\ \E r \in Roles(port[p].mode) :
         port' = [port EXCEPT ![p] = [@ EXCEPT !.partner = kind, !.data = r[1], !.power = r[2]]]
    /\ Uevent("add")
    /\ binds' = [binds EXCEPT !.since = @ \/ binds.pc = "wait",
                              !.passed = @ /\ binds.port # p]
    /\ skipped' = skipped \ {p}
    /\ UNCHANGED <<sees, mCallback, mPartnerUp, destroyThread, signalled, shown>>

Detach(p) ==
    /\ port[p].partner # "absent"
    /\ port' = [port EXCEPT ![p].partner = "absent"]
    /\ Uevent("remove")
    /\ skipped' = IF NoSocket THEN skipped \cup {p} ELSE skipped
    /\ UNCHANGED <<sees, binds, mCallback, mPartnerUp, destroyThread, signalled, shown>>
-----------------------------------------------------------------------------
\* Reports: the list of ports says which have a partner, whose attributes are
\* gone when it left since.

getTypeCPortNamesHelper == {p \in Ports : port[p].partner # "absent"}

getCurrentRoleHelper(p, connected, type) ==
    IF ~connected THEN "none"
    ELSE IF type \in {"power", "data"} THEN port[p][type]
    ELSE CASE port[p].partner = "analog_audio" -> "audio_accessory"
           [] port[p].partner = "debug" -> "debug_accessory"
           [] OTHER -> IF port[p].data = "host" THEN "dfp" ELSE "ufp"

\* The first port whose partner is gone ends the report with an error.
getPortStatusHelper(connected) ==
    IF \E p \in connected : port[p].partner = "absent" THEN [status |-> "error"]
    ELSE [status |-> "success",
          ports |-> [p \in Ports |->
            [t \in {"power", "data", "mode"} |-> getCurrentRoleHelper(p, p \in connected, t)]],
          supported |-> IF mCallback = "1.1" THEN {"ufp", "dfp"} ELSE {"dfp"}]

\* The ports that the report names, in the order of a hash table: after the first
\* whose partner is gone the entries are empty.
Named(connected) ==
    LET gone == {p \in connected : port[p].partner = "absent"}
    IN  IF gone = {} THEN {Ports}
        ELSE {{p} \cup before : p \in gone, before \in SUBSET (Ports \ gone)}

mLockFree == binds.pc # "report" /\ sees.pc # "report"

\* queryPortStatus: the list, then the attributes and the notification.
queryPortStatus ==
    /\ binds.pc = "idle"
    /\ mLockFree
    /\ mCallback # "null"
    /\ binds' = [binds EXCEPT !.pc = "report", !.connected = getTypeCPortNamesHelper]
    /\ unheard' = FALSE
    /\ UNCHANGED <<port, uevents, sees, mCallback, mPartnerUp, destroyThread, signalled,
                   shown, skipped>>

queryNotify ==
    /\ binds.pc = "report"
    /\ shown' = getPortStatusHelper(binds.connected)
    /\ binds' = Resting
    /\ UNCHANGED <<kernelVars, sees, mCallback, mPartnerUp, destroyThread, signalled, skipped>>
-----------------------------------------------------------------------------
\* switchRole for a mode.  The port's file does not open, or refuses the write, or
\* takes it without effect (the error shows when the file is closed, which nobody
\* looks at), or takes it.

LeftAlone(p) == port[p].partner = "absent" /\ port[p].mode # "dual"

\* switchToDrp: the file may not open or not take the write, which is only logged.
switchToDrp(ports) ==
    \E failed \in SUBSET ports :
      /\ port' = [p \in Ports |->
                   IF p \in ports \ failed THEN [port[p] EXCEPT !.mode = "dual"] ELSE port[p]]
      /\ skipped' = skipped \cup {p \in failed : LeftAlone(p)}

\* Mutation of PartnerUpReset: what an earlier partner has set stays.
PartnerUpKept(opened) == mPartnerUp

PartnerUpReset(opened) == ~opened /\ mPartnerUp

\* stale: a partner's uevent is in the socket, or in the worker's hands.
switchMode(p, role) ==
    /\ binds.pc = "idle"
    /\ \E file \in {"closed", "refuses", "ignores", "takes"} :
         /\ port' = IF file = "takes" THEN [port EXCEPT ![p].mode = role] ELSE port
         /\ mPartnerUp' = PartnerUpReset(file # "closed")
         /\ binds' = [binds EXCEPT !.pc = IF file \in {"ignores", "takes"} THEN "wait" ELSE "drp",
                                   !.port = p,
                                   !.role = role,
                                   !.stale = \/ sees.pc = "signal"
                                             \/ \E i \in DOMAIN uevents : uevents[i] = "add"]
    /\ UNCHANGED <<uevents, unheard, sees, mCallback, destroyThread, signalled, shown, skipped>>

\* A partner that has left again was passed over when its port was looked at.
PartnerBack ==
    /\ binds.pc = "wait"
    /\ mPartnerUp
    /\ binds' = [binds EXCEPT !.pc = "notify", !.ok = TRUE]
    /\ skipped' = IF binds.passed THEN skipped \cup {binds.port} ELSE skipped
    /\ UNCHANGED <<kernelVars, sees, mCallback, mPartnerUp, destroyThread, signalled, shown>>

WaitTimedOut ==
    /\ binds.pc = "wait"
    /\ binds' = [binds EXCEPT !.pc = "drp"]
    /\ UNCHANGED <<kernelVars, sees, mCallback, mPartnerUp, destroyThread, signalled, shown,
                   skipped>>

SwitchFailed ==
    /\ binds.pc = "drp"
    /\ switchToDrp({binds.port})
    /\ binds' = [binds EXCEPT !.pc = "notify"]
    /\ UNCHANGED <<uevents, unheard, sees, mCallback, mPartnerUp, destroyThread, signalled,
                   shown>>

\* switchRole for a data or power role: written, read back and compared.  A connected
\* port may take it or not.
switchRole(p, type, role) ==
    /\ binds.pc = "idle"
    /\ \E taken \in BOOLEAN :
         /\ taken => port[p].partner # "absent"
         /\ port' = IF taken THEN [port EXCEPT ![p][type] = role] ELSE port
    /\ binds' = [binds EXCEPT !.pc = "notify", !.port = p, !.ok = (port'[p][type] = role)]
    /\ IF port' # port THEN Uevent("change") ELSE UNCHANGED <<uevents, unheard>>
    /\ UNCHANGED <<sees, mCallback, mPartnerUp, destroyThread, signalled, shown, skipped>>

\* notifyRoleSwitchStatus under mLock, then both locks are released.
RoleSwitchStatus ==
    /\ binds.pc = "notify"
    /\ mLockFree
    /\ binds' = Resting
    /\ UNCHANGED <<kernelVars, sees, mCallback, mPartnerUp, destroyThread, signalled, shown,
                   skipped>>
-----------------------------------------------------------------------------
\* The callback and the life of the worker.

setCallback(cb) ==
    /\ binds.pc = "idle"
    /\ mLockFree
    /\ mCallback' = cb
    /\ IF (mCallback = "null") = (cb = "null")
       THEN UNCHANGED <<binds, destroyThread, sees>>
       ELSE IF cb = "null"
       THEN binds' = [binds EXCEPT !.pc = "kill"] /\ UNCHANGED <<destroyThread, sees>>
       ELSE /\ destroyThread' = FALSE
            /\ sees' = [sees EXCEPT !.pc = "open"]
            /\ UNCHANGED binds
    /\ shown' = [status |-> "unknown"]
    /\ UNCHANGED <<kernelVars, mPartnerUp, signalled, skipped>>

pthread_kill ==
    /\ binds.pc = "kill"
    /\ signalled' = TRUE
    /\ binds' = [binds EXCEPT !.pc = "join"]
    /\ UNCHANGED <<kernelVars, sees, mCallback, mPartnerUp, destroyThread, shown, skipped>>

\* Mutation of sighandler: the wait is interrupted, the thread not told to end.
SighandlerEmpty ==
    /\ signalled
    /\ signalled' = FALSE
    /\ sees' = IF sees.pc = "wait" THEN [sees EXCEPT !.pc = "check"] ELSE sees
    /\ UNCHANGED <<kernelVars, destroyThread, binds, mCallback, mPartnerUp, shown, skipped>>

\* The handler runs on the worker; only epoll_wait is interrupted by it.
sighandler ==
    /\ signalled
    /\ signalled' = FALSE
    /\ destroyThread' = TRUE
    /\ sees' = IF sees.pc = "wait" THEN [sees EXCEPT !.pc = "check"] ELSE sees
    /\ UNCHANGED <<kernelVars, binds, mCallback, mPartnerUp, shown, skipped>>

pthread_join ==
    /\ binds.pc = "join"
    /\ sees.pc = "off"
    /\ ~signalled
    /\ binds' = Resting
    /\ UNCHANGED <<kernelVars, sees, mCallback, mPartnerUp, destroyThread, signalled, shown,
                   skipped>>

WorkerStep(from, to) == sees.pc = from /\ sees' = [sees EXCEPT !.pc = to]

uevent_open_socket ==
    /\ WorkerStep("open", "check")
    /\ uevents' = <<>>
    /\ UNCHANGED <<port, unheard, binds, mCallback, mPartnerUp, destroyThread, signalled,
                   shown, skipped>>

\* The test of destroyThread, and what follows the loop.
work ==
    /\ WorkerStep("check", IF destroyThread THEN "off" ELSE "enter")
    /\ uevents' = IF destroyThread THEN <<>> ELSE uevents     \* close(uevent_fd)
    /\ skipped' = IF uevents' # uevents THEN skipped \cup {p \in Ports : LeftAlone(p)} ELSE skipped
    /\ UNCHANGED <<port, unheard, binds, mCallback, mPartnerUp, destroyThread, signalled, shown>>

epoll_wait ==
    /\ WorkerStep("enter", "wait")
    /\ UNCHANGED <<kernelVars, binds, mCallback, mPartnerUp, destroyThread, signalled, shown,
                   skipped>>

\* Mutation of uevent_event: only a partner that was added is looked at.
UeventAddOnly ==
    /\ uevents # <<>>
    /\ WorkerStep("wait", IF Head(uevents) = "add" THEN "signal" ELSE "check")
    /\ uevents' = Tail(uevents)
    /\ UNCHANGED <<port, unheard, binds, mCallback, mPartnerUp, destroyThread, signalled, shown,
                   skipped>>

\* uevent_event: a partner that was added is signalled first.
uevent_event ==
    /\ uevents # <<>>
    /\ WorkerStep("wait", IF Head(uevents) = "add" THEN "signal" ELSE "list")
    /\ uevents' = Tail(uevents)
    /\ UNCHANGED <<port, unheard, binds, mCallback, mPartnerUp, destroyThread, signalled, shown,
                   skipped>>

uevent_signal ==
    /\ WorkerStep("signal", "list")
    /\ mPartnerUp' = TRUE
    /\ UNCHANGED <<kernelVars, binds, mCallback, destroyThread, signalled, shown, skipped>>

\* Without a callback nothing is listed, and no port is looked at further down.
uevent_list ==
    /\ sees.pc = "list"
    /\ mLockFree
    /\ sees' = IF mCallback = "null" THEN [sees EXCEPT !.pc = "check"]
               ELSE [pc |-> "report", ports |-> getTypeCPortNamesHelper]
    /\ skipped' = IF mCallback = "null" THEN skipped \cup {p \in Ports : LeftAlone(p)} ELSE skipped
    /\ UNCHANGED <<kernelVars, binds, mCallback, mPartnerUp, destroyThread, signalled, shown>>

uevent_notify ==
    /\ sees.pc = "report"
    /\ \E named \in Named(sees.ports) : sees' = [pc |-> "drp", ports |-> named]
    /\ shown' = getPortStatusHelper(sees.ports)
    /\ UNCHANGED <<kernelVars, binds, mCallback, mPartnerUp, destroyThread, signalled, skipped>>

\* The ports named without a partner become dual again, unless mRoleSwitchLock is
\* taken.  The switch that has it makes its own port dual if it fails.
uevent_drp ==
    LET disconnected == {p \in sees.ports : port[p].partner = "absent"}
        own == IF binds.pc \in {"wait", "drp"} THEN {binds.port} ELSE {}
    IN  /\ sees.pc = "drp"
        /\ sees' = [pc |-> "check", ports |-> {}]
        /\ IF binds.pc \in {"wait", "drp", "notify"}
           THEN /\ skipped' = skipped \cup {p \in disconnected \ own : LeftAlone(p)}
                /\ binds' = [binds EXCEPT !.passed = @ \/ \E p \in disconnected \cap own : LeftAlone(p)]
                /\ UNCHANGED port
           ELSE switchToDrp(disconnected) /\ UNCHANGED binds
        /\ UNCHANGED <<uevents, unheard, mCallback, mPartnerUp, destroyThread, signalled, shown>>

WorkerNext == uevent_open_socket \/ work \/ epoll_wait \/ uevent_event \/ uevent_signal
              \/ uevent_list \/ uevent_notify \/ uevent_drp

BinderNext == queryNotify \/ PartnerBack \/ SwitchFailed \/ RoleSwitchStatus
              \/ pthread_kill \/ pthread_join

TypecNext ==
    \/ \E p \in Ports, kind \in Accessories : Attach(p, kind)
    \/ \E p \in Ports : Detach(p)
    \/ queryPortStatus
    \/ \E p \in Switched, role \in {"sink", "source"} : switchMode(p, role)
    \/ \E p \in Switched, r \in RoleSwitches : switchRole(p, r[1], r[2])
    \/ \E cb \in {"null", "1.0", "1.1"} : setCallback(cb)
    \/ WaitTimedOut
    \/ sighandler
    \/ WorkerNext
    \/ BinderNext

\* Both threads are scheduled, a wait ends at its deadline, a signal is delivered,
\* and the worker is not kept from mLock for ever.
TypecFairness ==
    /\ WF_typecVars(WorkerNext)
    /\ SF_typecVars(uevent_list)
    /\ WF_typecVars(BinderNext)
    /\ WF_typecVars(WaitTimedOut)
    /\ WF_typecVars(sighandler)

TypecSpec == TypecInit /\ [][TypecNext]_typecVars /\ TypecFairness
-----------------------------------------------------------------------------
Reported == getPortStatusHelper(getTypeCPortNamesHelper)

\* The worker waits, there is no uevent for it, and no report is being made.
Settled == sees.pc = "wait" /\ uevents = <<>> /\ binds.pc # "report"

\* A success of switchMode means that a partner was attached after the mode was
\* written: to the port or to another one, since mPartnerUp does not tell them
\* apart; unless a partner's uevent was in the socket, or received by the worker
\* and not signalled, when mPartnerUp was reset.
SwitchSuccessful ==
    binds.ok /\ binds.role # "dual" /\ ~binds.stale => binds.since

\* Once the client asked for the status, every change of a port is reported to it: a
\* uevent is followed by a report, and when none is left and no report is being made
\* the client knows the ports as they are, unless a uevent came before the worker had
\* its socket.
ChangesReported ==
    /\ [](Settled /\ shown.status # "unknown" /\ ~unheard => shown = Reported)
    /\ (uevents # <<>> /\ mCallback # "null") ~> (sees.pc = "report" \/ mCallback = "null")

\* A port without partner does not stay in one mode while a client is registered,
\* unless no worker heard of its leaving, the write of "dual" failed, or the worker
\* found mRoleSwitchLock taken: by a switch of another port or of a data or power
\* role, or by a mode switch of this port that then succeeds.
PortBecomesDual ==
    \A p \in Ports :
      (LeftAlone(p) /\ mCallback # "null")
        ~> (~LeftAlone(p) \/ mCallback = "null" \/ p \in skipped)

\* No change of the port is lost: the client hears of it, and a port whose partner
\* has left takes both roles again.
PortFollowed == ChangesReported /\ PortBecomesDual

\* setCallback(null) returns, except when the signal arrives after the worker has
\* tested destroyThread and before it waits: then the thread that was told to end
\* waits for a uevent.
CallbackCleared ==
    (binds.pc = "join")
        ~> (binds.pc = "idle" \/ (sees.pc = "wait" /\ destroyThread /\ uevents = <<>>))
=============================================================================
