---------------------------- MODULE UsbDualRole ----------------------------
(***************************************************************************)
(* The USB HAL over the dual_role_usb class (usb/1.3-dual_role_usb/        *)
(* Usb.cpp): one hwbinder thread, a worker thread while a callback is      *)
(* registered, and the kernel, which adds and removes ports and changes    *)
(* their roles.                                                            *)
(*                                                                         *)
(* queryPortStatus casts the callback before it takes mLock, counts the    *)
(* links of the class directory, lists them, and reads the roles of the    *)
(* ports listed; the kernel may act between any two of these.  The three   *)
(* roles of a port are one value.  Failures to open the directory or the   *)
(* socket and to create a thread are left out, and so is the data signal,  *)
(* which only writes files.                                                *)
(***************************************************************************)
EXTENDS Integers, SequencesExt

CONSTANTS UsbPorts,      \* names of ports
          UsbClients,    \* callbacks
          Version,       \* the interface version of each callback: "1.0", "1.1" or "1.2"
          DualRoles,     \* roles asked for
          MaxUevents     \* uevents waiting in the socket

VARIABLES dualPorts,     \* the class directory: port |-> role
          uevents,       \* number of uevents in the socket
          query,         \* queryPortStatus, per thread: [at, cast, n, names]
          binds,         \* binder thread: what is left of its call
          worker,        \* where the worker is
          mCallback_1_0, \* a client or "null"
          destroyThread, signalled,
          reported,      \* last report to the client registered now
          crashed,
          fresh          \* history: [misled, unheard, left, listed], see below

\* fresh.misled: a report went to a callback that had been replaced or was made for
\* it; fresh.unheard: a uevent found no socket; fresh.left: a port has left during the query;
\* fresh.listed: the directory when it was listed.
dualVars == <<dualPorts, uevents, query, binds, worker, mCallback_1_0, destroyThread,
              signalled, reported, crashed, fresh>>

UsbThreads == {"binder", "worker"}
NoQuery == [at |-> "idle", cast |-> "null", n |-> 0, names |-> <<>>]
Unknown == [status |-> "unknown"]

DualInit ==
    /\ dualPorts = <<>>
    /\ uevents = 0
    /\ query = [t \in UsbThreads |-> NoQuery]
    /\ binds = "idle"
    /\ worker = "off"
    /\ mCallback_1_0 = "null"
    /\ destroyThread = FALSE
    /\ signalled = FALSE
    /\ reported = Unknown
    /\ crashed = FALSE
    /\ fresh = [misled |-> FALSE, unheard |-> FALSE, left |-> FALSE, listed |-> {}]
-----------------------------------------------------------------------------
\* The kernel (external).

Notice ==
    IF worker \in {"off", "open"}
    THEN UNCHANGED uevents
    ELSE uevents < MaxUevents /\ uevents' = uevents + 1

\* A port appears, changes its role or goes away.
Kernel(p, ports) ==
    /\ dualPorts # ports
    /\ dualPorts' = ports
    /\ Notice
    /\ fresh' = [fresh EXCEPT !.misled = FALSE, !.unheard = @ \/ worker \in {"off", "open"},
                              !.left = @ \/ p \notin DOMAIN ports]
    /\ UNCHANGED <<query, binds, worker, mCallback_1_0, destroyThread, signalled, reported,
                   crashed>>

With(f, p, v) == [q \in DOMAIN f \cup {p} |-> IF q = p THEN v ELSE f[q]]

Plug(p, role) == Kernel(p, With(dualPorts, p, role))
Unplug(p) == Kernel(p, [q \in DOMAIN dualPorts \ {p} |-> dualPorts[q]])
-----------------------------------------------------------------------------
\* queryPortStatus.

BinderIdle == binds = "idle" /\ query["binder"].at = "idle" /\ ~crashed
mLockFree == \A t \in UsbThreads : query[t].at \in {"idle", "lock"}

queryPortStatus(t) ==
    query' = [query EXCEPT ![t] = [NoQuery EXCEPT !.at = "lock", !.cast = mCallback_1_0]]

Query ==
    /\ BinderIdle
    /\ mCallback_1_0 # "null"
    /\ queryPortStatus("binder")
    /\ fresh' = [fresh EXCEPT !.unheard = FALSE]
    /\ UNCHANGED <<dualPorts, uevents, binds, worker, mCallback_1_0, destroyThread, signalled,
                   reported, crashed>>

\* Mutation of QueryLocked: a query that finds mLock taken gives up.
QueryTries(t) ==
    /\ query[t].at = "lock"
    /\ query' = [query EXCEPT ![t].at = IF mCallback_1_0 = "null" \/ ~mLockFree
                                        THEN "idle" ELSE "count"]
    /\ fresh' = [fresh EXCEPT !.left = FALSE]
    /\ UNCHANGED <<dualPorts, uevents, binds, worker, mCallback_1_0, destroyThread, signalled,
                   reported, crashed>>

QueryLocked(t) ==
    /\ query[t].at = "lock"
    /\ mLockFree
    /\ query' = [query EXCEPT ![t].at = IF mCallback_1_0 = "null" THEN "idle" ELSE "count"]
    /\ fresh' = [fresh EXCEPT !.left = FALSE]
    /\ UNCHANGED <<dualPorts, uevents, binds, worker, mCallback_1_0, destroyThread, signalled,
                   reported, crashed>>

\* names.resize(n) keeps what an earlier scan has put there.
ResizedNames(names, n) == [i \in 1..n |-> IF i <= Len(names) THEN names[i] ELSE ""]

CountPorts(t) ==
    LET n == Cardinality(DOMAIN dualPorts)
    IN  /\ query[t].at = "count"
        /\ query' = [query EXCEPT ![t].at = IF n = 0 THEN "read" ELSE "list",
                                  ![t].n = n,
                                  ![t].names = IF n = 0 THEN @ ELSE ResizedNames(@, n)]
        /\ fresh' = [fresh EXCEPT !.listed = {}]
        /\ UNCHANGED <<dualPorts, uevents, binds, worker, mCallback_1_0, destroyThread,
                       signalled, reported, crashed>>

\* Mutation of MoreLinks: the scan is not started again.
NeverMore(t, links) == FALSE

MoreLinks(t, links) == Len(links) > query[t].n

\* The second pass: one link more than counted starts the scan again.
getTypeCPortNamesHelper(t) ==
    \E links \in SetToSeqs(DOMAIN dualPorts) :
        /\ query[t].at = "list"
        /\ query' = [query EXCEPT ![t].at = IF MoreLinks(t, links) THEN "count" ELSE "read",
                                  ![t].names = [i \in 1..query[t].n |->
                                                  IF i <= Len(links) THEN links[i] ELSE @[i]]]
        /\ fresh' = [fresh EXCEPT !.listed = DOMAIN dualPorts]
        /\ UNCHANGED <<dualPorts, uevents, binds, worker, mCallback_1_0, destroyThread,
                       signalled, reported, crashed>>

\* The roles of the ports listed, in the fields the callback's version has.  A port
\* that is gone has no role to read.
getPortStatusHelper(names, version) ==
    IF \E i \in DOMAIN names : names[i] \notin DOMAIN dualPorts THEN [status |-> "error"]
    ELSE [status |-> "success", version |-> version,
          ports |-> [i \in DOMAIN names |->
                       [name |-> names[i], role |-> dualPorts[names[i]],
                        mode |-> IF version = "1.1" THEN "none" ELSE dualPorts[names[i]]]]]

VersionOf(c) == IF c = "null" THEN "1.0" ELSE Version[c]

\* A callback found to be newer than 1.0 is called through the cast, an older one
\* through mCallback_1_0 as it is now.
NotifyPortStatus(t) ==
    LET version == VersionOf(query[t].cast)
        recipient == IF version = "1.0" THEN mCallback_1_0 ELSE query[t].cast
    IN  /\ query[t].at = "read"
        /\ query' = [query EXCEPT ![t] = NoQuery]
        /\ reported' = IF recipient = mCallback_1_0
                   THEN getPortStatusHelper(query[t].names, version) ELSE reported
        /\ fresh' = [fresh EXCEPT !.misled = @ \/ query[t].cast # mCallback_1_0,
                                  !.left = FALSE, !.listed = {}]
        /\ UNCHANGED <<dualPorts, uevents, binds, worker, mCallback_1_0, destroyThread,
                       signalled, crashed>>
-----------------------------------------------------------------------------
\* switchRole: the role is written and read back, and a success is notified without
\* looking whether there is a callback.

switchRole(p, role) ==
    /\ BinderIdle
    /\ p \in UsbPorts
    /\ \E taken \in BOOLEAN :
         /\ taken => p \in DOMAIN dualPorts
         /\ dualPorts' = IF taken THEN With(dualPorts, p, role) ELSE dualPorts
    /\ IF dualPorts' # dualPorts
       THEN Notice /\ fresh' = [fresh EXCEPT !.misled = FALSE,
                                             !.unheard = @ \/ worker \in {"off", "open"}]
       ELSE UNCHANGED <<uevents, fresh>>
    /\ crashed' = (/\ p \in DOMAIN dualPorts'
                   /\ dualPorts'[p] = role
                   /\ mCallback_1_0 = "null")
    /\ binds' = "status"
    /\ UNCHANGED <<query, worker, mCallback_1_0, destroyThread, signalled, reported>>

\* roleSwitch, which nothing sets, is notified under mLock: an error, also after the
\* success.
RoleSwitchStatus ==
    /\ binds = "status"
    /\ ~crashed
    /\ mLockFree
    /\ binds' = "idle"
    /\ UNCHANGED <<dualPorts, uevents, query, worker, mCallback_1_0, destroyThread, signalled,
                   reported, crashed, fresh>>
-----------------------------------------------------------------------------
\* The callback and the life of the worker.

setCallback(cb) ==
    /\ BinderIdle
    /\ mLockFree
    /\ mCallback_1_0' = cb
    /\ reported' = Unknown
    /\ IF (mCallback_1_0 = "null") = (cb = "null") THEN UNCHANGED <<binds, destroyThread, worker>>
       ELSE IF cb = "null" THEN binds' = "kill" /\ UNCHANGED <<destroyThread, worker>>
       ELSE destroyThread' = FALSE /\ worker' = "open" /\ UNCHANGED binds
    /\ UNCHANGED <<dualPorts, uevents, query, signalled, crashed, fresh>>

pthread_kill ==
    /\ binds = "kill"
    /\ signalled' = TRUE
    /\ binds' = "join"
    /\ UNCHANGED <<dualPorts, uevents, query, worker, mCallback_1_0, destroyThread, reported,
                   crashed, fresh>>

\* The handler runs on the worker; only epoll_wait is interrupted by it.
sighandler ==
    /\ signalled
    /\ signalled' = FALSE
    /\ destroyThread' = TRUE
    /\ worker' = IF worker = "wait" THEN "check" ELSE worker
    /\ UNCHANGED <<dualPorts, uevents, query, binds, mCallback_1_0, reported, crashed,
                   fresh>>

pthread_join ==
    /\ binds = "join"
    /\ worker = "off"
    /\ ~signalled
    /\ binds' = "idle"
    /\ UNCHANGED <<dualPorts, uevents, query, worker, mCallback_1_0, destroyThread, signalled,
                   reported, crashed, fresh>>

uevent_open_socket ==
    /\ worker = "open"
    /\ worker' = "check"
    /\ uevents' = 0
    /\ UNCHANGED <<dualPorts, query, binds, mCallback_1_0, destroyThread, signalled, reported,
                   crashed, fresh>>

\* The test of destroyThread, and what follows the loop.
work ==
    /\ worker = "check"
    /\ query["worker"].at = "idle"
    /\ worker' = IF destroyThread THEN "off" ELSE "enter"
    /\ uevents' = IF destroyThread THEN 0 ELSE uevents
    /\ UNCHANGED <<dualPorts, query, binds, mCallback_1_0, destroyThread, signalled, reported,
                   crashed, fresh>>

\* A signal that comes before the thread waits does not end the wait.
epoll_wait ==
    /\ worker = "enter"
    /\ worker' = "wait"
    /\ UNCHANGED <<dualPorts, uevents, query, binds, mCallback_1_0, destroyThread, signalled,
                   reported, crashed, fresh>>

uevent_event ==
    /\ worker = "wait"
    /\ uevents > 0
    /\ uevents' = uevents - 1
    /\ worker' = "check"
    /\ queryPortStatus("worker")
    /\ UNCHANGED <<dualPorts, binds, mCallback_1_0, destroyThread, signalled, reported,
                   crashed, fresh>>

QueryNext(t) == QueryLocked(t) \/ CountPorts(t) \/ getTypeCPortNamesHelper(t)
                \/ NotifyPortStatus(t)

DualNext ==
    /\ ~crashed
    /\ \/ \E p \in UsbPorts : \/ Unplug(p)
                              \/ Plug(p, "ufp")
                              \/ \E role \in DualRoles : switchRole(p, role)
       \/ Query
       \/ \E t \in UsbThreads : QueryNext(t)
       \/ \E cb \in UsbClients \cup {"null"} : setCallback(cb)
       \/ RoleSwitchStatus \/ pthread_kill \/ pthread_join \/ sighandler
       \/ uevent_open_socket \/ work \/ epoll_wait \/ uevent_event

\* Both threads run, a signal is delivered, and neither thread is kept from mLock
\* for ever.
DualFairness ==
    /\ \A t \in UsbThreads : WF_dualVars(~crashed /\ QueryNext(t)) /\ SF_dualVars(QueryLocked(t))
    /\ WF_dualVars(RoleSwitchStatus \/ pthread_kill \/ pthread_join)
    /\ WF_dualVars(sighandler)
    /\ WF_dualVars(~crashed /\ (uevent_open_socket \/ work \/ epoll_wait \/ uevent_event))

DualSpec == DualInit /\ [][DualNext]_dualVars /\ DualFairness
-----------------------------------------------------------------------------
\* Unless a port left during the query (an emptied directory then leaves the names of
\* the pass before), the names a query goes on with
\* are the links of the directory when it was listed, each once: a port added
\* between the two passes is not lost.
ScanComplete ==
    \A t \in UsbThreads :
        query[t].at = "read" /\ ~fresh.left =>
            /\ ToSet(query[t].names) = fresh.listed
            /\ Len(query[t].names) = Cardinality(fresh.listed)

\* When the ports stop changing, the client registered now that has had a report is
\* told of the last change, unless the uevent found no socket or the report was made
\* for a callback that was replaced after queryPortStatus had cast it.
ReportsCurrent ==
    LET current == \E s \in SetToSeqs(DOMAIN dualPorts) :
                     reported = getPortStatusHelper(s, VersionOf(mCallback_1_0))
    IN  <>[][UNCHANGED dualPorts]_dualVars =>
            ((reported # Unknown /\ ~current)
                ~> (current \/ reported = Unknown \/ fresh.unheard \/ fresh.misled \/ crashed))
=============================================================================
