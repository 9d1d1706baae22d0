--------------------------- MODULE SessionTaskMap ---------------------------
(***************************************************************************)
(* power-libperfmgr/aidl/SessionTaskMap: sessions and tasks, each mapped   *)
(* to the other, kept by add, remove, replace and by the removal of dead   *)
(* threads in PowerSessionManager::applyUclampLocked.                      *)
(*                                                                         *)
(* A task's vector holds shared pointers to SessionValueEntry objects, and *)
(* remove() finds the entry to erase by comparing pointers; replace() puts *)
(* the session's value in a new object.  Pointers are therefore modelled:  *)
(* the allocator may return any address nobody refers to, a freed one      *)
(* included.  Both vectors are bags, because a client may name a thread    *)
(* twice; the order of a task's vector matters only to getTaskVoteRange.   *)
(*                                                                         *)
(* Every operation runs under PowerSessionManager::mSessionTaskMapMutex.   *)
(***************************************************************************)
EXTENDS Integers

CONSTANTS Sessions,  \* session ids
          Tasks,     \* thread ids
          Values,    \* the part of a SessionValueEntry its holders change
          Ptrs,      \* addresses of SessionValueEntry objects
          Lists      \* thread lists clients send, as bags over Tasks

ASSUME ListsAssumption == Lists \subseteq [Tasks -> Nat]

VARIABLES mSessions, \* session id -> [val, linkedTasks]
          mTasks,    \* task id -> bag of pointers
          heap,      \* the objects: [sessionId, v]
          reply      \* outcome of the last call

mapVars == <<mSessions, mTasks, heap, reply>>

NoTasks == [t \in Tasks |-> 0]

Listed(list) == {t \in Tasks : list[t] > 0}

Reply(ok, added, removed) == [ok |-> ok, added |-> added, removed |-> removed]

\* How often task t's vector holds pointer p; a task without a key has none.
Refs(tasks, t, p) == IF t \in DOMAIN tasks THEN tasks[t][p] ELSE 0

\* Addresses some map entry refers to.
InUse(sessions, tasks) ==
    {sessions[s].val : s \in DOMAIN sessions}
        \cup {p \in Ptrs : \E t \in DOMAIN tasks : tasks[t][p] > 0}

-----------------------------------------------------------------------------
\* The bodies of add and remove, as functions of the two maps.

SessionsPlus(sessions, s, p, list) ==
    [r \in DOMAIN sessions \cup {s} |->
        IF r = s THEN [val |-> p, linkedTasks |-> list] ELSE sessions[r]]

SessionsMinus(sessions, s) == [r \in DOMAIN sessions \ {s} |-> sessions[r]]

\* mTasks[taskId].push_back(p) for every entry of the list: operator[] creates
\* the key of a task that has none.
TasksPlus(tasks, p, list) ==
    [t \in DOMAIN tasks \cup Listed(list) |->
        [q \in Ptrs |-> Refs(tasks, t, q) + (IF q = p THEN list[t] ELSE 0)]]

\* Mutation of Erase: the erase-remove idiom, which drops every occurrence.
EraseAll(bag, p, n) == [bag EXCEPT ![p] = IF n > 0 THEN 0 ELSE bag[p]]

\* One task's bag after n erasures of p.
Erase(bag, p, n) ==
    [bag EXCEPT ![p] = IF bag[p] > n THEN bag[p] - n ELSE 0]

Empty(bag) == \A q \in Ptrs : bag[q] = 0

\* Mutation of Emptied: empty vectors keep their key.
EmptiedNever(tasks, p, list) == {}

\* The loop of remove: one erasure per entry of linkedTasks, skipping a task
\* without a key and a task that does not hold p; the erasure that empties a
\* vector erases the key.
Emptied(tasks, p, list) ==
    {t \in DOMAIN tasks : /\ list[t] > 0
                          /\ tasks[t][p] > 0
                          /\ Empty(Erase(tasks[t], p, list[t]))}

TasksMinus(tasks, p, list) ==
    [t \in DOMAIN tasks \ Emptied(tasks, p, list) |-> Erase(tasks[t], p, list[t])]
-----------------------------------------------------------------------------

MapInit ==
    /\ mSessions = [s \in {} |-> 0]
    /\ mTasks = [t \in {} |-> 0]
    /\ \E s \in Sessions, x \in Values : heap = [p \in Ptrs |-> [sessionId |-> s, v |-> x]]
    /\ reply = Reply(TRUE, {}, {})

Refuse ==
    /\ reply' = Reply(FALSE, {}, {})
    /\ UNCHANGED <<mSessions, mTasks, heap>>

add(s, x, list) ==
    \/ s \in DOMAIN mSessions /\ Refuse
    \/ /\ s \notin DOMAIN mSessions
       /\ \E p \in Ptrs \ InUse(mSessions, mTasks) :
            /\ heap' = [heap EXCEPT ![p] = [sessionId |-> s, v |-> x]]
            /\ mSessions' = SessionsPlus(mSessions, s, p, list)
            /\ mTasks' = TasksPlus(mTasks, p, list)
       /\ reply' = Reply(TRUE, {}, {})

remove(s) ==
    \/ s \notin DOMAIN mSessions /\ Refuse
    \/ /\ s \in DOMAIN mSessions
       /\ mTasks' = TasksMinus(mTasks, mSessions[s].val, mSessions[s].linkedTasks)
       /\ mSessions' = SessionsMinus(mSessions, s)
       /\ reply' = Reply(TRUE, {}, {})
       /\ UNCHANGED heap

\* svTmp keeps the old object alive across remove() and add(), so the new
\* object has another address.
replace(s, list) ==
    \/ s \notin DOMAIN mSessions /\ Refuse
    \/ /\ s \in DOMAIN mSessions
       /\ LET old  == mSessions[s]
              gone == TasksMinus(mTasks, old.val, old.linkedTasks)
              rest == SessionsMinus(mSessions, s)
          IN  \E p \in Ptrs \ (InUse(rest, gone) \cup {old.val}) :
                /\ heap' = [heap EXCEPT ![p] = [heap[old.val] EXCEPT !.sessionId = s]]
                /\ mSessions' = SessionsPlus(rest, s, p, list)
                /\ mTasks' = TasksPlus(gone, p, list)
                /\ reply' = Reply(TRUE,
                                  Listed(list) \ DOMAIN mTasks,
                                  Listed(old.linkedTasks) \ DOMAIN mTasks')

\* findSession(s) and a write through the pointer it returns.
findSession(s, x) ==
    /\ s \in DOMAIN mSessions
    /\ heap' = [heap EXCEPT ![mSessions[s].val].v = x]
    /\ UNCHANGED <<mSessions, mTasks, reply>>

\* set_uclamp answered ESRCH for one entry of the session's list:
\* removeDeadTaskSessionMap and the erasure of that entry, whatever the former
\* returns.
removeDeadTaskSessionMap(s, t) ==
    /\ s \in DOMAIN mSessions
    /\ mSessions[s].linkedTasks[t] > 0
    /\ LET p   == mSessions[s].val
           one == [NoTasks EXCEPT ![t] = 1]
       IN  mTasks' = TasksMinus(mTasks, p, one)
    /\ mSessions' = [mSessions EXCEPT ![s].linkedTasks[t] = @ - 1]
    /\ UNCHANGED <<heap, reply>>

MapNext ==
    \E s \in Sessions :
        \/ \E x \in Values, list \in Lists : add(s, x, list)
        \/ remove(s)
        \/ \E list \in Lists : replace(s, list)
        \/ \E x \in Values : findSession(s, x)
        \/ \E t \in Tasks : removeDeadTaskSessionMap(s, t)

MapSpec == MapInit /\ [][MapNext]_mapVars
-----------------------------------------------------------------------------
\* Every variable keeps its type: the operations put nothing but known sessions,
\* threads and addresses into the mappings.
MapTypeOK ==
    /\ DOMAIN mSessions \subseteq Sessions
    /\ mSessions \in [DOMAIN mSessions -> [val : Ptrs, linkedTasks : [Tasks -> Nat]]]
    /\ DOMAIN mTasks \subseteq Tasks
    /\ mTasks \in [DOMAIN mTasks -> [Ptrs -> Nat]]
    /\ heap \in [Ptrs -> [sessionId : Sessions, v : Values]]
    /\ reply \in [ok : BOOLEAN, added : SUBSET Tasks, removed : SUBSET Tasks]

\* "Maintain consistency between mappings" (SessionTaskMap.h:33): a task's
\* vector holds a session's current object exactly as often as the session's
\* list names the task, after any sequence of add, remove, replace and removal
\* of dead threads, duplicated thread ids included.  In particular the branches
\* marked "Inconsisent state" and "Should not happen" are never taken.
MappingsConsistent ==
    \A s \in DOMAIN mSessions, t \in Tasks :
        Refs(mTasks, t, mSessions[s].val) = mSessions[s].linkedTasks[t]

\* A pointer found through a task is the object findSession returns for the
\* session it names: no task keeps the object of a removed session, nor the one
\* replace() copied from, so getTaskVoteRange sees what voteSet wrote.
PointersResolve ==
    \A t \in DOMAIN mTasks, p \in Ptrs : mTasks[t][p] > 0 =>
        /\ heap[p].sessionId \in DOMAIN mSessions
        /\ mSessions[heap[p].sessionId].val = p

\* The two mappings are sound: typed, consistent with one another, and without a
\* pointer to an object that was removed or replaced.
MapSound == MapTypeOK /\ MappingsConsistent /\ PointersResolve

\* The two maps implement one relation between sessions and tasks.
Links == INSTANCE SessionLinks WITH
    value <- [s \in DOMAIN mSessions |-> heap[mSessions[s].val].v],
    links <- {l \in (DOMAIN mSessions) \X Tasks : mSessions[l[1]].linkedTasks[l[2]] > 0}

\* Seen through that relation every operation does what its caller relies on:
\* replace() keeps the session's value and reports as added the tasks that had
\* no session and as removed those that have none left, which is what decides
\* whose QoS profile setThreadsFromPowerSession sets and clears.
ImplementsLinks == Links!Spec
=============================================================================
