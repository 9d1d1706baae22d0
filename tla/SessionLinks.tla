---------------------------- MODULE SessionLinks ----------------------------
(***************************************************************************)
(* What SessionTaskMap promises its callers: a set of sessions, each with  *)
(* a value, and one relation between sessions and tasks.  The header       *)
(* (SessionTaskMap.h:31-43) describes two maps that are kept consistent;   *)
(* here there is only the relation the two maps are views of, so there is  *)
(* nothing to keep consistent.  SessionTaskMap implements this module.     *)
(***************************************************************************)
EXTENDS Naturals

CONSTANTS Sessions,  \* session ids
          Tasks,     \* task (thread) ids
          Values     \* what a SessionValueEntry holds for its session

VARIABLES value,     \* value of every session in the map
          links,     \* pairs <<session, task>>
          reply      \* outcome of the last call that returns one

vars == <<value, links, reply>>

\* The outcome of add, remove and replace; addedThreads and removedThreads are
\* the vectors replace fills in, seen as sets.
Reply(ok, added, removed) == [ok |-> ok, added |-> added, removed |-> removed]

\* A task is linked when some session names it.
Linked(l) == {t \in Tasks : \E s \in Sessions : <<s, t>> \in l}

TasksOf(l, s) == {t \in Tasks : <<s, t>> \in l}

\* The relation without session s.
Without(l, s) == {p \in l : p[1] # s}

Init ==
    /\ value = [s \in {} |-> 0]
    /\ links = {}
    /\ reply = Reply(TRUE, {}, {})

Refuse ==
    /\ reply' = Reply(FALSE, {}, {})
    /\ UNCHANGED <<value, links>>

Add(s, v, T) ==
    \/ s \in DOMAIN value /\ Refuse
    \/ /\ s \notin DOMAIN value
       /\ value' = [r \in DOMAIN value \cup {s} |-> IF r = s THEN v ELSE value[r]]
       /\ links' = links \cup ({s} \X T)
       /\ reply' = Reply(TRUE, {}, {})

Remove(s) ==
    \/ s \notin DOMAIN value /\ Refuse
    \/ /\ s \in DOMAIN value
       /\ value' = [r \in DOMAIN value \ {s} |-> value[r]]
       /\ links' = Without(links, s)
       /\ reply' = Reply(TRUE, {}, {})

\* The session keeps its value.  The caller learns which tasks had no session
\* before the call and which have none after it.
Replace(s, T) ==
    \/ s \notin DOMAIN value /\ Refuse
    \/ /\ s \in DOMAIN value
       /\ links' = Without(links, s) \cup ({s} \X T)
       /\ reply' = Reply(TRUE, T \ Linked(links),
                         TasksOf(links, s) \ Linked(links'))
       /\ UNCHANGED value

\* A caller changes the value through the pointer findSession returns.
Update(s, v) ==
    /\ s \in DOMAIN value
    /\ value' = [value EXCEPT ![s] = v]
    /\ UNCHANGED <<links, reply>>

\* A dead task is dropped; it may still be named by a second entry of the
\* session's list.
DropDead(s, t) ==
    /\ <<s, t>> \in links
    /\ links' \in {links, links \ {<<s, t>>}}
    /\ UNCHANGED <<value, reply>>

Next ==
    \E s \in Sessions :
        \/ \E v \in Values, T \in SUBSET Tasks : Add(s, v, T)
        \/ Remove(s)
        \/ \E T \in SUBSET Tasks : Replace(s, T)
        \/ \E v \in Values : Update(s, v)
        \/ \E t \in Tasks : DropDead(s, t)

Spec == Init /\ [][Next]_vars
=============================================================================
