------------------------ MODULE SessionTaskMapProofs ------------------------
(***************************************************************************)
(* The two maps of SessionTaskMap stay consistent, and they implement the  *)
(* relation of SessionLinks, for any sessions, threads, lists and heap.    *)
(*                                                                         *)
(* The argument speaks of the maps only through Refs: two lemmas say what  *)
(* add and remove do to Refs, and the steps never look inside a bag again. *)
(***************************************************************************)
EXTENDS SessionTaskMap, TLAPS

\* The type of mTasks, for any value of it.
IsTasks(tasks) ==
    /\ DOMAIN tasks \subseteq Tasks
    /\ tasks \in [DOMAIN tasks -> [Ptrs -> Nat]]

\* A key is only kept for a vector that holds a pointer.
NoEmptyVector(tasks) ==
    \A t \in DOMAIN tasks : \E q \in Ptrs : tasks[t][q] > 0

\* The inductive invariant, for any value of the two maps and the heap.  Beyond
\* the two properties it says that an object names the session it belongs to,
\* hence that sessions share no object, and that no empty vector is kept.
MapInv(ms, mt, h) ==
    /\ DOMAIN ms \subseteq Sessions
    /\ ms \in [DOMAIN ms -> [val : Ptrs, linkedTasks : [Tasks -> Nat]]]
    /\ IsTasks(mt)
    /\ NoEmptyVector(mt)
    /\ h \in [Ptrs -> [sessionId : Sessions, v : Values]]
    /\ \A s \in DOMAIN ms, t \in Tasks : Refs(mt, t, ms[s].val) = ms[s].linkedTasks[t]
    /\ \A t \in Tasks, p \in Ptrs : Refs(mt, t, p) > 0 =>
            /\ h[p].sessionId \in DOMAIN ms
            /\ ms[h[p].sessionId].val = p
    /\ \A s \in DOMAIN ms : h[ms[s].val].sessionId = s

IInv ==
    /\ MapInv(mSessions, mTasks, heap)
    /\ reply \in [ok : BOOLEAN, added : SUBSET Tasks, removed : SUBSET Tasks]
-----------------------------------------------------------------------------

\* Refs counts: it is a natural number.
LEMMA RefsType ==
    ASSUME NEW tasks, IsTasks(tasks), NEW t \in Tasks, NEW p \in Ptrs
    PROVE  Refs(tasks, t, p) \in Nat
  BY DEF Refs, IsTasks

\* A task has a key exactly when its vector holds some pointer.
LEMMA KeyIffRef ==
    ASSUME NEW tasks, IsTasks(tasks), NoEmptyVector(tasks), NEW t \in Tasks
    PROVE  t \in DOMAIN tasks <=> \E q \in Ptrs : Refs(tasks, t, q) > 0
  BY DEF Refs, IsTasks, NoEmptyVector

\* The pushes of add() count the list's entries in, for the new pointer only.
LEMMA PlusRefs ==
    ASSUME NEW tasks, IsTasks(tasks), NoEmptyVector(tasks),
           NEW p \in Ptrs, NEW list \in [Tasks -> Nat]
    PROVE  /\ IsTasks(TasksPlus(tasks, p, list))
           /\ NoEmptyVector(TasksPlus(tasks, p, list))
           /\ \A t \in Tasks, q \in Ptrs :
                Refs(TasksPlus(tasks, p, list), t, q)
                    = Refs(tasks, t, q) + (IF q = p THEN list[t] ELSE 0)
<1> DEFINE new == TasksPlus(tasks, p, list)
<1>1. DOMAIN new = DOMAIN tasks \cup Listed(list)
  BY DEF TasksPlus
<1>2. \A t \in DOMAIN new, q \in Ptrs :
         new[t][q] = Refs(tasks, t, q) + (IF q = p THEN list[t] ELSE 0)
  BY DEF TasksPlus
<1>3. DOMAIN new \subseteq Tasks
  BY <1>1 DEF IsTasks, Listed
<1>4. \A t \in DOMAIN new : new[t] \in [Ptrs -> Nat]
  BY <1>3, RefsType DEF TasksPlus
<1>5. new = [t \in DOMAIN new |-> new[t]]
  BY DEF TasksPlus
<1>6. IsTasks(new)
  BY <1>3, <1>4, <1>5 DEF IsTasks
<1>7. ASSUME NEW t \in DOMAIN new
      PROVE  \E q \in Ptrs : new[t][q] > 0
  <2>1. CASE t \in DOMAIN tasks
    <3>1. PICK q \in Ptrs : tasks[t][q] > 0
      BY <2>1 DEF NoEmptyVector
    <3>2. new[t][q] = tasks[t][q] + (IF q = p THEN list[t] ELSE 0)
      BY <1>2, <2>1 DEF Refs
    <3>3. tasks[t][q] \in Nat /\ list[t] \in Nat
      BY <2>1 DEF IsTasks
    <3> QED BY <3>1, <3>2, <3>3
  <2>2. CASE t \notin DOMAIN tasks
    <3>1. list[t] > 0 /\ list[t] \in Nat
      BY <1>1, <1>3, <2>2 DEF Listed
    <3>2. new[t][p] = 0 + list[t]
      BY <1>2, <2>2 DEF Refs
    <3> QED BY <3>1, <3>2
  <2> QED BY <2>1, <2>2
<1>8. ASSUME NEW t \in Tasks, NEW q \in Ptrs
      PROVE  Refs(new, t, q) = Refs(tasks, t, q) + (IF q = p THEN list[t] ELSE 0)
  <2>1. CASE t \in DOMAIN new
    BY <1>2, <2>1 DEF Refs
  <2>2. CASE t \notin DOMAIN new
    <3>1. t \notin DOMAIN tasks /\ list[t] = 0
      BY <1>1, <2>2 DEF Listed
    <3> QED BY <3>1, <2>2 DEF Refs
  <2> QED BY <2>1, <2>2
<1> QED BY <1>6, <1>7, <1>8 DEF NoEmptyVector

\* The erasures of remove() count the list's entries out, for that pointer only,
\* provided that they are all there.
LEMMA MinusRefs ==
    ASSUME NEW tasks, IsTasks(tasks), NoEmptyVector(tasks),
           NEW p \in Ptrs, NEW list \in [Tasks -> Nat],
           \A t \in Tasks : list[t] =< Refs(tasks, t, p)
    PROVE  /\ IsTasks(TasksMinus(tasks, p, list))
           /\ NoEmptyVector(TasksMinus(tasks, p, list))
           /\ \A t \in Tasks, q \in Ptrs :
                Refs(TasksMinus(tasks, p, list), t, q)
                    = Refs(tasks, t, q) - (IF q = p THEN list[t] ELSE 0)
<1> DEFINE new == TasksMinus(tasks, p, list)
<1>1. DOMAIN new = DOMAIN tasks \ Emptied(tasks, p, list)
  BY DEF TasksMinus
<1>2. \A t \in DOMAIN new : new[t] = Erase(tasks[t], p, list[t])
  BY DEF TasksMinus
<1>3. ASSUME NEW t \in DOMAIN tasks
      PROVE  /\ t \in Tasks
             /\ tasks[t] \in [Ptrs -> Nat]
             /\ list[t] \in Nat
             /\ list[t] =< tasks[t][p]
  BY DEF IsTasks, Refs
<1>4. ASSUME NEW t \in DOMAIN tasks
      PROVE  /\ Erase(tasks[t], p, list[t]) \in [Ptrs -> Nat]
             /\ \A q \in Ptrs : Erase(tasks[t], p, list[t])[q]
                    = tasks[t][q] - (IF q = p THEN list[t] ELSE 0)
  BY <1>3 DEF Erase
<1>5. new = [t \in DOMAIN new |-> new[t]]
  BY DEF TasksMinus
<1>6. IsTasks(new)
  <2>1. DOMAIN new \subseteq Tasks
    BY <1>1, <1>3
  <2>2. \A t \in DOMAIN new : new[t] \in [Ptrs -> Nat]
    BY <1>1, <1>2, <1>4
  <2> QED BY <1>5, <2>1, <2>2 DEF IsTasks
<1>7. ASSUME NEW t \in DOMAIN new
      PROVE  \E q \in Ptrs : new[t][q] > 0
  <2>1. t \in DOMAIN tasks /\ t \notin Emptied(tasks, p, list)
    BY <1>1
  <2>2. CASE list[t] = 0
    <3>1. PICK q \in Ptrs : tasks[t][q] > 0
      BY <2>1 DEF NoEmptyVector
    <3>2. new[t][q] = tasks[t][q] - (IF q = p THEN list[t] ELSE 0)
      BY <1>2, <1>4, <2>1
    <3>3. tasks[t][q] \in Nat
      BY <1>3, <2>1
    <3> QED BY <3>1, <3>2, <3>3, <2>2
  <2>3. CASE list[t] # 0
    <3>1. list[t] > 0 /\ tasks[t][p] > 0
      BY <1>3, <2>1, <2>3
    <3>2. ~ Empty(Erase(tasks[t], p, list[t]))
      BY <3>1, <2>1 DEF Emptied
    <3>3. PICK q \in Ptrs : Erase(tasks[t], p, list[t])[q] # 0
      BY <3>2 DEF Empty
    <3>4. Erase(tasks[t], p, list[t])[q] \in Nat
      BY <1>4, <2>1
    <3> QED BY <3>3, <3>4, <1>2
  <2> QED BY <2>2, <2>3
<1>8. ASSUME NEW t \in Tasks, NEW q \in Ptrs
      PROVE  Refs(new, t, q) = Refs(tasks, t, q) - (IF q = p THEN list[t] ELSE 0)
  <2>1. CASE t \in DOMAIN new
    <3>1. t \in DOMAIN tasks
      BY <1>1, <2>1
    <3> QED BY <1>2, <1>4, <2>1, <3>1 DEF Refs
  <2>2. CASE t \in Emptied(tasks, p, list)
    <3>1. t \in DOMAIN tasks /\ Erase(tasks[t], p, list[t])[q] = 0
      BY <2>2 DEF Emptied, Empty
    <3>2. t \notin DOMAIN new
      BY <1>1, <2>2
    <3> QED BY <3>1, <3>2, <1>4 DEF Refs
  <2>3. CASE t \notin DOMAIN tasks
    <3>1. t \notin DOMAIN new
      BY <1>1, <2>3
    <3>2. list[t] = 0
      BY <2>3 DEF Refs
    <3> QED BY <3>1, <3>2, <2>3 DEF Refs
  <2> QED BY <1>1, <2>1, <2>2, <2>3
<1> QED BY <1>6, <1>7, <1>8 DEF NoEmptyVector
-----------------------------------------------------------------------------

\* add() of an unknown session keeps the maps consistent.
LEMMA AddKeepsMaps ==
    ASSUME NEW ms, NEW mt, NEW h, MapInv(ms, mt, h),
           NEW s \in Sessions, s \notin DOMAIN ms,
           NEW p \in Ptrs, p \notin InUse(ms, mt),
           NEW x \in Values, NEW list \in [Tasks -> Nat]
    PROVE  MapInv(SessionsPlus(ms, s, p, list), TasksPlus(mt, p, list),
                  [h EXCEPT ![p] = [sessionId |-> s, v |-> x]])
<1> DEFINE ns == SessionsPlus(ms, s, p, list)
           nt == TasksPlus(mt, p, list)
           nh == [h EXCEPT ![p] = [sessionId |-> s, v |-> x]]
<1>1. /\ DOMAIN ns = DOMAIN ms \cup {s}
      /\ ns[s] = [val |-> p, linkedTasks |-> list]
      /\ \A r \in DOMAIN ms : ns[r] = ms[r]
  BY DEF SessionsPlus
<1>2. /\ IsTasks(nt)
      /\ NoEmptyVector(nt)
      /\ \A t \in Tasks, q \in Ptrs :
            Refs(nt, t, q) = Refs(mt, t, q) + (IF q = p THEN list[t] ELSE 0)
  BY PlusRefs DEF MapInv
<1>3. /\ \A r \in DOMAIN ms : ms[r].val \in Ptrs /\ ms[r].val # p
      /\ \A t \in Tasks : Refs(mt, t, p) = 0
  BY DEF InUse, Refs, MapInv, IsTasks
<1>4. /\ DOMAIN ns \subseteq Sessions
      /\ ns \in [DOMAIN ns -> [val : Ptrs, linkedTasks : [Tasks -> Nat]]]
  BY <1>1 DEF MapInv, SessionsPlus
<1>5. /\ nh \in [Ptrs -> [sessionId : Sessions, v : Values]]
      /\ nh[p].sessionId = s
      /\ \A q \in Ptrs \ {p} : nh[q] = h[q]
  BY DEF MapInv
<1>6. ASSUME NEW r \in DOMAIN ns, NEW t \in Tasks
      PROVE  Refs(nt, t, ns[r].val) = ns[r].linkedTasks[t]
  <2>1. CASE r = s
    BY <1>1, <1>2, <1>3, <2>1
  <2>2. CASE r \in DOMAIN ms
    <3>1. Refs(nt, t, ms[r].val) = Refs(mt, t, ms[r].val) + 0
      BY <1>2, <1>3, <2>2
    <3>2. Refs(mt, t, ms[r].val) \in Nat
      BY <1>3, <2>2, RefsType DEF MapInv
    <3> QED BY <1>1, <2>2, <3>1, <3>2 DEF MapInv
  <2> QED BY <1>1, <2>1, <2>2
<1>7. ASSUME NEW t \in Tasks, NEW q \in Ptrs, Refs(nt, t, q) > 0
      PROVE  nh[q].sessionId \in DOMAIN ns /\ ns[nh[q].sessionId].val = q
  <2>1. CASE q = p
    BY <1>1, <1>5, <2>1
  <2>2. CASE q # p
    <3>1. Refs(mt, t, q) > 0
      BY <1>2, <1>7, <2>2, RefsType DEF MapInv
    <3>2. h[q].sessionId \in DOMAIN ms /\ ms[h[q].sessionId].val = q
      BY <3>1 DEF MapInv
    <3> QED BY <1>1, <1>5, <2>2, <3>2
  <2> QED BY <2>1, <2>2
<1>8. \A r \in DOMAIN ns : nh[ns[r].val].sessionId = r
  BY <1>1, <1>3, <1>5 DEF MapInv
<1> HIDE DEF ns, nt, nh
<1>9. MapInv(ns, nt, nh)
  BY <1>2, <1>4, <1>5, <1>6, <1>7, <1>8 DEF MapInv
<1> QED BY <1>9 DEF ns, nt, nh

\* remove() of a known session keeps them consistent, and leaves no reference
\* to its object: what the comment at SessionTaskMap.cpp:193 relies on.
LEMMA RemoveKeepsMaps ==
    ASSUME NEW ms, NEW mt, NEW h, MapInv(ms, mt, h), NEW s \in DOMAIN ms
    PROVE  LET ns == SessionsMinus(ms, s)
               nt == TasksMinus(mt, ms[s].val, ms[s].linkedTasks)
           IN  MapInv(ns, nt, h) /\ ms[s].val \notin InUse(ns, nt)
<1> DEFINE p == ms[s].val
           list == ms[s].linkedTasks
           ns == SessionsMinus(ms, s)
           nt == TasksMinus(mt, p, list)
<1>1. /\ DOMAIN ns = DOMAIN ms \ {s}
      /\ \A r \in DOMAIN ns : ns[r] = ms[r]
      /\ ns \in [DOMAIN ns -> [val : Ptrs, linkedTasks : [Tasks -> Nat]]]
  BY DEF SessionsMinus, MapInv
<1>2. p \in Ptrs /\ list \in [Tasks -> Nat]
  BY DEF MapInv
<1>3. \A t \in Tasks : list[t] = Refs(mt, t, p)
  BY DEF MapInv
<1>4. /\ IsTasks(nt)
      /\ NoEmptyVector(nt)
      /\ \A t \in Tasks, q \in Ptrs :
            Refs(nt, t, q) = Refs(mt, t, q) - (IF q = p THEN list[t] ELSE 0)
  <2>1. \A t \in Tasks : list[t] =< Refs(mt, t, p)
    BY <1>2, <1>3
  <2>2. IsTasks(mt) /\ NoEmptyVector(mt)
    BY DEF MapInv
  <2> HIDE DEF p, list
  <2> QED BY <1>2, <2>1, <2>2, MinusRefs
<1>5. \A t \in Tasks : Refs(nt, t, p) = 0
  BY <1>2, <1>3, <1>4
<1>6. \A t \in Tasks, q \in Ptrs \ {p} : Refs(nt, t, q) = Refs(mt, t, q)
  <2>1. ASSUME NEW t \in Tasks, NEW q \in Ptrs \ {p}
        PROVE  Refs(nt, t, q) = Refs(mt, t, q)
    <3>1. Refs(mt, t, q) \in Nat
      BY RefsType DEF MapInv
    <3> QED BY <1>4, <3>1
  <2> QED BY <2>1
<1>7. \A r \in DOMAIN ns : ns[r].val \in Ptrs /\ ns[r].val # p
  BY <1>1 DEF MapInv
<1>8. MapInv(ns, nt, h)
  <2>1. \A r \in DOMAIN ns, t \in Tasks : Refs(nt, t, ns[r].val) = ns[r].linkedTasks[t]
    BY <1>1, <1>6, <1>7 DEF MapInv
  <2>2. ASSUME NEW t \in Tasks, NEW q \in Ptrs, Refs(nt, t, q) > 0
        PROVE  h[q].sessionId \in DOMAIN ns /\ ns[h[q].sessionId].val = q
    <3>1. q # p /\ Refs(mt, t, q) > 0
      BY <1>5, <1>6, <2>2
    <3>2. h[q].sessionId \in DOMAIN ms /\ ms[h[q].sessionId].val = q
      BY <3>1 DEF MapInv
    <3> QED BY <1>1, <3>1, <3>2
  <2>3. \A r \in DOMAIN ns : h[ns[r].val].sessionId = r
    BY <1>1 DEF MapInv
  <2>4. /\ DOMAIN ns \subseteq Sessions
        /\ h \in [Ptrs -> [sessionId : Sessions, v : Values]]
    BY <1>1 DEF MapInv
  <2> HIDE DEF ns, nt
  <2> QED BY <1>1, <1>4, <2>1, <2>2, <2>3, <2>4 DEF MapInv
<1>9. p \notin InUse(ns, nt)
  BY <1>4, <1>5, <1>7 DEF InUse, Refs, IsTasks
<1> QED BY <1>8, <1>9

\* Dropping one entry for a dead thread from both maps keeps them consistent.
LEMMA DeadKeepsMaps ==
    ASSUME NEW ms, NEW mt, NEW h, MapInv(ms, mt, h),
           NEW s \in DOMAIN ms, NEW t \in Tasks, ms[s].linkedTasks[t] > 0
    PROVE  MapInv([ms EXCEPT ![s].linkedTasks[t] = @ - 1],
                  TasksMinus(mt, ms[s].val, [NoTasks EXCEPT ![t] = 1]), h)
<1> DEFINE p == ms[s].val
           one == [NoTasks EXCEPT ![t] = 1]
           ns == [ms EXCEPT ![s].linkedTasks[t] = @ - 1]
           nt == TasksMinus(mt, p, one)
<1>1. /\ p \in Ptrs
      /\ ms[s].val = p
      /\ ms[s].linkedTasks \in [Tasks -> Nat]
  BY DEF MapInv
<1>2. one \in [Tasks -> Nat] /\ \A u \in Tasks : one[u] = IF u = t THEN 1 ELSE 0
  BY DEF NoTasks
<1>3. \A u \in Tasks : Refs(mt, u, p) = ms[s].linkedTasks[u]
  BY DEF MapInv
<1>4. /\ IsTasks(nt)
      /\ NoEmptyVector(nt)
      /\ \A u \in Tasks, q \in Ptrs :
            Refs(nt, u, q) = Refs(mt, u, q) - (IF q = p THEN one[u] ELSE 0)
  <2>1. \A u \in Tasks : one[u] =< Refs(mt, u, p)
    BY <1>1, <1>2, <1>3
  <2>2. IsTasks(mt) /\ NoEmptyVector(mt)
    BY DEF MapInv
  <2> HIDE DEF p, one
  <2> QED BY <1>1, <1>2, <2>1, <2>2, MinusRefs
<1>5. /\ DOMAIN ns = DOMAIN ms
      /\ \A r \in DOMAIN ms : ns[r].val = ms[r].val
      /\ \A r \in DOMAIN ms \ {s} : ns[r] = ms[r]
      /\ ns[s].linkedTasks = [ms[s].linkedTasks EXCEPT ![t] = @ - 1]
      /\ ns \in [DOMAIN ns -> [val : Ptrs, linkedTasks : [Tasks -> Nat]]]
  <2>1. ms \in [DOMAIN ms -> [val : Ptrs, linkedTasks : [Tasks -> Nat]]]
    BY DEF MapInv
  <2>2. [ms[s].linkedTasks EXCEPT ![t] = @ - 1] \in [Tasks -> Nat]
    BY <1>1
  <2>3. ns = [ms EXCEPT ![s] = [ms[s] EXCEPT !.linkedTasks =
                                    [ms[s].linkedTasks EXCEPT ![t] = @ - 1]]]
    BY <2>1
  <2> QED BY <2>1, <2>2, <2>3, SMTT(60)
<1> HIDE DEF p, one, ns, nt
<1>6. ASSUME NEW r \in DOMAIN ns, NEW u \in Tasks
      PROVE  Refs(nt, u, ns[r].val) = ns[r].linkedTasks[u]
  <2>1. CASE r = s
    <3>1. ns[s].val = p
      BY <1>1, <1>5
    <3>2. Refs(nt, u, p) = ms[s].linkedTasks[u] - one[u]
      BY <1>1, <1>3, <1>4
    <3>3. ns[s].linkedTasks[u] = ms[s].linkedTasks[u] - (IF u = t THEN 1 ELSE 0)
      BY <1>1, <1>5
    <3> QED BY <1>2, <2>1, <3>1, <3>2, <3>3
  <2>2. CASE r # s
    <3>1. ms[r].val \in Ptrs /\ ms[r].val # p
      BY <1>1, <1>5, <2>2 DEF MapInv
    <3>2. Refs(mt, u, ms[r].val) \in Nat
      BY <3>1, RefsType DEF MapInv
    <3>3. Refs(mt, u, ms[r].val) = ms[r].linkedTasks[u]
      BY <1>5 DEF MapInv
    <3> QED BY <1>4, <1>5, <2>2, <3>1, <3>2, <3>3
  <2> QED BY <2>1, <2>2
<1>7. ASSUME NEW u \in Tasks, NEW q \in Ptrs, Refs(nt, u, q) > 0
      PROVE  h[q].sessionId \in DOMAIN ns /\ ns[h[q].sessionId].val = q
  <2>1. Refs(mt, u, q) \in Nat
    BY RefsType DEF MapInv
  <2>2. Refs(mt, u, q) > 0
    BY <1>2, <1>4, <1>7, <2>1
  <2> QED BY <1>5, <2>2 DEF MapInv
<1>8. /\ \A r \in DOMAIN ns : h[ns[r].val].sessionId = r
      /\ DOMAIN ns \subseteq Sessions
      /\ h \in [Ptrs -> [sessionId : Sessions, v : Values]]
  BY <1>5 DEF MapInv
<1>9. MapInv(ns, nt, h)
  BY <1>4, <1>5, <1>6, <1>7, <1>8 DEF MapInv
<1> QED BY <1>9 DEF p, one, ns, nt
-----------------------------------------------------------------------------

\* The new object of replace() copies the value of the old one.
LEMMA CopyOfObject ==
    ASSUME NEW h \in [Ptrs -> [sessionId : Sessions, v : Values]],
           NEW p \in Ptrs, NEW s \in Sessions
    PROVE  [h[p] EXCEPT !.sessionId = s] = [sessionId |-> s, v |-> h[p].v]
  OBVIOUS

\* Every step of the map keeps the inductive invariant.
LEMMA StepKeepsIInv == IInv /\ [MapNext]_mapVars => IInv'
<1> SUFFICES ASSUME IInv, [MapNext]_mapVars PROVE IInv'
  OBVIOUS
<1> USE DEF IInv
<1>1. CASE UNCHANGED mapVars
  BY <1>1 DEF mapVars, MapInv, IsTasks, NoEmptyVector, Refs
<1>2. CASE Refuse
  BY <1>2 DEF Refuse, Reply, MapInv, IsTasks, NoEmptyVector, Refs
<1>3. ASSUME NEW s \in Sessions, NEW x \in Values, NEW list \in Lists, add(s, x, list)
      PROVE  IInv'
  <2>1. CASE s \notin DOMAIN mSessions
    <3>1. list \in [Tasks -> Nat]
      BY ListsAssumption
    <3>2. PICK p \in Ptrs \ InUse(mSessions, mTasks) :
            /\ heap' = [heap EXCEPT ![p] = [sessionId |-> s, v |-> x]]
            /\ mSessions' = SessionsPlus(mSessions, s, p, list)
            /\ mTasks' = TasksPlus(mTasks, p, list)
      BY <1>3, <2>1, Zenon DEF add, Refuse
    <3>3. MapInv(SessionsPlus(mSessions, s, p, list), TasksPlus(mTasks, p, list),
                 [heap EXCEPT ![p] = [sessionId |-> s, v |-> x]])
      BY <2>1, <3>1, AddKeepsMaps
    <3>4. MapInv(mSessions', mTasks', heap')
      BY <3>2, <3>3
    <3>5. reply' = Reply(TRUE, {}, {})
      BY <1>3, <2>1, Zenon DEF add
    <3> QED BY <3>4, <3>5 DEF Reply
  <2> QED BY <1>2, <1>3, <2>1, Zenon DEF add
<1>4. ASSUME NEW s \in Sessions, remove(s)
      PROVE  IInv'
  <2>1. CASE s \in DOMAIN mSessions
    <3>1. /\ mTasks' = TasksMinus(mTasks, mSessions[s].val, mSessions[s].linkedTasks)
          /\ mSessions' = SessionsMinus(mSessions, s)
          /\ reply' = Reply(TRUE, {}, {})
          /\ heap' = heap
      BY <1>4, <2>1, Zenon DEF remove
    <3>2. MapInv(mSessions', mTasks', heap')
      BY <2>1, <3>1, RemoveKeepsMaps
    <3> QED BY <3>1, <3>2 DEF Reply
  <2> QED BY <1>2, <1>4, <2>1, Zenon DEF remove
<1>5. ASSUME NEW s \in Sessions, NEW list \in Lists, replace(s, list)
      PROVE  IInv'
  <2>1. CASE s \in DOMAIN mSessions
    <3> DEFINE old == mSessions[s]
               gone == TasksMinus(mTasks, old.val, old.linkedTasks)
               rest == SessionsMinus(mSessions, s)
    <3>1. MapInv(rest, gone, heap)
      BY <2>1, RemoveKeepsMaps
    <3>2. PICK p \in Ptrs \ (InUse(rest, gone) \cup {old.val}) :
            /\ heap' = [heap EXCEPT ![p] = [heap[old.val] EXCEPT !.sessionId = s]]
            /\ mSessions' = SessionsPlus(rest, s, p, list)
            /\ mTasks' = TasksPlus(gone, p, list)
            /\ reply' = Reply(TRUE, Listed(list) \ DOMAIN mTasks,
                              Listed(old.linkedTasks) \ DOMAIN mTasks')
      BY <1>5, <2>1, Zenon DEF replace
    <3>3. /\ old.val \in Ptrs
          /\ heap \in [Ptrs -> [sessionId : Sessions, v : Values]]
      BY <2>1 DEF MapInv
    <3>4. heap[old.val].v \in Values
      BY <3>3
    <3>5. heap' = [heap EXCEPT ![p] = [sessionId |-> s, v |-> heap[old.val].v]]
      <4>1. [heap[old.val] EXCEPT !.sessionId = s] = [sessionId |-> s, v |-> heap[old.val].v]
        BY <3>3, CopyOfObject
      <4> HIDE DEF gone, rest, old
      <4> QED BY <3>2, <4>1, Zenon
    <3>6. s \notin DOMAIN rest /\ list \in [Tasks -> Nat]
      BY ListsAssumption DEF SessionsMinus
    <3>7. MapInv(mSessions', mTasks', heap')
      <4> DEFINE x == heap[old.val].v
      <4>1. x \in Values
        BY <3>4
      <4>2. heap' = [heap EXCEPT ![p] = [sessionId |-> s, v |-> x]]
        BY <3>5
      <4> HIDE DEF gone, rest, old, x
      <4>3. MapInv(SessionsPlus(rest, s, p, list), TasksPlus(gone, p, list),
                   [heap EXCEPT ![p] = [sessionId |-> s, v |-> x]])
        BY <3>1, <3>6, <4>1, AddKeepsMaps
      <4> QED BY <3>2, <4>2, <4>3, Zenon
    <3>8. reply' \in [ok : BOOLEAN, added : SUBSET Tasks, removed : SUBSET Tasks]
      BY <3>2 DEF Reply, Listed
    <3> QED BY <3>7, <3>8
  <2> QED BY <1>2, <1>5, <2>1, Zenon DEF replace
<1>6. ASSUME NEW s \in Sessions, NEW x \in Values, findSession(s, x)
      PROVE  IInv'
  <2>1. /\ s \in DOMAIN mSessions
        /\ heap' = [heap EXCEPT ![mSessions[s].val].v = x]
        /\ UNCHANGED <<mSessions, mTasks, reply>>
    BY <1>6 DEF findSession
  <2>2. /\ heap' \in [Ptrs -> [sessionId : Sessions, v : Values]]
        /\ \A p \in Ptrs : heap'[p].sessionId = heap[p].sessionId
    BY <2>1, SMTT(60) DEF MapInv
  <2>3. \A r \in DOMAIN mSessions : mSessions[r].val \in Ptrs
    BY DEF MapInv
  <2> QED BY <2>1, <2>2, <2>3 DEF MapInv, IsTasks, NoEmptyVector, Refs
<1>7. ASSUME NEW s \in Sessions, NEW t \in Tasks, removeDeadTaskSessionMap(s, t)
      PROVE  IInv'
  <2>1. MapInv(mSessions', mTasks', heap')
    BY <1>7, DeadKeepsMaps, Zenon DEF removeDeadTaskSessionMap
  <2> QED BY <1>7, <2>1 DEF removeDeadTaskSessionMap
<1> QED BY <1>1, <1>3, <1>4, <1>5, <1>6, <1>7 DEF MapNext

\* The empty map satisfies the invariant.
LEMMA InitHasIInv == MapInit => IInv
<1> SUFFICES ASSUME MapInit PROVE IInv
  OBVIOUS
<1>1. /\ DOMAIN mSessions = {}
      /\ DOMAIN mTasks = {}
      /\ mSessions \in [DOMAIN mSessions -> [val : Ptrs, linkedTasks : [Tasks -> Nat]]]
      /\ mTasks \in [DOMAIN mTasks -> [Ptrs -> Nat]]
  BY DEF MapInit
<1>2. heap \in [Ptrs -> [sessionId : Sessions, v : Values]]
  BY DEF MapInit
<1>3. reply \in [ok : BOOLEAN, added : SUBSET Tasks, removed : SUBSET Tasks]
  BY DEF MapInit, Reply
<1> QED BY <1>1, <1>2, <1>3 DEF IInv, MapInv, IsTasks, NoEmptyVector, Refs

\* What the invariant says of the properties.
LEMMA IInvGivesProperties == IInv => MapTypeOK /\ MappingsConsistent /\ PointersResolve
<1> SUFFICES ASSUME IInv PROVE MapTypeOK /\ MappingsConsistent /\ PointersResolve
  OBVIOUS
<1>1. MapTypeOK
  BY DEF IInv, MapInv, IsTasks, MapTypeOK
<1>2. MappingsConsistent
  BY DEF IInv, MapInv, MappingsConsistent
<1>3. PointersResolve
  BY DEF IInv, MapInv, PointersResolve, Refs, IsTasks
<1> QED BY <1>1, <1>2, <1>3

\* The type of the map's state is invariant.
THEOREM TypeCorrect == MapSpec => []MapTypeOK
  BY InitHasIInv, StepKeepsIInv, IInvGivesProperties, PTL DEF MapSpec

\* Whatever the calls, their order and the addresses the allocator returns, a
\* task's vector and the sessions' lists agree, entry for entry: SessionTaskMap.h:33,
\* "Maintain consistency between mappings".
THEOREM MapsStayConsistent == MapSpec => []MappingsConsistent
  BY InitHasIInv, StepKeepsIInv, IInvGivesProperties, PTL DEF MapSpec

\* No pointer of a task's vector outlives its session, whatever addresses are used
\* again: the raw pointers mTasks keeps are those of objects mSessions owns.
THEOREM NoPointerDangles == MapSpec => []PointersResolve
  BY InitHasIInv, StepKeepsIInv, IInvGivesProperties, PTL DEF MapSpec

\* These three together: the mappings of SessionTaskMap are sound after every sequence of
\* calls.
THEOREM MapStaysSound == MapSpec => []MapSound
  BY TypeCorrect, MapsStayConsistent, NoPointerDangles, PTL DEF MapSound
-----------------------------------------------------------------------------
\* The refinement mapping of Links, for any value of the maps and the heap.
ValueOf(ms, h) == [s \in DOMAIN ms |-> h[ms[s].val].v]

LinksOf(ms) == {l \in (DOMAIN ms) \X Tasks : ms[l[1]].linkedTasks[l[2]] > 0}

\* The keys of mTasks are the tasks some session is linked to.
LEMMA KeysAreLinked ==
    ASSUME NEW ms, NEW mt, NEW h, MapInv(ms, mt, h)
    PROVE  DOMAIN mt = {t \in Tasks : \E s \in Sessions : <<s, t>> \in LinksOf(ms)}
<1>1. ASSUME NEW t \in Tasks
      PROVE  t \in DOMAIN mt <=> \E s \in Sessions : <<s, t>> \in LinksOf(ms)
  <2>1. ASSUME t \in DOMAIN mt
        PROVE  \E s \in Sessions : <<s, t>> \in LinksOf(ms)
    <3>1. PICK q \in Ptrs : Refs(mt, t, q) > 0
      BY <2>1, KeyIffRef DEF MapInv
    <3>2. /\ h[q].sessionId \in DOMAIN ms
          /\ h[q].sessionId \in Sessions
          /\ ms[h[q].sessionId].val = q
      BY <3>1 DEF MapInv
    <3>3. ms[h[q].sessionId].linkedTasks[t] > 0
      BY <3>1, <3>2 DEF MapInv
    <3> QED BY <3>2, <3>3 DEF LinksOf
  <2>2. ASSUME NEW s \in Sessions, <<s, t>> \in LinksOf(ms)
        PROVE  t \in DOMAIN mt
    <3>1. s \in DOMAIN ms /\ ms[s].linkedTasks[t] > 0
      BY <2>2 DEF LinksOf
    <3>2. ms[s].val \in Ptrs /\ Refs(mt, t, ms[s].val) > 0
      BY <3>1 DEF MapInv
    <3> QED BY <3>2 DEF Refs
  <2> QED BY <2>1, <2>2, Zenon
<1> QED BY <1>1, Zenon DEF MapInv, IsTasks

\* The calls of SessionLinks, over the refinement mapping.
LEMMA MappedStep ==
    ASSUME IInv, IInv', NEW s \in Sessions,
           \/ \E x \in Values, list \in Lists : add(s, x, list)
           \/ remove(s)
           \/ \E list \in Lists : replace(s, list)
           \/ \E x \in Values : findSession(s, x)
           \/ \E t \in Tasks : removeDeadTaskSessionMap(s, t)
    PROVE  Links!Next
<1> DEFINE value == ValueOf(mSessions, heap)
           links == LinksOf(mSessions)
<1>1. MapInv(mSessions, mTasks, heap) /\ MapInv(mSessions', mTasks', heap')
  BY DEF IInv
<1>2. /\ mSessions \in [DOMAIN mSessions -> [val : Ptrs, linkedTasks : [Tasks -> Nat]]]
      /\ heap \in [Ptrs -> [sessionId : Sessions, v : Values]]
      /\ \A r \in DOMAIN mSessions : heap[mSessions[r].val].sessionId = r
  BY <1>1 DEF MapInv
<1>3. CASE Refuse /\ s \in DOMAIN mSessions
  <2>1. heap[mSessions[s].val].v \in Values /\ {} \in SUBSET Tasks
    BY <1>2, <1>3
  <2>2. Links!Add(s, heap[mSessions[s].val].v, {})
    BY <1>3 DEF Refuse, Reply, Links!Add, Links!Refuse, Links!Reply
  <2> QED BY <2>1, <2>2 DEF Links!Next
<1>4. CASE Refuse /\ s \notin DOMAIN mSessions
  BY <1>4 DEF Refuse, Reply, Links!Next, Links!Remove, Links!Refuse, Links!Reply
<1>5. ASSUME NEW x \in Values, NEW list \in Lists, add(s, x, list), s \notin DOMAIN mSessions
      PROVE  Links!Next
  <2>1. PICK p \in Ptrs \ InUse(mSessions, mTasks) :
            /\ heap' = [heap EXCEPT ![p] = [sessionId |-> s, v |-> x]]
            /\ mSessions' = SessionsPlus(mSessions, s, p, list)
    BY <1>5, Zenon DEF add
  <2>2. /\ DOMAIN mSessions' = DOMAIN mSessions \cup {s}
        /\ mSessions'[s] = [val |-> p, linkedTasks |-> list]
        /\ \A r \in DOMAIN mSessions : mSessions'[r] = mSessions[r]
    BY <2>1, <1>5 DEF SessionsPlus
  <2>3. \A r \in DOMAIN mSessions : mSessions[r].val \in Ptrs \ {p}
    BY <1>2 DEF InUse
  <2>4. ValueOf(mSessions', heap')
            = [r \in DOMAIN value \cup {s} |-> IF r = s THEN x ELSE value[r]]
    BY <1>2, <1>5, <2>1, <2>2, <2>3 DEF ValueOf
  <2>5. LinksOf(mSessions') = LinksOf(mSessions) \cup ({s} \X Listed(list))
    BY <1>5, <2>2 DEF LinksOf, Listed
  <2>6. Listed(list) \in SUBSET Tasks
    BY DEF Listed
  <2>7. reply' = Reply(TRUE, {}, {})
    BY <1>5, Zenon DEF add
  <2>8. Links!Add(s, x, Listed(list))
    BY <1>5, <2>4, <2>5, <2>7, ZenonT(60) DEF Links!Add, Links!Reply, Reply, ValueOf, LinksOf
  <2> QED BY <2>6, <2>8 DEF Links!Next
<1>6. ASSUME remove(s), s \in DOMAIN mSessions
      PROVE  Links!Next
  <2>1. /\ mSessions' = SessionsMinus(mSessions, s)
        /\ reply' = Reply(TRUE, {}, {})
        /\ heap' = heap
    BY <1>6, Zenon DEF remove
  <2>2. /\ DOMAIN mSessions' = DOMAIN mSessions \ {s}
        /\ \A r \in DOMAIN mSessions' : mSessions'[r] = mSessions[r]
    BY <2>1 DEF SessionsMinus
  <2>3. ValueOf(mSessions', heap') = [r \in DOMAIN value \ {s} |-> value[r]]
    BY <2>1, <2>2 DEF ValueOf
  <2>4. LinksOf(mSessions') = Links!Without(LinksOf(mSessions), s)
    BY <2>2 DEF LinksOf, Links!Without
  <2>5. Links!Remove(s)
    BY <1>6, <2>1, <2>3, <2>4 DEF Links!Remove, Links!Reply, Reply, ValueOf, LinksOf
  <2> QED BY <2>5 DEF Links!Next
<1>7. ASSUME NEW list \in Lists, replace(s, list), s \in DOMAIN mSessions
      PROVE  Links!Next
  <2> DEFINE old == mSessions[s]
             gone == TasksMinus(mTasks, old.val, old.linkedTasks)
             rest == SessionsMinus(mSessions, s)
  <2>1. PICK p \in Ptrs \ (InUse(rest, gone) \cup {old.val}) :
            /\ heap' = [heap EXCEPT ![p] = [heap[old.val] EXCEPT !.sessionId = s]]
            /\ mSessions' = SessionsPlus(rest, s, p, list)
            /\ reply' = Reply(TRUE, Listed(list) \ DOMAIN mTasks,
                              Listed(old.linkedTasks) \ DOMAIN mTasks')
    BY <1>7, Zenon DEF replace
  <2>2. /\ DOMAIN mSessions' = DOMAIN mSessions
        /\ mSessions'[s] = [val |-> p, linkedTasks |-> list]
        /\ \A r \in DOMAIN mSessions \ {s} : mSessions'[r] = mSessions[r]
    BY <1>7, <2>1 DEF SessionsPlus, SessionsMinus
  <2>3. \A r \in DOMAIN mSessions : mSessions[r].val \in Ptrs \ {p}
    <3>1. p # old.val /\ \A r \in DOMAIN rest : rest[r].val # p
      BY DEF InUse
    <3>2. \A r \in DOMAIN mSessions \ {s} : mSessions[r].val # p
      BY <3>1 DEF SessionsMinus
    <3> QED BY <1>2, <3>1, <3>2
  <2>4. /\ heap'[p].v = heap[old.val].v
        /\ \A q \in Ptrs \ {p} : heap'[q] = heap[q]
    <3>1. old.val \in Ptrs
      BY <1>2, <1>7
    <3>2. [heap[old.val] EXCEPT !.sessionId = s] = [sessionId |-> s, v |-> heap[old.val].v]
      BY <1>2, <3>1, CopyOfObject
    <3> HIDE DEF old, gone, rest
    <3> QED BY <1>2, <2>1, <3>2
  <2>5. ValueOf(mSessions', heap') = value
    <3>1. \A r \in DOMAIN mSessions : heap'[mSessions'[r].val].v = heap[mSessions[r].val].v
      BY <2>2, <2>3, <2>4
    <3> QED BY <2>2, <3>1 DEF ValueOf
  <2>6. LinksOf(mSessions') = Links!Without(links, s) \cup ({s} \X Listed(list))
    <3> DEFINE R == Links!Without(links, s) \cup ({s} \X Listed(list))
    <3>1. ASSUME NEW r \in Sessions, NEW t \in Tasks
          PROVE  <<r, t>> \in LinksOf(mSessions') <=> <<r, t>> \in R
      <4>1. CASE r = s
        <5>1. <<s, t>> \in LinksOf(mSessions') <=> list[t] > 0
          BY <1>7, <2>2 DEF LinksOf
        <5>2. <<s, t>> \in R <=> t \in Listed(list)
          BY DEF Links!Without
        <5> QED BY <4>1, <5>1, <5>2 DEF Listed
      <4>2. CASE r # s
        BY <1>7, <2>2, <4>2 DEF LinksOf, Links!Without, Listed
      <4> QED BY <4>1, <4>2
    <3>2. LinksOf(mSessions') \subseteq Sessions \X Tasks /\ R \subseteq Sessions \X Tasks
      BY <1>2, <1>7, <2>2 DEF LinksOf, Links!Without, Listed
    <3> HIDE DEF R
    <3>3. LinksOf(mSessions') = R
      BY <3>1, <3>2
    <3> QED BY <3>3 DEF R
  <2>7. /\ DOMAIN mTasks = Links!Linked(LinksOf(mSessions))
        /\ DOMAIN mTasks' = Links!Linked(LinksOf(mSessions'))
    BY <1>1, KeysAreLinked, Zenon DEF Links!Linked
  <2>8. Listed(old.linkedTasks) = Links!TasksOf(LinksOf(mSessions), s)
    BY <1>7 DEF Listed, Links!TasksOf, LinksOf
  <2>9. /\ reply'.ok = TRUE
        /\ reply' = Links!Reply(TRUE, Listed(list) \ Links!Linked(LinksOf(mSessions)),
                Links!TasksOf(LinksOf(mSessions), s) \ Links!Linked(LinksOf(mSessions')))
    BY <2>1, <2>7, <2>8 DEF Reply, Links!Reply
  <2>10. Links!Replace(s, Listed(list))
    <3> HIDE DEF old, gone, rest
    <3> QED BY <1>7, <2>5, <2>6, <2>9, ZenonT(60) DEF Links!Replace, ValueOf, LinksOf
  <2>11. Listed(list) \in SUBSET Tasks
    BY DEF Listed
  <2> QED BY <2>10, <2>11 DEF Links!Next
<1>8. ASSUME NEW x \in Values, findSession(s, x)
      PROVE  Links!Next
  <2>1. /\ s \in DOMAIN mSessions
        /\ heap' = [heap EXCEPT ![mSessions[s].val].v = x]
        /\ UNCHANGED <<mSessions, mTasks, reply>>
    BY <1>8 DEF findSession
  <2>2. \A r \in DOMAIN mSessions \ {s} : mSessions[r].val # mSessions[s].val
    BY <1>2, <2>1
  <2>3. ValueOf(mSessions', heap') = [value EXCEPT ![s] = x]
    BY <1>2, <2>1, <2>2, ZenonT(60) DEF ValueOf
  <2>4. LinksOf(mSessions') = LinksOf(mSessions)
    BY <2>1 DEF LinksOf
  <2>5. Links!Update(s, x)
    BY <2>1, <2>3, <2>4 DEF Links!Update, ValueOf, LinksOf
  <2> QED BY <2>5 DEF Links!Next
<1>9. ASSUME NEW t \in Tasks, removeDeadTaskSessionMap(s, t)
      PROVE  Links!Next
  <2>1. /\ s \in DOMAIN mSessions
        /\ mSessions[s].linkedTasks[t] > 0
        /\ mSessions' = [mSessions EXCEPT ![s].linkedTasks[t] = @ - 1]
        /\ heap' = heap /\ reply' = reply
    BY <1>9 DEF removeDeadTaskSessionMap
  <2>2. /\ DOMAIN mSessions' = DOMAIN mSessions
        /\ \A r \in DOMAIN mSessions : mSessions'[r].val = mSessions[r].val
        /\ \A r \in DOMAIN mSessions, u \in Tasks : <<r, u>> # <<s, t>> =>
                mSessions'[r].linkedTasks[u] = mSessions[r].linkedTasks[u]
    <3>1. mSessions' = [mSessions EXCEPT ![s] = [mSessions[s] EXCEPT !.linkedTasks =
                            [mSessions[s].linkedTasks EXCEPT ![t] = @ - 1]]]
      BY <1>2, <2>1
    <3>2. mSessions[s].linkedTasks \in [Tasks -> Nat]
      BY <1>2, <2>1
    <3> QED BY <1>2, <2>1, <3>1, <3>2
  <2>3. ValueOf(mSessions', heap') = value
    BY <2>1, <2>2 DEF ValueOf
  <2>4. LinksOf(mSessions') \in {links, links \ {<<s, t>>}}
    <3>1. \A l \in (DOMAIN mSessions) \X Tasks : l # <<s, t>> =>
             (l \in LinksOf(mSessions') <=> l \in links)
      BY <2>2 DEF LinksOf
    <3>2. /\ links \subseteq (DOMAIN mSessions) \X Tasks
          /\ LinksOf(mSessions') \subseteq (DOMAIN mSessions) \X Tasks
          /\ <<s, t>> \in links
      BY <2>1, <2>2 DEF LinksOf
    <3> HIDE DEF links
    <3> QED BY <3>1, <3>2
  <2>5. <<s, t>> \in links
    BY <2>1 DEF LinksOf
  <2>6. Links!DropDead(s, t)
    BY <2>1, <2>3, <2>4, <2>5, ZenonT(60) DEF Links!DropDead, ValueOf, LinksOf
  <2> QED BY <2>6 DEF Links!Next
<1> QED BY <1>3, <1>4, <1>5, <1>6, <1>7, <1>8, <1>9, Zenon DEF add, remove, replace

\* The pointer-based maps implement the relation of SessionLinks: every call
\* changes the relation, the session's value and the lists of added and removed
\* threads as SessionLinks says, in particular replace() (SessionTaskMap.h:83,
\* "Maintain value of session, remove old task mapping add new").
THEOREM MapImplementsLinks == MapSpec => ImplementsLinks
<1>1. MapInit => Links!Init
  BY DEF MapInit, Reply, Links!Init, Links!Reply
<1>2. IInv /\ IInv' /\ [MapNext]_mapVars => [Links!Next]_(Links!vars)
  <2> SUFFICES ASSUME IInv, IInv', [MapNext]_mapVars
               PROVE  [Links!Next]_(Links!vars)
    OBVIOUS
  <2>1. CASE UNCHANGED mapVars
    BY <2>1 DEF mapVars, Links!vars
  <2>2. CASE MapNext
    BY <2>2, MappedStep DEF MapNext
  <2> QED BY <2>1, <2>2
<1> QED BY <1>1, <1>2, InitHasIInv, StepKeepsIInv, PTL DEF MapSpec, ImplementsLinks, Links!Spec
=============================================================================
