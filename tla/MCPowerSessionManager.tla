----------------------- MODULE MCPowerSessionManager -----------------------
(***************************************************************************)
(* Instances of PowerSessionManager.  Two sessions that may share a        *)
(* thread, one default and one boost vote each.                            *)
(***************************************************************************)
EXTENDS PowerSessionManager, TLC

CONSTANTS s1, s2, t1, t2, binder, channel, default, loadUp, gpuLoadUp, gpuCapacity

\* The last of the calls is made only where the sessions have no more than one thread
\* between them.
Within ==
    calls = MaxCalls => Cardinality(UNION {session[s].thread_ids : s \in Sessions}) <= 1

MCSpec == Init /\ [][Next /\ Within']_vars

\* Threads are only told apart by what they hold.
Symm == Permutations(Tasks)
=============================================================================
