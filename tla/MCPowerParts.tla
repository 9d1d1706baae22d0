---------------------------- MODULE MCPowerParts ----------------------------
(***************************************************************************)
(* Four parts of the power service that share no state, side by side: a    *)
(* behaviour is one of any of them, and the others rest in their first     *)
(* state.                                                                  *)
(*  - Two sessions share two threads; a list names at most two threads and *)
(*    may name one twice.  Two sessions and the copy replace() holds need  *)
(*    three addresses, so every allocation reuses a freed one.             *)
(*  - InteractionHandler: durations of one to four ticks, an offset of     *)
(*    one, a first poll of one tick and 16-valued unsigned numbers; the    *)
(*    arguments reach both bounds, values between them and a negative sum. *)
(*  - A session with a default and a boost vote, called from the binder    *)
(*    thread and a channel thread while the worker handles its timeouts.   *)
(*  - SessionRecords: a ring of four records, frames that are fast, slow   *)
(*    to start, and too long, seven reports and two resets or changes of   *)
(*    the game mode.                                                       *)
(***************************************************************************)
EXTENDS SessionTaskMap, InteractionHandler, VoteTimeouts, SessionRecords

CONSTANTS s1, s2, t1, t2, p1, p2, p3, def, boost, binder, channel

MCLists == {l \in [{t1, t2} -> 0..2] : l[t1] + l[t2] <= 2}
MCDurations == {-3, 0, 1, 2, 5}
MCFrames == {<<1, 1>>, <<2, 3>>, <<4, 3>>}

VARIABLE part

partVars == <<part, mapVars, handlerVars, vars, recordsVars>>

PartsInit ==
  /\ part \in {"map", "handler", "timeouts", "records"}
  /\ MapInit /\ Start /\ Init /\ RecordsInit
  /\ part # "records" => ~ game
  /\ part # "map" => heap = [p \in Ptrs |-> [sessionId |-> s1, v |-> 0]]

\* The bounded parts come to rest; the others never do.
AtRest == part \in {"timeouts", "records"} /\ UNCHANGED partVars

PartsNext ==
  \/ part = "map" /\ MapNext /\ UNCHANGED <<part, handlerVars, vars, recordsVars>>
  \/ part = "handler" /\ HandlerNext /\ UNCHANGED <<part, mapVars, vars, recordsVars>>
  \/ part = "timeouts" /\ Next /\ UNCHANGED <<part, mapVars, handlerVars, recordsVars>>
  \/ part = "records" /\ RecordsNext /\ UNCHANGED <<part, mapVars, handlerVars, vars>>
  \/ AtRest

\* HandlerFairness and Fairness, of the part that runs.
PartsFairness ==
  /\ WF_handlerVars(part = "handler" /\ RoutineMust)
  /\ WF_handlerVars(part = "handler" /\ HandlerTick)
  /\ WF_handlerVars(part = "handler" /\ ExitNotify)
  /\ WF_handlerVars(part = "handler" /\ ExitJoined)
  /\ \A k \in Schedulers : WF_vars(part = "timeouts" /\ Schedule(k))
  /\ WF_vars(part = "timeouts" /\ WorkerStep)
  /\ WF_vars(part = "timeouts" /\ Tick)

PartsSpec == PartsInit /\ [][PartsNext]_partVars /\ PartsFairness
=============================================================================
