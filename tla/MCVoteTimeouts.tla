--------------------------- MODULE MCVoteTimeouts ---------------------------
(***************************************************************************)
(* A session with a default and a boost vote, called from the binder       *)
(* thread and a channel thread while the worker handles its timeouts.      *)
(***************************************************************************)
EXTENDS VoteTimeouts

CONSTANTS s1, def, boost, binder, channel

MCOneSession == {s1}
MCVotes == {def, boost}
MCBoostVotes == {boost}
MCThreads == {binder, channel}
=============================================================================
