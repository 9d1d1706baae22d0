-------------------------- MODULE MCSessionRecords --------------------------
(***************************************************************************)
(* A ring of four records; frames that are fast, slow to start, and too    *)
(* long; seven reports and one reset or change of the game mode.           *)
(***************************************************************************)
EXTENDS SessionRecords

MCFrames == {<<1, 1>>, <<2, 3>>, <<4, 3>>}
=============================================================================
