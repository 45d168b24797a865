---------------------------- MODULE MCChatSystem ----------------------------
(***************************************************************************)
(* Small instances of ChatSystem.                                          *)
(***************************************************************************)
EXTENDS ChatSystem

\* A gate that opens, is answered, and a run that ends.
GateFrames == {"approval.request", "approval.responded", "run.completed"}

\* A run that asks and ends.
AskFrames == {"approval.request", "run.completed"}

TextFrames == {"message.delta", "run.completed"}

Symmetry == Permutations(RunId) \cup Permutations(PumpId)
=============================================================================
