---------------------------- MODULE MCRunManager ----------------------------
(***************************************************************************)
(* Small instances of RunManager.                                          *)
(***************************************************************************)
EXTENDS RunManager, TLC

\* One frame of each class that the pump tells apart.
AllFrames == {"message.delta", "approval.request", "approval.responded",
              "run.completed", "unknown.completed", "run.heartbeat", "unknown"}

Symmetry == Permutations(RunId) \cup Permutations(PumpId)
=============================================================================
