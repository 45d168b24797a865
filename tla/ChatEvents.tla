---------------------------- MODULE ChatEvents -----------------------------
(***************************************************************************)
(* The event vocabulary of packages/protocol/src/chat-events.ts, which the *)
(* server and the browser share.  Events that differ only in what they     *)
(* show are one event here: message.delta stands for every transcript      *)
(* event that neither opens, gates nor closes a run.                       *)
(***************************************************************************)
CONSTANT RunId  \* run ids the gateway hands out

TerminalEvents == {"run.completed", "run.failed", "run.cancelled"}

\* The events a log may hold.
LogEvents == TerminalEvents \cup
  {"run.started", "message.delta", "approval.request", "approval.responded"}
=============================================================================
