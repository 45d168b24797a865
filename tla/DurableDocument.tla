-------------------------- MODULE DurableDocument --------------------------
(***************************************************************************)
(* What a write-through store of one file promises: a document in memory   *)
(* that is changed one entry at a time, and a file that follows it.  The   *)
(* file only ever holds a version that the memory has had, and never goes  *)
(* back to an earlier one; a change is answered once the file holds it or  *)
(* an attempt to write it has failed; a crash leaves what the file holds.  *)
(***************************************************************************)
EXTENDS Naturals, Sequences

CONSTANTS Request,  \* those who change the document
          Id,       \* keys of its entries
          Entry,    \* what a key can hold
          Absent    \* the entry of a key that is not there

VARIABLES disk,    \* the document in the file
          log,     \* the versions of the memory since it was opened, none before
          kept,    \* the version the file holds, 0 when it holds an older one
          failed,  \* the last version whose write has failed
          made     \* made[r]: the version of r's unanswered change, or 0

vars == <<disk, log, kept, failed, made>>

Document == [Id -> Entry]

Empty == [i \in Id |-> Absent]

Memory == log[Len(log)]

Init ==
  /\ disk \in Document
  /\ log = << >>
  /\ kept = 0
  /\ failed = 0
  /\ made = [r \in Request |-> 0]

\* A file that cannot be read counts as empty; it is not touched by that.
Open ==
  /\ log = << >>
  /\ \/ log' = <<disk>> /\ kept' = 1
     \/ log' = <<Empty>> /\ kept' = 0
  /\ UNCHANGED <<disk, failed, made>>

Change(r) ==
  /\ log # << >>
  /\ made[r] = 0
  /\ \E i \in Id, e \in Entry : log' = Append(log, [Memory EXCEPT ![i] = e])
  /\ made' = [made EXCEPT ![r] = Len(log')]
  /\ UNCHANGED <<disk, kept, failed>>

Save(k) ==
  /\ k \in (kept + 1) .. Len(log)
  /\ kept' = k
  /\ disk' = log[k]
  /\ UNCHANGED <<log, failed, made>>

SaveFails(k) ==
  /\ k \in (failed + 1) .. Len(log)
  /\ failed' = k
  /\ UNCHANGED <<disk, log, kept, made>>

Answer(r) ==
  /\ made[r] # 0
  /\ made[r] <= kept \/ made[r] <= failed
  /\ made' = [made EXCEPT ![r] = 0]
  /\ UNCHANGED <<disk, log, kept, failed>>

Crash ==
  /\ log' = << >>
  /\ kept' = 0
  /\ failed' = 0
  /\ made' = [r \in Request |-> 0]
  /\ UNCHANGED disk

Next ==
  \/ Open \/ Crash
  \/ \E r \in Request : Change(r) \/ Answer(r)
  \/ \E k \in 1 .. Len(log) : Save(k) \/ SaveFails(k)

Spec == Init /\ [][Next]_vars
=============================================================================
