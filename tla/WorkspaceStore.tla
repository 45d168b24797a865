--------------------------- MODULE WorkspaceStore ---------------------------
(***************************************************************************)
(* The workspaces of the terminal (apps/server/src/terminal/               *)
(* workspaceStore.ts and the CRUD handlers of workspaceRoutes.ts): a map   *)
(* that the first request loads, that every change replaces an entry of,   *)
(* and that a chain of writes copies to its file.                          *)
(*                                                                         *)
(* A handler is cut where it waits for the file system: for the load, for  *)
(* the check of pane directories, and for its link of the write chain.     *)
(* What a field holds is the request that has written it.                  *)
(***************************************************************************)
EXTENDS Naturals, Sequences, FiniteSets

CONSTANTS Request,  \* requests, each for one operation
          Saved,    \* ids that the file may hold when the server first runs
          None      \* no request, no map

ASSUME StoreAssumption == None \notin Request \cup Saved

VARIABLES disk,     \* the document in the file
          cache,    \* the map, or None
          load,     \* the map that the shared first load has read, or None
          req,      \* the requests
          chain,    \* requests whose link has not begun to write
          writing,  \* the writes under way
          log, kept, failed, made  \* history: see DurableDocument

vars == <<disk, cache, load, req, chain, writing, log, kept, failed, made>>

history == <<log, kept, failed, made>>

-----------------------------------------------------------------------------
Field == {"name", "panes"}

Definition == [Field -> Request \cup {None}]

Absent == None

Entry == Definition \cup {Absent}

Id == Request \cup Saved  \* generateWorkspaceId: the id of a POST is its own

Document == [Id -> Entry]

Empty == [i \in Id |-> Absent]

ASSUME NoneIsNoDocument == None \notin Document

Asked(p, k, i, fs) ==
  [phase |-> p, kind |-> k, id |-> i, fields |-> fs, seen |-> Absent]

NoRequest == Asked("new", "none", None, {})

Phase == {"new", "loading", "checking", "queued", "writing", "written", "done"}

RequestState ==
  [phase : Phase, kind : {"none", "get", "post", "patch", "delete"},
   id : Id \cup {None}, fields : SUBSET Field, seen : Entry]

Write == [by : Request, doc : Document, version : Nat]

In(r, p) == req[r].phase = p

\* r goes on to p, where what it asked for no longer matters.
To(r, p) == req' = [req EXCEPT ![r] = [NoRequest EXCEPT !.phase = p]]

-----------------------------------------------------------------------------
\* A request arrives: a PATCH names one of the fields.  A POST checks its panes
\* before it calls the store, and a GET, of one workspace or all, changes nothing.
Arrive(r) ==
  /\ In(r, "new")
  /\ \/ req' = [req EXCEPT ![r] = Asked("checking", "post", r, {})]
     \/ req' = [req EXCEPT ![r] = Asked("loading", "get", None, {})]
     \/ \E i \in Id :
          req' = [req EXCEPT ![r] = Asked("loading", "delete", i, {})]
     \/ \E i \in Id, f \in Field :
          req' = [req EXCEPT ![r] = Asked("loading", "patch", i, {f})]
  /\ UNCHANGED <<disk, cache, load, chain, writing>> /\ UNCHANGED history

\* loadFromDisk, once for all that wait: a missing or bad file yields no entries.
LoadFromDisk ==
  /\ \E r \in Request : In(r, "loading")
  /\ cache = None /\ load = None
  /\ \/ load' = disk /\ kept' = 1
     \/ load' = Empty /\ kept' = 0
  /\ log' = <<load'>>
  /\ UNCHANGED <<disk, cache, req, chain, writing, failed, made>>

\* What ensureLoaded returns.
TheMap == IF cache # None THEN cache ELSE load

Loaded(r) == In(r, "loading") /\ (cache # None \/ load # None)

\* The answer needs no write: a read, a 404, a delete of what is not there.
Answered(r) ==
  /\ To(r, "done")
  /\ cache' = TheMap
  /\ UNCHANGED <<chain, log, made>>

\* map.set or map.delete, and persist
Changed(r, i, e) ==
  /\ cache' = [TheMap EXCEPT ![i] = e]
  /\ chain' = Append(chain, r)
  /\ To(r, "queued")
  /\ log' = Append(log, cache')
  /\ made' = [made EXCEPT ![r] = Len(log')]

\* Faulty variant of Merged: the fields that are not named are dropped.
MergedWithout(r, d) == [f \in req[r].fields |-> r]

\* The definition that r writes over d: the fields it names are its own.
Merged(r, d) == [f \in Field |-> IF f \in req[r].fields THEN r ELSE d[f]]

Get(r) ==
  /\ Loaded(r) /\ req[r].kind = "get"
  /\ Answered(r)
  /\ UNCHANGED <<disk, load, writing, kept, failed>>

\* Faulty variant of Delete: nothing is persisted.
DeleteUnsaved(r) ==
  /\ Loaded(r) /\ req[r].kind = "delete"
  /\ cache' = [TheMap EXCEPT ![req[r].id] = Absent]
  /\ To(r, "done")
  /\ log' = Append(log, cache')
  /\ UNCHANGED <<disk, load, chain, writing, kept, failed, made>>

Delete(r) ==
  /\ Loaded(r) /\ req[r].kind = "delete"
  /\ \/ TheMap[req[r].id] = Absent /\ Answered(r)
     \/ TheMap[req[r].id] # Absent /\ Changed(r, req[r].id, Absent)
  /\ UNCHANGED <<disk, load, writing, kept, failed>>

Post(r) ==
  /\ Loaded(r) /\ req[r].kind = "post"
  /\ Changed(r, r, [f \in Field |-> r])
  /\ UNCHANGED <<disk, load, writing, kept, failed>>

\* Faulty variant of PatchReads: a workspace that is not there is checked, too.
PatchReadsAny(r) ==
  /\ Loaded(r) /\ req[r].kind = "patch"
  /\ req' = [req EXCEPT ![r].phase = "checking",
                        ![r].seen = IF TheMap[req[r].id] = Absent
                                    THEN [f \in Field |-> r]
                                    ELSE TheMap[req[r].id]]
  /\ cache' = TheMap
  /\ UNCHANGED <<disk, load, chain, writing>> /\ UNCHANGED history

\* PATCH looks the workspace up: 404, or on to the check of the new panes.  A
\* PATCH without panes goes on, too, only when its await has come back: of the
\* requests that wait for one load another may change the map first.
PatchReads(r) ==
  /\ Loaded(r) /\ req[r].kind = "patch"
  /\ LET d == TheMap[req[r].id]
     IN  \/ d = Absent /\ Answered(r)
         \/ /\ d # Absent
            /\ req' = [req EXCEPT ![r].phase = "checking", ![r].seen = d]
            /\ cache' = TheMap
            /\ UNCHANGED <<chain, log, made>>
  /\ UNCHANGED <<disk, load, writing, kept, failed>>

\* The panes are allowed, or there are none.  PATCH writes the definition it has read, whatever has
\* become of the workspace meanwhile.
CheckPasses(r) ==
  /\ In(r, "checking")
  /\ \/ /\ req[r].kind = "post"
        /\ req' = [req EXCEPT ![r].phase = "loading"]
        /\ UNCHANGED <<cache, chain, log, made>>
     \/ /\ req[r].kind = "patch"
        /\ Changed(r, req[r].id, Merged(r, req[r].seen))
  /\ UNCHANGED <<disk, load, writing, kept, failed>>

CheckFails(r) ==
  /\ In(r, "checking")
  /\ req[r].kind = "patch" => "panes" \in req[r].fields
  /\ To(r, "done")
  /\ UNCHANGED <<disk, cache, load, chain, writing>> /\ UNCHANGED history

-----------------------------------------------------------------------------
\* Faulty variant of Chained: a write does not wait for the one before it.
Unchained == TRUE

\* A link begins when the one before it is over.
Chained == writing = {}

\* writeNow: the map is copied when the link begins.
StartWrite ==
  /\ chain # << >>
  /\ Chained
  /\ LET r == Head(chain)
     IN  /\ writing' = writing \cup
                         {[by |-> r, doc |-> cache, version |-> Len(log)]}
         /\ To(r, "writing")
  /\ chain' = Tail(chain)
  /\ UNCHANGED <<disk, cache, load>> /\ UNCHANGED history

\* The rename, which replaces the file at once.
WriteLands(w) ==
  /\ w \in writing
  /\ disk' = w.doc
  /\ kept' = w.version
  /\ writing' = writing \ {w}
  /\ To(w.by, "written")
  /\ UNCHANGED <<cache, load, chain, log, failed, made>>

\* Faulty variant of WriteFails: the links behind it do not run any more.
WriteThrows(w) ==
  /\ w \in writing
  /\ failed' = w.version
  /\ writing' = writing \ {w}
  /\ To(w.by, "written")
  /\ chain' = << >>
  /\ UNCHANGED <<disk, cache, load, log, kept, made>>

\* A write that fails is logged and counts as done.
WriteFails(w) ==
  /\ w \in writing
  /\ failed' = w.version
  /\ writing' = writing \ {w}
  /\ To(w.by, "written")
  /\ UNCHANGED <<disk, cache, load, chain, log, kept, made>>

Reply(r) ==
  /\ In(r, "written")
  /\ To(r, "done")
  /\ made' = [made EXCEPT ![r] = 0]
  /\ UNCHANGED <<disk, cache, load, chain, writing, log, kept, failed>>

\* The process dies between any two steps and is started again: for those who
\* waited it is over.
Crash ==
  /\ cache' = None
  /\ load' = None
  /\ chain' = << >>
  /\ writing' = {}
  /\ req' = [r \in Request |-> IF req[r].phase \in {"new", "done"} THEN req[r]
                               ELSE [NoRequest EXCEPT !.phase = "done"]]
  /\ log' = << >>
  /\ kept' = 0
  /\ failed' = 0
  /\ made' = [r \in Request |-> 0]
  /\ UNCHANGED disk

-----------------------------------------------------------------------------
Init ==
  /\ disk \in {d \in [Id -> {Absent, [f \in Field |-> None]}] :
                 \A i \in Request : d[i] = Absent}
  /\ cache = None
  /\ load = None
  /\ req = [r \in Request |-> NoRequest]
  /\ chain = << >>
  /\ writing = {}
  /\ log = << >>
  /\ kept = 0
  /\ failed = 0
  /\ made = [r \in Request |-> 0]

Handle(r) == Get(r) \/ Delete(r) \/ Post(r) \/ PatchReads(r)

Check(r) == CheckPasses(r) \/ CheckFails(r)

EndWrite == \E w \in writing : WriteLands(w) \/ WriteFails(w)

Next ==
  \/ \E r \in Request : Arrive(r) \/ Handle(r) \/ Check(r) \/ Reply(r)
  \/ LoadFromDisk \/ StartWrite \/ EndWrite \/ Crash

Spec == Init /\ [][Next]_vars

\* The file system answers, in one way or the other.
FairSpec ==
  /\ Spec
  /\ WF_vars(LoadFromDisk) /\ WF_vars(StartWrite) /\ WF_vars(EndWrite)
  /\ \A r \in Request : WF_vars(Handle(r)) /\ WF_vars(Check(r)) /\ WF_vars(Reply(r))

-----------------------------------------------------------------------------
StoreTypeOK ==
  /\ disk \in Document
  /\ cache \in Document \cup {None}
  /\ load \in Document \cup {None}
  /\ req \in [Request -> RequestState]
  /\ chain \in Seq(Request)
  /\ writing \subseteq Write
  /\ log \in Seq(Document)
  /\ kept \in Nat
  /\ failed \in Nat
  /\ made \in [Request -> Nat]

(* The store is a durable document (workspaceStore.ts 95-186): through shared *)
(* first loads, concurrent requests, failing writes and crashes the file only *)
(* moves forward along the versions of the map, and an answer waits for the   *)
(* write that covers its change.                                              *)
Durable == INSTANCE DurableDocument
             WITH Request <- Request, Id <- Id, Entry <- Entry, Absent <- Absent,
                  disk <- disk, log <- log, kept <- kept, failed <- failed, made <- made
DurableSpec == Durable!Spec

(* Nothing is left unwritten (workspaceStore.ts 134-140): when no write is    *)
(* queued or under way and none has failed since, the file is the map.        *)
QuietFileIsCurrent ==
  cache # None /\ chain = << >> /\ writing = {} =>
    \/ disk = cache
    \/ failed = Len(log)
    \/ Len(log) = 1

(* Deletes hold (workspaceRoutes.ts 232-270): a workspace that is not there   *)
(* comes back only by its own POST, or by a PATCH that had read it before it  *)
(* was deleted and was still under way.                                       *)
OnlyStalePatchRevives ==
  [][\A i \in Id :
       cache # None /\ cache' # None /\ cache[i] = Absent /\ cache'[i] # Absent =>
         \E r \in Request :
           \/ r = i /\ Post(r)
           \/ /\ CheckPasses(r) /\ req[r].id = i
              /\ \E k \in DOMAIN log : log[k][i] # Absent /\ log[k][i] = req[r].seen]_vars

(* Every request is answered (workspaceStore.ts 138, 150-154): a write that   *)
(* fails neither throws nor stops those behind it in the chain.               *)
EveryRequestAnswered ==
  \A r \in Request : ~In(r, "new") ~> In(r, "done")
=============================================================================
