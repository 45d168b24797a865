------------------------ MODULE WorkspaceStoreProofs ------------------------
(***************************************************************************)
(* The workspace store is a durable document, for any number of requests   *)
(* and workspaces: its file moves forward along the versions of its map,   *)
(* an answer waits for its write, and what is quiet has been written.      *)
(*                                                                         *)
(* The invariant relates the three copies of the document: the map is the  *)
(* last version, the file is the version kept, and the one write under way *)
(* holds a version between the two.                                        *)
(***************************************************************************)
EXTENDS WorkspaceStore, TLAPS

\* The versions begin with the load and end with the map.
MapIsLast ==
  /\ log = << >> <=> load = None
  /\ cache # None => load # None
  /\ load # None => log[Len(log)] = TheMap

FileIsKept ==
  /\ kept <= Len(log)
  /\ failed <= Len(log)
  /\ kept > 0 => disk = log[kept]

\* Each link of the chain is a request that waits for it.
ChainIsQueued ==
  /\ chain # << >> => cache # None
  /\ \A i \in DOMAIN chain : In(chain[i], "queued")
  /\ \A i, j \in DOMAIN chain : chain[i] = chain[j] => i = j

OneWrite ==
  /\ \A w, x \in writing : w = x
  /\ \A w \in writing :
       /\ In(w.by, "writing")
       /\ w.version \in 1 .. Len(log)
       /\ w.doc = log[w.version]
       /\ kept <= w.version /\ failed <= w.version
       /\ made[w.by] <= w.version

\* A change is counted as long as its request waits for it to be written.
ChangesAreMade ==
  \A r \in Request :
    /\ made[r] <= Len(log)
    /\ req[r].phase \in {"new", "loading", "checking", "done"} => made[r] = 0
    /\ In(r, "written") => made[r] <= kept \/ made[r] <= failed

\* A request names a workspace, and what a PATCH has read is a version of it.
SeenWasThere ==
  \A r \in Request :
    /\ req[r].kind \notin {"none", "get"} => req[r].id \in Id
    /\ In(r, "checking") /\ req[r].kind = "patch" =>
         /\ req[r].seen # Absent
         /\ \E k \in DOMAIN log : log[k][req[r].id] = req[r].seen

\* The last change is written, has failed, or is on its way.
LastIsWritten ==
  \/ Len(log) <= 1 \/ kept = Len(log) \/ failed = Len(log) \/ chain # << >>
  \/ \E w \in writing : w.version = Len(log)

StoreInv ==
  /\ StoreTypeOK
  /\ MapIsLast /\ FileIsKept /\ ChainIsQueued /\ OneWrite
  /\ ChangesAreMade /\ SeenWasThere /\ LastIsWritten

-----------------------------------------------------------------------------
LEMMA AskedIsRequest ==
  ASSUME NEW p \in Phase, NEW k \in {"none", "get", "post", "patch", "delete"},
         NEW i \in Id \cup {None}, NEW fs \in SUBSET Field
  PROVE  LET x == Asked(p, k, i, fs)
         IN  /\ x \in RequestState
             /\ x.phase = p /\ x.kind = k /\ x.id = i /\ x.seen = Absent
BY DEF Asked, RequestState, Entry

LEMMA NoRequestIsRequest ==
  /\ NoRequest \in RequestState
  /\ NoRequest.phase = "new" /\ NoRequest.kind = "none"
BY AskedIsRequest DEF NoRequest, Phase

LEMMA InitStore == Init => StoreInv
<1> SUFFICES ASSUME Init PROVE StoreInv
  OBVIOUS
<1> USE DEF Init
<1>1. StoreTypeOK
  BY NoRequestIsRequest DEF StoreTypeOK, Document, Entry, Definition, Absent, Field, Id
<1>2. MapIsLast /\ FileIsKept /\ ChainIsQueued /\ OneWrite /\ LastIsWritten
  BY DEF MapIsLast, FileIsKept, ChainIsQueued, OneWrite, LastIsWritten
<1>3. ChangesAreMade /\ SeenWasThere
  BY NoRequestIsRequest DEF ChangesAreMade, SeenWasThere, In
<1> QED
  BY <1>1, <1>2, <1>3 DEF StoreInv

\* The map exists and is the last version, once it has been loaded.
LEMMA MapExists ==
  ASSUME StoreInv, load # None
  PROVE  /\ TheMap \in Document /\ TheMap # None
         /\ log # << >> /\ Len(log) \in Nat \ {0}
         /\ log[Len(log)] = TheMap
<1>1. TheMap \in Document /\ TheMap # None
  BY DEF TheMap, StoreInv, StoreTypeOK
<1>2. log # << >> /\ log[Len(log)] = TheMap
  BY DEF StoreInv, MapIsLast
<1>3. Len(log) \in Nat \ {0}
  BY <1>2 DEF StoreInv, StoreTypeOK
<1> QED
  BY <1>1, <1>2, <1>3

LEMMA LoadedMap ==
  ASSUME StoreInv, NEW r \in Request, Loaded(r)
  PROVE  load # None
BY DEF Loaded, StoreInv, MapIsLast

\* A request that waits for no write, as before; a PATCH that goes on to its check
\* has read the map.
LEMMA RequestMoves ==
  ASSUME StoreInv, NEW r \in Request,
         req[r].phase \in {"loading", "checking"},
         NEW x \in RequestState,
         req' = [req EXCEPT ![r] = x],
         x.phase \in {"loading", "checking", "done"},
         x.kind # "none" => x.id \in Id,
         x.phase = "checking" /\ x.kind = "patch" =>
           x.seen # Absent /\ load # None /\ x.seen = TheMap[x.id],
         cache' = cache \/ (load # None /\ cache' = TheMap),
         UNCHANGED <<disk, load, chain, writing>>, UNCHANGED history
  PROVE  StoreInv'
<1> USE DEF StoreInv, history
<1>1. StoreTypeOK'
  BY MapExists DEF StoreTypeOK
<1>2. MapIsLast'
  BY MapExists DEF MapIsLast, TheMap
<1>3. FileIsKept'
  BY DEF FileIsKept
<1>4. ChainIsQueued'
  <2>1. \A i \in DOMAIN chain : chain[i] # r /\ chain[i] \in Request
    BY DEF ChainIsQueued, In, StoreTypeOK
  <2> QED
    BY <2>1, MapExists DEF ChainIsQueued, In, StoreTypeOK
<1>5. OneWrite'
  BY DEF OneWrite, In, StoreTypeOK, Write
<1>6. ChangesAreMade'
  BY DEF ChangesAreMade, In, StoreTypeOK
<1>7. SeenWasThere'
  <2>1. load # None => Len(log) \in DOMAIN log
    BY MapExists DEF StoreTypeOK
  <2> QED
    BY <2>1, MapExists DEF SeenWasThere, In, StoreTypeOK
<1>8. LastIsWritten'
  BY DEF LastIsWritten
<1> QED
  BY <1>1, <1>2, <1>3, <1>4, <1>5, <1>6, <1>7, <1>8

\* The map changes, and a link is put at the end of the chain.
LEMMA MapChanges ==
  ASSUME StoreInv, load # None, NEW r \in Request,
         req[r].phase \in {"loading", "checking"},
         NEW i \in Id, NEW e \in Entry,
         Changed(r, i, e),
         UNCHANGED <<disk, load, writing, kept, failed>>
  PROVE  StoreInv'
<1> USE DEF StoreInv, Changed
<1> DEFINE c == [TheMap EXCEPT ![i] = e]
<1>a. c \in Document /\ c # None
  BY MapExists, NoneIsNoDocument DEF Document
<1>b. cache' = c /\ TheMap' = c /\ log' = Append(log, c)
  BY <1>a DEF TheMap
<1>1. /\ cache' = c /\ c \in Document /\ c # None /\ TheMap' = c
      /\ log' = Append(log, c) /\ log' \in Seq(Document)
      /\ Len(log) \in Nat \ {0} /\ Len(log') = Len(log) + 1
      /\ log'[Len(log')] = c
      /\ \A k \in 1 .. Len(log) : log'[k] = log[k]
  <2> HIDE DEF c
  <2>1. log \in Seq(Document) /\ Len(log) \in Nat \ {0}
    BY MapExists DEF StoreTypeOK
  <2> QED
    BY <1>a, <1>b, <2>1
<1>2. /\ req' = [req EXCEPT ![r] = [NoRequest EXCEPT !.phase = "queued"]]
      /\ [NoRequest EXCEPT !.phase = "queued"] \in RequestState
      /\ req'[r].phase = "queued" /\ req'[r].kind = "none"
      /\ \A q \in Request : q # r => req'[q] = req[q]
  BY DEF To, NoRequest, Asked, RequestState, Phase, Entry, StoreTypeOK
<1>3. /\ chain' \in Seq(Request) /\ Len(chain') = Len(chain) + 1
      /\ Len(chain) \in Nat /\ DOMAIN chain = 1 .. Len(chain)
      /\ DOMAIN chain' = 1 .. (Len(chain) + 1)
      /\ chain'[Len(chain) + 1] = r /\ \A k \in 1 .. Len(chain) : chain'[k] = chain[k]
  BY DEF StoreTypeOK
<1>4. made' = [made EXCEPT ![r] = Len(log) + 1]
  BY <1>1
<1>5. StoreTypeOK'
  BY <1>1, <1>2, <1>3, <1>4 DEF StoreTypeOK
<1>6. MapIsLast'
  BY <1>1 DEF MapIsLast
<1>7. FileIsKept'
  BY <1>1 DEF FileIsKept, StoreTypeOK
<1>8. ChainIsQueued'
  <2>1. \A k \in DOMAIN chain : chain[k] # r /\ chain[k] \in Request
    BY DEF ChainIsQueued, In, StoreTypeOK
  <2>2. \A k \in DOMAIN chain' : req'[chain'[k]].phase = "queued"
    BY <1>2, <1>3, <2>1 DEF ChainIsQueued, In
  <2>3. ASSUME NEW j \in DOMAIN chain', NEW k \in DOMAIN chain', chain'[j] = chain'[k]
        PROVE  j = k
    BY <1>3, <2>1, <2>3 DEF ChainIsQueued
  <2>4. cache' # None
    BY <1>1
  <2> QED
    BY <2>2, <2>3, <2>4 DEF ChainIsQueued, In
<1>9. OneWrite'
  BY <1>1, <1>2, <1>4 DEF OneWrite, In, StoreTypeOK, Write
<1>10. ChangesAreMade'
  BY <1>1, <1>2, <1>4 DEF ChangesAreMade, In, StoreTypeOK
<1>11. SeenWasThere'
  <2>1. DOMAIN log = 1 .. Len(log) /\ DOMAIN log' = 1 .. (Len(log) + 1)
    BY <1>1 DEF StoreTypeOK
  <2> SUFFICES ASSUME NEW q \in Request
               PROVE  /\ req'[q].kind \notin {"none", "get"} => req'[q].id \in Id
                      /\ req'[q].phase = "checking" /\ req'[q].kind = "patch" =>
                           /\ req'[q].seen # Absent
                           /\ \E k \in DOMAIN log' : log'[k][req'[q].id] = req'[q].seen
    BY DEF SeenWasThere, In
  <2>2. CASE q = r
    BY <1>2, <2>2
  <2>3. ASSUME q # r, req[q].phase = "checking", req[q].kind = "patch"
        PROVE  \E k \in DOMAIN log' : log'[k][req[q].id] = req[q].seen
    <3>1. PICK k \in DOMAIN log : log[k][req[q].id] = req[q].seen
      BY <2>3 DEF SeenWasThere, In
    <3>2. k \in DOMAIN log' /\ log'[k] = log[k]
      BY <1>1, <2>1
    <3> QED
      BY <3>1, <3>2
  <2>4. q # r => req'[q] = req[q]
    BY <1>2
  <2> QED
    BY <2>2, <2>3, <2>4 DEF SeenWasThere, In
<1>12. LastIsWritten'
  BY <1>3 DEF LastIsWritten
<1> QED
  BY <1>5, <1>6, <1>7, <1>8, <1>9, <1>10, <1>11, <1>12

LEMMA ArriveStep ==
  ASSUME StoreInv, NEW r \in Request, Arrive(r)
  PROVE  StoreInv'
<1> USE DEF StoreInv, history
<1>1. PICK x \in RequestState :
        /\ req' = [req EXCEPT ![r] = x]
        /\ x.phase \in {"loading", "checking"}
        /\ x.kind # "get" => x.id \in Id
        /\ ~(x.phase = "checking" /\ x.kind = "patch")
  <2> USE DEF Phase
  <2>1. CASE req' = [req EXCEPT ![r] = Asked("checking", "post", r, {})]
    <3> DEFINE x == Asked("checking", "post", r, {})
    <3>1. x \in RequestState /\ x.phase = "checking" /\ x.kind = "post" /\ x.id \in Id
      BY AskedIsRequest DEF Id
    <3> HIDE DEF x
    <3> QED
      BY <2>1, <3>1 DEF x
  <2>2. CASE req' = [req EXCEPT ![r] = Asked("loading", "get", None, {})]
    <3> DEFINE x == Asked("loading", "get", None, {})
    <3>1. x \in RequestState /\ x.phase = "loading" /\ x.kind = "get"
      BY AskedIsRequest
    <3> HIDE DEF x
    <3> QED
      BY <2>2, <3>1 DEF x
  <2>3. CASE \E i \in Id :
               req' = [req EXCEPT ![r] = Asked("loading", "delete", i, {})]
    <3>1. PICK i \in Id : req' = [req EXCEPT ![r] = Asked("loading", "delete", i, {})]
      BY <2>3
    <3> DEFINE x == Asked("loading", "delete", i, {})
    <3>2. x \in RequestState /\ x.phase = "loading" /\ x.id \in Id
      BY AskedIsRequest
    <3> QED
      BY <3>1, <3>2
  <2>4. CASE \E i \in Id, f \in Field :
               req' = [req EXCEPT ![r] = Asked("loading", "patch", i, {f})]
    <3>1. PICK i \in Id, f \in Field :
                 req' = [req EXCEPT ![r] = Asked("loading", "patch", i, {f})]
      BY <2>4
    <3> DEFINE x == Asked("loading", "patch", i, {f})
    <3>2. x \in RequestState /\ x.phase = "loading" /\ x.id \in Id
      BY AskedIsRequest
    <3> QED
      BY <3>1, <3>2
  <2> QED
    BY <2>1, <2>2, <2>3, <2>4 DEF Arrive
<1>2. UNCHANGED <<disk, cache, load, chain, writing, log, kept, failed, made>>
  BY DEF Arrive
<1>3. req[r].phase = "new"
  BY DEF Arrive, In
<1>4. StoreTypeOK'
  BY <1>1, <1>2 DEF StoreTypeOK
<1>5. MapIsLast' /\ FileIsKept' /\ LastIsWritten'
  BY <1>2 DEF MapIsLast, FileIsKept, LastIsWritten, TheMap
<1>6. ChainIsQueued'
  <2>1. \A i \in DOMAIN chain : chain[i] # r /\ chain[i] \in Request
    BY <1>3 DEF ChainIsQueued, In, StoreTypeOK
  <2> QED
    BY <1>1, <1>2, <2>1 DEF ChainIsQueued, In, StoreTypeOK
<1>7. OneWrite'
  BY <1>1, <1>2, <1>3 DEF OneWrite, In, StoreTypeOK, Write
<1>8. ChangesAreMade' /\ SeenWasThere'
  BY <1>1, <1>2, <1>3 DEF ChangesAreMade, SeenWasThere, In, StoreTypeOK
<1> QED
  BY <1>4, <1>5, <1>6, <1>7, <1>8

LEMMA LoadStep ==
  ASSUME StoreInv, LoadFromDisk
  PROVE  StoreInv'
<1> USE DEF StoreInv, LoadFromDisk
<1>1. Empty \in Document
  BY DEF Empty, Document, Entry
<1>2. /\ load' \in Document /\ load' # None /\ cache' = None
      /\ log = << >> /\ log' = <<load'>> /\ Len(log') = 1 /\ log'[1] = load'
      /\ kept' \in {0, 1} /\ (kept' = 1 => disk' = load')
      /\ UNCHANGED <<disk, cache, req, chain, writing, failed, made>>
  BY <1>1, NoneIsNoDocument DEF StoreTypeOK, MapIsLast
<1>3. StoreTypeOK'
  BY <1>2 DEF StoreTypeOK
<1>4. MapIsLast' /\ FileIsKept' /\ LastIsWritten'
  BY <1>2 DEF MapIsLast, FileIsKept, LastIsWritten, TheMap, StoreTypeOK
<1>5. ChainIsQueued' /\ OneWrite'
  BY <1>2 DEF ChainIsQueued, OneWrite, In
<1>6. ChangesAreMade' /\ SeenWasThere'
  BY <1>2 DEF ChangesAreMade, SeenWasThere, In, StoreTypeOK
<1> QED
  BY <1>3, <1>4, <1>5, <1>6

\* A request goes on to a phase in which nothing is asked of it any more.
LEMMA RequestGoesOn ==
  ASSUME StoreTypeOK, NEW r \in Request, NEW p \in Phase, To(r, p)
  PROVE  /\ req' \in [Request -> RequestState]
         /\ req'[r].phase = p /\ req'[r].kind = "none"
         /\ \A q \in Request : q # r => req'[q] = req[q]
<1> DEFINE x == [NoRequest EXCEPT !.phase = p]
<1>1. x \in RequestState /\ x.phase = p /\ x.kind = "none"
  BY NoRequestIsRequest DEF RequestState
<1>2. req' = [req EXCEPT ![r] = x]
  BY DEF To
<1> QED
  BY <1>1, <1>2 DEF StoreTypeOK

LEMMA StartWriteStep ==
  ASSUME StoreInv, StartWrite
  PROVE  StoreInv'
<1> USE DEF StoreInv, history
<1> DEFINE r == Head(chain)
<1> DEFINE w == [by |-> r, doc |-> cache, version |-> Len(log)]
<1>1. /\ chain \in Seq(Request) /\ chain # << >> /\ writing = {}
      /\ chain' = Tail(chain) /\ writing' = {w} /\ To(r, "writing")
      /\ UNCHANGED <<disk, cache, load, log, kept, failed, made>>
  BY DEF StartWrite, Chained, StoreTypeOK
<1>2. /\ r \in Request /\ r = chain[1] /\ 1 \in DOMAIN chain
      /\ Tail(chain) \in Seq(Request)
      /\ \A i \in DOMAIN Tail(chain) : i + 1 \in DOMAIN chain /\ Tail(chain)[i] = chain[i + 1]
  BY <1>1
<1>3. cache # None /\ load # None
  BY <1>1 DEF ChainIsQueued, MapIsLast
<1>4. cache = log[Len(log)] /\ Len(log) \in Nat \ {0} /\ cache \in Document
  BY <1>3, MapExists DEF TheMap
<1>5. w \in Write /\ w.by = r /\ w.doc = cache /\ w.version = Len(log)
  BY <1>2, <1>4 DEF Write
<1>6. /\ req' \in [Request -> RequestState]
      /\ req'[r].phase = "writing" /\ req'[r].kind = "none"
      /\ \A q \in Request : q # r => req'[q] = req[q]
  BY <1>1, <1>2, RequestGoesOn DEF Phase
<1> HIDE DEF r, w
<1>7. StoreTypeOK'
  BY <1>1, <1>2, <1>5, <1>6 DEF StoreTypeOK
<1>8. MapIsLast' /\ FileIsKept'
  BY <1>1 DEF MapIsLast, FileIsKept, TheMap
<1>9. ChainIsQueued'
  <2>1. \A i \in DOMAIN Tail(chain) : Tail(chain)[i] # r /\ Tail(chain)[i] \in Request
    BY <1>1, <1>2 DEF ChainIsQueued
  <2>2. \A i \in DOMAIN Tail(chain) : req'[Tail(chain)[i]].phase = "queued"
    BY <1>2, <1>6, <2>1 DEF ChainIsQueued, In
  <2>3. ASSUME NEW i \in DOMAIN Tail(chain), NEW j \in DOMAIN Tail(chain),
               Tail(chain)[i] = Tail(chain)[j]
        PROVE  i = j
    <3>1. i + 1 = j + 1
      BY <1>2, <2>3 DEF ChainIsQueued
    <3> QED
      BY <1>2, <3>1
  <2> QED
    BY <1>1, <1>3, <2>2, <2>3 DEF ChainIsQueued, In
<1>10. OneWrite'
  BY <1>1, <1>2, <1>4, <1>5, <1>6 DEF OneWrite, In, FileIsKept, ChangesAreMade
<1>11. ChangesAreMade' /\ SeenWasThere'
  BY <1>1, <1>6 DEF ChangesAreMade, SeenWasThere, In
<1>12. LastIsWritten'
  BY <1>1, <1>5 DEF LastIsWritten
<1> QED
  BY <1>7, <1>8, <1>9, <1>10, <1>11, <1>12

LEMMA EndWriteStep ==
  ASSUME StoreInv, NEW w \in writing, WriteLands(w) \/ WriteFails(w)
  PROVE  StoreInv'
<1> USE DEF StoreInv
<1>1. /\ w.by \in Request /\ w.doc \in Document /\ w.version \in Nat
      /\ In(w.by, "writing") /\ w.version \in 1 .. Len(log) /\ w.doc = log[w.version]
      /\ kept <= w.version /\ failed <= w.version /\ made[w.by] <= w.version
      /\ writing = {w}
  BY DEF OneWrite, StoreTypeOK, Write
<1>2. /\ To(w.by, "written") /\ writing' = {}
      /\ UNCHANGED <<cache, load, chain, log, made>>
  BY <1>1 DEF WriteLands, WriteFails
<1>3. \/ disk' = w.doc /\ kept' = w.version /\ failed' = failed
      \/ failed' = w.version /\ UNCHANGED <<disk, kept>>
  BY DEF WriteLands, WriteFails
<1>4. /\ req' \in [Request -> RequestState]
      /\ req'[w.by].phase = "written" /\ req'[w.by].kind = "none"
      /\ \A q \in Request : q # w.by => req'[q] = req[q]
  BY <1>1, <1>2, RequestGoesOn DEF Phase
<1>5. StoreTypeOK'
  BY <1>1, <1>2, <1>3, <1>4 DEF StoreTypeOK
<1>6. MapIsLast'
  BY <1>2 DEF MapIsLast, TheMap
<1>7. FileIsKept'
  BY <1>1, <1>2, <1>3 DEF FileIsKept, StoreTypeOK
<1>8. ChainIsQueued'
  <2>1. \A i \in DOMAIN chain : chain[i] # w.by /\ chain[i] \in Request
    BY <1>1 DEF ChainIsQueued, In, StoreTypeOK
  <2> QED
    BY <1>2, <1>4, <2>1 DEF ChainIsQueued, In
<1>9. OneWrite'
  BY <1>2 DEF OneWrite
<1>10. ChangesAreMade'
  BY <1>1, <1>2, <1>3, <1>4 DEF ChangesAreMade, In, StoreTypeOK
<1>11. SeenWasThere'
  BY <1>2, <1>4 DEF SeenWasThere, In
<1>12. LastIsWritten'
  BY <1>1, <1>2, <1>3 DEF LastIsWritten
<1> QED
  BY <1>5, <1>6, <1>7, <1>8, <1>9, <1>10, <1>11, <1>12

LEMMA ReplyStep ==
  ASSUME StoreInv, NEW r \in Request, Reply(r)
  PROVE  StoreInv'
<1> USE DEF StoreInv
<1>1. /\ In(r, "written") /\ To(r, "done") /\ made' = [made EXCEPT ![r] = 0]
      /\ UNCHANGED <<disk, cache, load, chain, writing, log, kept, failed>>
  BY DEF Reply
<1>2. /\ req' \in [Request -> RequestState]
      /\ req'[r].phase = "done" /\ req'[r].kind = "none"
      /\ \A q \in Request : q # r => req'[q] = req[q]
  BY <1>1, RequestGoesOn DEF Phase
<1>3. StoreTypeOK'
  BY <1>1, <1>2 DEF StoreTypeOK
<1>4. MapIsLast' /\ FileIsKept' /\ LastIsWritten'
  BY <1>1 DEF MapIsLast, FileIsKept, LastIsWritten, TheMap
<1>5. ChainIsQueued'
  <2>1. \A i \in DOMAIN chain : chain[i] # r /\ chain[i] \in Request
    BY <1>1 DEF ChainIsQueued, In, StoreTypeOK
  <2> QED
    BY <1>1, <1>2, <2>1 DEF ChainIsQueued, In
<1>6. OneWrite'
  BY <1>1, <1>2 DEF OneWrite, In, StoreTypeOK, Write
<1>7. ChangesAreMade' /\ SeenWasThere'
  BY <1>1, <1>2 DEF ChangesAreMade, SeenWasThere, In, StoreTypeOK
<1> QED
  BY <1>3, <1>4, <1>5, <1>6, <1>7

LEMMA CrashStep ==
  ASSUME StoreInv, Crash
  PROVE  StoreInv'
<1> USE DEF StoreInv
<1> DEFINE x == [NoRequest EXCEPT !.phase = "done"]
<1>1. x \in RequestState /\ x.phase = "done" /\ x.kind = "none"
  BY NoRequestIsRequest DEF RequestState, Phase
<1>2. /\ req' = [r \in Request |->
                  IF req[r].phase \in {"new", "done"} THEN req[r] ELSE x]
      /\ cache' = None /\ load' = None /\ disk' = disk
      /\ chain' = << >> /\ writing' = {} /\ log' = << >>
      /\ kept' = 0 /\ failed' = 0 /\ made' = [r \in Request |-> 0]
  BY DEF Crash
<1> HIDE DEF x
<1>3. req' \in [Request -> RequestState]
  BY <1>1, <1>2 DEF StoreTypeOK
<1>4. /\ Len(log') = 0
      /\ \A r \in Request :
           /\ made'[r] = 0
           /\ req'[r].phase \in {"new", "done"}
           /\ req'[r] = req[r] \/ req'[r].kind = "none"
  BY <1>1, <1>2
<1> QED
  <2>1. StoreTypeOK'
    BY <1>2, <1>3 DEF StoreTypeOK
  <2>2. MapIsLast' /\ FileIsKept' /\ ChainIsQueued' /\ OneWrite' /\ LastIsWritten'
    BY <1>2 DEF MapIsLast, FileIsKept, ChainIsQueued, OneWrite, LastIsWritten
  <2>3. ChangesAreMade'
    BY <1>2, <1>4 DEF ChangesAreMade, In
  <2>4. SeenWasThere'
    BY <1>4 DEF SeenWasThere, In
  <2> QED
    BY <2>1, <2>2, <2>3, <2>4

-----------------------------------------------------------------------------
\* What the steps do to the document.
DocumentStays == UNCHANGED <<disk, log, kept, failed, made>>

DocumentStep == Durable!Next \/ DocumentStays

LEMMA AnsweredStep ==
  ASSUME StoreInv, NEW r \in Request, Loaded(r), Answered(r),
         UNCHANGED <<disk, load, writing, kept, failed>>
  PROVE  StoreInv' /\ DocumentStep
<1> DEFINE x == [NoRequest EXCEPT !.phase = "done"]
<1>1. x \in RequestState /\ x.phase = "done" /\ x.kind = "none"
  BY NoRequestIsRequest DEF RequestState, Phase
<1>2. /\ req' = [req EXCEPT ![r] = x] /\ cache' = TheMap
      /\ UNCHANGED <<disk, load, chain, writing>> /\ UNCHANGED history
  BY DEF Answered, To, history
<1>3. req[r].phase = "loading"
  BY DEF Loaded, In
<1> HIDE DEF x
<1>4. StoreInv'
  BY <1>1, <1>2, <1>3, LoadedMap, RequestMoves
<1> QED
  BY <1>2, <1>4 DEF DocumentStep, DocumentStays, history

LEMMA ChangedStep ==
  ASSUME StoreInv, load # None, NEW r \in Request,
         req[r].phase \in {"loading", "checking"},
         NEW i \in Id, NEW e \in Entry, Changed(r, i, e),
         UNCHANGED <<disk, load, writing, kept, failed>>
  PROVE  StoreInv' /\ DocumentStep
<1>1. StoreInv'
  BY MapChanges
<1>2. made[r] = 0
  BY DEF StoreInv, ChangesAreMade
<1>3. log # << >> /\ TheMap = log[Len(log)]
  BY MapExists
<1>4. log' = Append(log, [log[Len(log)] EXCEPT ![i] = e])
  BY <1>3 DEF Changed
<1>5. Durable!Change(r)
  BY <1>2, <1>3, <1>4 DEF Durable!Change, Durable!Memory, Changed
<1> QED
  BY <1>1, <1>5 DEF DocumentStep, Durable!Next

LEMMA MergedIsDefinition ==
  ASSUME NEW r \in Request, NEW d \in Definition
  PROVE  Merged(r, d) \in Entry
BY DEF Merged, Definition, Entry

LEMMA HandleStep ==
  ASSUME StoreInv, NEW r \in Request, Handle(r)
  PROVE  StoreInv' /\ DocumentStep
<1>1. CASE Get(r)
  BY <1>1, AnsweredStep DEF Get
<1>2. CASE Delete(r)
  <2>1. Loaded(r) /\ load # None /\ req[r].phase = "loading" /\ req[r].id \in Id
    BY <1>2, LoadedMap DEF Delete, Loaded, In, StoreInv, SeenWasThere
  <2> QED
    BY <1>2, <2>1, AnsweredStep, ChangedStep DEF Delete, Entry
<1>3. CASE Post(r)
  <2>1. Loaded(r) /\ load # None /\ req[r].phase = "loading" /\ r \in Id
    BY <1>3, LoadedMap DEF Post, Loaded, In, Id
  <2>2. [f \in Field |-> r] \in Entry
    BY DEF Entry, Definition
  <2> QED
    BY <1>3, <2>1, <2>2, ChangedStep DEF Post
<1>4. CASE PatchReads(r)
  <2> DEFINE d == TheMap[req[r].id]
  <2>1. /\ Loaded(r) /\ load # None /\ req[r].phase = "loading" /\ req[r].kind = "patch"
        /\ req[r].id \in Id
        /\ UNCHANGED <<disk, load, writing, kept, failed>>
    BY <1>4, LoadedMap DEF PatchReads, Loaded, In, StoreInv, SeenWasThere
  <2>2. d \in Entry
    BY <2>1, MapExists DEF Document
  <2>3. CASE Answered(r)
    BY <2>1, <2>3, AnsweredStep
  <2>4. CASE /\ d # Absent
             /\ req' = [req EXCEPT ![r].phase = "checking", ![r].seen = d]
             /\ cache' = TheMap
             /\ UNCHANGED <<chain, log, made>>
    <3> DEFINE x == [req[r] EXCEPT !.phase = "checking", !.seen = d]
    <3>1. x \in RequestState /\ x.phase = "checking" /\ x.seen = d /\ x.id = req[r].id
      BY <2>2 DEF StoreInv, StoreTypeOK, RequestState, Phase
    <3>2. req' = [req EXCEPT ![r] = x]
      BY <2>4
    <3>3. UNCHANGED <<disk, load, chain, writing>> /\ UNCHANGED history
      BY <2>1, <2>4 DEF history
    <3> HIDE DEF x
    <3>4. StoreInv'
      BY <2>1, <2>4, <3>1, <3>2, <3>3, RequestMoves
    <3> QED
      BY <3>3, <3>4 DEF DocumentStep, DocumentStays, history
  <2> QED
    BY <1>4, <2>3, <2>4 DEF PatchReads
<1> QED
  BY <1>1, <1>2, <1>3, <1>4 DEF Handle

LEMMA CheckStep ==
  ASSUME StoreInv, NEW r \in Request, Check(r)
  PROVE  StoreInv' /\ DocumentStep
<1>1. In(r, "checking") /\ req[r].phase = "checking"
  BY DEF Check, CheckPasses, CheckFails, In
<1>2. CASE CheckPasses(r) /\ req[r].kind = "patch"
  <2>1. /\ req[r].seen # Absent /\ req[r].id \in Id /\ log # << >>
        /\ req[r].seen \in Definition
    BY <1>1, <1>2 DEF StoreInv, SeenWasThere, StoreTypeOK, RequestState, Entry
  <2>2. load # None
    BY <2>1 DEF StoreInv, MapIsLast
  <2>3. Merged(r, req[r].seen) \in Entry
    BY <2>1, MergedIsDefinition
  <2>4. Changed(r, req[r].id, Merged(r, req[r].seen))
        /\ UNCHANGED <<disk, load, writing, kept, failed>>
    BY <1>2 DEF CheckPasses
  <2> QED
    BY <1>1, <2>1, <2>2, <2>3, <2>4, ChangedStep
<1>3. ASSUME NEW x \in RequestState, req' = [req EXCEPT ![r] = x],
             x.phase \in {"loading", "done"}, x.kind # "none" => x.id \in Id,
             UNCHANGED <<disk, cache, load, chain, writing>>, UNCHANGED history
      PROVE  StoreInv' /\ DocumentStep
  BY <1>1, <1>3, RequestMoves DEF DocumentStep, DocumentStays, history
<1>4. CASE CheckPasses(r) /\ req[r].kind = "post"
  <2> DEFINE x == [req[r] EXCEPT !.phase = "loading"]
  <2>1. x \in RequestState /\ x.phase = "loading" /\ x.id = req[r].id /\ req[r].id \in Id
    BY <1>4 DEF StoreInv, StoreTypeOK, RequestState, Phase, SeenWasThere
  <2>2. req' = [req EXCEPT ![r] = x]
        /\ UNCHANGED <<disk, cache, load, chain, writing>> /\ UNCHANGED history
    BY <1>4 DEF CheckPasses, history
  <2> HIDE DEF x
  <2> QED
    BY <1>3, <2>1, <2>2
<1>5. CASE CheckFails(r)
  <2> DEFINE x == [NoRequest EXCEPT !.phase = "done"]
  <2>1. x \in RequestState /\ x.phase = "done" /\ x.kind = "none"
    BY NoRequestIsRequest DEF RequestState, Phase
  <2>2. req' = [req EXCEPT ![r] = x]
        /\ UNCHANGED <<disk, cache, load, chain, writing>> /\ UNCHANGED history
    BY <1>5 DEF CheckFails, To
  <2> HIDE DEF x
  <2> QED
    BY <1>3, <2>1, <2>2
<1> QED
  BY <1>2, <1>4, <1>5 DEF Check, CheckPasses

LEMMA LoadIsOpen ==
  ASSUME StoreInv, LoadFromDisk
  PROVE  Durable!Open
BY DEF LoadFromDisk, Durable!Open, Durable!Empty, Empty, StoreInv, MapIsLast

\* A write that finds its version in the file already changes nothing.
LEMMA EndWriteIsSave ==
  ASSUME StoreInv, NEW w \in writing, WriteLands(w) \/ WriteFails(w)
  PROVE  DocumentStep
<1>1. /\ w.version \in 1 .. Len(log) /\ w.doc = log[w.version]
      /\ kept <= w.version /\ failed <= w.version
      /\ kept \in Nat /\ failed \in Nat /\ Len(log) \in Nat
      /\ kept > 0 => disk = log[kept]
  BY DEF StoreInv, OneWrite, FileIsKept, StoreTypeOK
<1>2. CASE WriteLands(w) /\ kept < w.version
  BY <1>1, <1>2 DEF WriteLands, DocumentStep, Durable!Next, Durable!Save
<1>3. CASE WriteLands(w) /\ kept = w.version
  BY <1>1, <1>3 DEF WriteLands, DocumentStep, DocumentStays
<1>4. CASE WriteFails(w) /\ failed < w.version
  BY <1>1, <1>4 DEF WriteFails, DocumentStep, Durable!Next, Durable!SaveFails
<1>5. CASE WriteFails(w) /\ failed = w.version
  BY <1>1, <1>5 DEF WriteFails, DocumentStep, DocumentStays
<1> QED
  BY <1>1, <1>2, <1>3, <1>4, <1>5

LEMMA ReplyIsAnswer ==
  ASSUME StoreInv, NEW r \in Request, Reply(r)
  PROVE  DocumentStep
<1>1. made[r] <= kept \/ made[r] <= failed
  BY DEF StoreInv, ChangesAreMade, Reply
<1>2. CASE made[r] = 0
  BY <1>2 DEF Reply, DocumentStep, DocumentStays, StoreInv, StoreTypeOK
<1>3. CASE made[r] # 0
  BY <1>1, <1>3 DEF Reply, DocumentStep, Durable!Next, Durable!Answer
<1> QED
  BY <1>2, <1>3

LEMMA NextStore ==
  ASSUME StoreInv, [Next]_vars
  PROVE  StoreInv' /\ [Durable!Next]_(Durable!vars)
<1> SUFFICES StoreInv' /\ DocumentStep
  BY DEF DocumentStep, DocumentStays, Durable!vars
<1>1. ASSUME NEW r \in Request, Arrive(r)
      PROVE  StoreInv' /\ DocumentStep
  BY <1>1, ArriveStep DEF Arrive, history, DocumentStep, DocumentStays
<1>2. ASSUME NEW r \in Request, Reply(r)
      PROVE  StoreInv' /\ DocumentStep
  BY <1>2, ReplyStep, ReplyIsAnswer
<1>3. CASE LoadFromDisk
  BY <1>3, LoadStep, LoadIsOpen DEF DocumentStep, Durable!Next
<1>4. CASE StartWrite
  <2>1. DocumentStays
    BY <1>4 DEF StartWrite, history, DocumentStays
  <2> QED
    BY <1>4, <2>1, StartWriteStep DEF DocumentStep
<1>5. CASE EndWrite
  <2>1. PICK w \in writing : WriteLands(w) \/ WriteFails(w)
    BY <1>5 DEF EndWrite
  <2> QED
    BY <2>1, EndWriteStep, EndWriteIsSave
<1>6. CASE Crash
  <2>1. Durable!Crash
    BY <1>6 DEF Crash, Durable!Crash
  <2> QED
    BY <1>6, <2>1, CrashStep DEF DocumentStep, Durable!Next
<1>7. CASE UNCHANGED vars
  <2>1. DocumentStays
    BY <1>7 DEF vars, DocumentStays
  <2>2. StoreTypeOK' /\ MapIsLast' /\ FileIsKept' /\ LastIsWritten'
    BY <1>7 DEF vars, StoreInv, StoreTypeOK, MapIsLast, FileIsKept, LastIsWritten, TheMap
  <2>3. ChainIsQueued' /\ OneWrite' /\ ChangesAreMade' /\ SeenWasThere'
    BY <1>7 DEF vars, StoreInv, ChainIsQueued, OneWrite, ChangesAreMade, SeenWasThere, In
  <2> QED
    BY <2>1, <2>2, <2>3 DEF DocumentStep, StoreInv
<1> QED
  BY <1>1, <1>2, <1>3, <1>4, <1>5, <1>6, <1>7, HandleStep, CheckStep DEF Next

-----------------------------------------------------------------------------
(* The invariant holds of every behaviour.                                    *)
THEOREM StoreInvariant == Spec => []StoreInv
<1>1. StoreInv /\ [Next]_vars => StoreInv'
  BY NextStore
<1> QED
  BY InitStore, <1>1, PTL DEF Spec

(* Type correctness, for any requests and workspaces.                         *)
THEOREM StoreTypeCorrect == Spec => []StoreTypeOK
BY StoreInvariant, PTL DEF StoreInv

(* Nothing is left unwritten (workspaceStore.ts 134-140): when no write is    *)
(* queued or under way and the last one has not failed, the file is the map.  *)
THEOREM NothingLeftUnwritten == Spec => []QuietFileIsCurrent
<1>1. StoreInv => QuietFileIsCurrent
  <2> SUFFICES ASSUME StoreInv, cache # None, chain = << >>, writing = {},
                      failed # Len(log), Len(log) # 1
               PROVE  disk = cache
    BY DEF QuietFileIsCurrent
  <2>1. load # None /\ cache = TheMap
    BY DEF StoreInv, MapIsLast, TheMap
  <2>2. Len(log) \in Nat \ {0} /\ log[Len(log)] = cache
    BY <2>1, MapExists
  <2>3. kept = Len(log)
    <3>1. \A n \in Nat \ {0} : n # 1 => ~(n <= 1)
      OBVIOUS
    <3>2. ~\E w \in writing : w.version = Len(log)
      OBVIOUS
    <3> QED
      BY <2>2, <3>1, <3>2, Zenon DEF StoreInv, LastIsWritten
  <2> QED
    BY <2>2, <2>3 DEF StoreInv, FileIsKept
<1> QED
  BY <1>1, StoreInvariant, PTL

(* The store is a durable document (workspaceStore.ts 95-186): the file moves *)
(* forward along the versions of the map, and an answer waits for the write   *)
(* that covers its change, or for one that failed.                            *)
THEOREM StoreIsDurable == Spec => DurableSpec
<1>1. Init => Durable!Init
  <2> SUFFICES ASSUME Init PROVE Durable!Init
    OBVIOUS
  <2>1. disk \in Document
    BY InitStore DEF StoreInv, StoreTypeOK
  <2> QED
    BY <2>1 DEF Init, Durable!Init, Durable!Document, Document
<1>2. StoreInv /\ [Next]_vars => [Durable!Next]_(Durable!vars)
  BY NextStore
<1> QED
  BY <1>1, <1>2, StoreInvariant, PTL DEF Spec, DurableSpec, Durable!Spec

(* Deletes hold (workspaceRoutes.ts 232-270): a workspace that is not there   *)
(* comes back only by its own POST, or by a PATCH that had read it before it  *)
(* was deleted and then waited for the check of its panes.                    *)
THEOREM DeletedStaysDeleted == Spec => OnlyStalePatchRevives
<1> DEFINE Revives(i) ==
      cache # None /\ cache' # None /\ cache[i] = Absent /\ cache'[i] # Absent
<1> DEFINE Rightly(i) ==
      \E r \in Request :
        \/ r = i /\ Post(r)
        \/ /\ CheckPasses(r) /\ req[r].id = i
           /\ \E k \in DOMAIN log : log[k][i] # Absent /\ log[k][i] = req[r].seen
<1>1. ASSUME StoreInv, [Next]_vars, NEW i \in Id, Revives(i)
      PROVE  Rightly(i)
  <2>1. TheMap = cache /\ cache \in Document
    BY <1>1 DEF TheMap, StoreInv, StoreTypeOK
  <2>2. ASSUME NEW r \in Request, NEW j \in Id, NEW e \in Entry, Changed(r, j, e)
        PROVE  i = j /\ e # Absent
    BY <1>1, <2>1, <2>2 DEF Changed, Document
  <2>3. ASSUME NEW r \in Request, Answered(r)
        PROVE  FALSE
    BY <1>1, <2>1, <2>3 DEF Answered
  <2>4. PICK r \in Request : Handle(r) \/ Check(r)
    BY <1>1 DEF Next, Arrive, Reply, LoadFromDisk, StartWrite, EndWrite, WriteLands,
       WriteFails, Crash, vars
  <2>5. CASE Get(r)
    BY <2>3, <2>5 DEF Get
  <2>6. CASE Delete(r)
    <3>1. req[r].id \in Id
      BY <1>1, <2>6 DEF Delete, StoreInv, SeenWasThere
    <3> QED
      BY <2>2, <2>3, <2>6, <3>1 DEF Delete, Entry
  <2>7. CASE Post(r)
    <3>1. [f \in Field |-> r] \in Entry /\ r \in Id
      BY DEF Entry, Definition, Id
    <3>2. i = r
      BY <2>2, <2>7, <3>1 DEF Post
    <3> QED
      BY <2>7, <3>2
  <2>8. CASE PatchReads(r)
    <3>1. CASE Answered(r)
      BY <2>3, <3>1
    <3>2. CASE cache' = TheMap
      BY <1>1, <2>1, <3>2
    <3> QED
      BY <2>8, <3>1, <3>2 DEF PatchReads
  <2>9. CASE CheckPasses(r) /\ req[r].kind = "patch"
    <3>1. /\ req[r].seen # Absent /\ req[r].id \in Id
          /\ \E k \in DOMAIN log : log[k][req[r].id] = req[r].seen
          /\ req[r].seen \in Definition
      BY <1>1, <2>9 DEF StoreInv, SeenWasThere, CheckPasses, StoreTypeOK, RequestState, Entry
    <3>2. Changed(r, req[r].id, Merged(r, req[r].seen))
      BY <2>9 DEF CheckPasses
    <3>3. i = req[r].id
      BY <2>2, <3>1, <3>2, MergedIsDefinition
    <3> QED
      BY <2>9, <3>1, <3>3
  <2>10. CASE (CheckPasses(r) /\ req[r].kind = "post") \/ CheckFails(r)
    BY <1>1, <2>10 DEF CheckPasses, CheckFails
  <2> QED
    BY <2>4, <2>5, <2>6, <2>7, <2>8, <2>9, <2>10 DEF Handle, Check, CheckPasses
<1>2. StoreInv /\ [Next]_vars => [\A i \in Id : Revives(i) => Rightly(i)]_vars
  BY <1>1
<1> QED
  BY <1>2, StoreInvariant, PTL DEF Spec, OnlyStalePatchRevives
=============================================================================
