------------------------- MODULE ChatDeliveryProofs -------------------------
(***************************************************************************)
(* Exactly once: through replays, live tails, lost connections and page    *)
(* loads, the transcript of the tab is the log of its run, every event     *)
(* once and in order, as long as the log is the one the run was begun with *)
(* and the cap has not cut it.                                             *)
(*                                                                         *)
(* The argument follows the events of one run x from its log, through the  *)
(* frames in flight, to the tab.  The frames of x in flight always carry   *)
(* consecutive cursors a+1 .. b; the tab has everything up to a; and while *)
(* the tab's connection is subscribed to x, b is the end of the log.  What *)
(* breaks a connection empties the wire and the subscription together, and *)
(* then the resume on its way names the anchor of the tab.                 *)
(***************************************************************************)
EXTENDS ChatSystemProofs

-----------------------------------------------------------------------------
(***************************************************************************)
(* The inductive invariant.                                                *)
(***************************************************************************)
\* The gateway has handed out x and the run was begun.
Known(x) == Has(x) \/ x \in lost

KnownLogs ==
  /\ \A x \in DOMAIN runs \ lost : runs[x].cursor > 0
  /\ \A p \in PumpId : stream[p].phase # "unused" => Known(stream[p].run)
  /\ \A x \in DOMAIN runs : \A i \in 1 .. Len(runs[x].events) :
       runs[x].events[i].event = "run.started" => runs[x].events[i].cursor = 1

\* Position i of the frames d holds a logged event of x.
Holds(d, i, x) == d[i].run = x /\ d[i].cursor > 0

Lacks(d, x) == \A i \in 1 .. Len(d) : ~Holds(d, i, x)

\* The logged events of x among the frames d are those after a up to b, in order.
Carries(d, x, a, b) ==
  /\ \A i \in 1 .. Len(d) : Holds(d, i, x) => a < d[i].cursor /\ d[i].cursor <= b
  /\ \A n \in a + 1 .. b : \E i \in 1 .. Len(d) : Holds(d, i, x) /\ d[i].cursor = n
  /\ \A i, j \in 1 .. Len(d) :
       Holds(d, i, x) /\ Holds(d, j, x) /\ i < j => d[i].cursor < d[j].cursor

\* The connection of the tab is subscribed to x.
Tailed(x) ==
  \E s \in Socket : IsOpen(s) /\ \E k \in 1 .. Len(tails[s]) :
                                   tails[s][k].live /\ tails[s][k].run = x

IsResume(i) == up[i].do = "resume"

\* What is known of a frame in flight.
SoundFrame(f) ==
  /\ f.event = "run.started" => f.cursor = 1
  /\ f.cursor > 0 => f.event \in LogEvents /\ f.run \in RunId

Connections ==
  /\ \A s, t \in Socket : IsOpen(s) /\ IsOpen(t) => s = t
  /\ \A s \in Socket : link[s] = "unused" => tails[s] = << >>
  /\ \A c \in calls : link[c.socket] # "unused"
  /\ ~Online => down = << >> /\ \A i \in 1 .. Len(up) : ~IsResume(i)
  /\ \A i, j \in 1 .. Len(up) : IsResume(i) /\ IsResume(j) => i = j

SoundFrames ==
  \A i \in 1 .. Len(down) :
    SoundFrame(down[i]) /\ (down[i].cursor > 0 => Known(down[i].run))

\* A subscription has not forwarded more than there is.
SoundGates ==
  \A s \in Socket : \A k \in 1 .. Len(tails[s]) :
    tails[s][k].live /\ Whole(tails[s][k].run)
      => tails[s][k].gate <= runs[tails[s][k].run].cursor

\* Where the events of x are: in the tab up to a, in flight from there up to b.
Delivered(x) ==
  \E b \in 0 .. runs[x].cursor : \E a \in 0 .. b :
    /\ Carries(down, x, a, b)
    /\ tab.run = x => a <= tab.cursor
    /\ Tailed(x) => b = runs[x].cursor

\* A resume from cursor k of x: nothing of x has come through its connection yet.
SoundResume(x, k) ==
  /\ Known(x)
  /\ Whole(x) => /\ k <= runs[x].cursor
                 /\ tab.run = x => k = tab.cursor
                 /\ Lacks(down, x)
                 /\ ~Tailed(x)

SoundResumes == \A i \in 1 .. Len(up) : IsResume(i) => SoundResume(up[i].run, up[i].cursor)

SoundTab ==
  /\ tab.expecting => tab.run = None
  /\ tab.run = None => tab.cursor = 0 /\ tab.applied = << >>
  /\ tab.run # None => Known(tab.run)
  /\ tab.saved # None => Known(tab.saved)
  /\ tab.run # None /\ Whole(tab.run) =>
       /\ tab.cursor <= runs[tab.run].cursor
       /\ tab.applied = [i \in 1 .. tab.cursor |-> <<tab.run, i>>]

Delivery ==
  /\ KnownLogs
  /\ Connections
  /\ SoundFrames
  /\ SoundGates
  /\ \A x \in RunId : Whole(x) => Delivered(x)
  /\ SoundResumes
  /\ SoundTab

-----------------------------------------------------------------------------
(***************************************************************************)
(* Frames in flight.                                                       *)
(***************************************************************************)
LEMMA JoinedFrames ==
  ASSUME NEW d \in Seq(NamedFrame), NEW e \in Seq(NamedFrame)
  PROVE  /\ d \o e \in Seq(NamedFrame)
         /\ Len(d) \in Nat /\ Len(e) \in Nat
         /\ Len(d \o e) = Len(d) + Len(e)
         /\ \A i \in 1 .. Len(d) : i \in 1 .. Len(d \o e) /\ (d \o e)[i] = d[i]
         /\ \A i \in 1 .. Len(e) :
              Len(d) + i \in 1 .. Len(d \o e) /\ (d \o e)[Len(d) + i] = e[i]
         /\ \A i \in 1 .. Len(d \o e) : i > Len(d) => i - Len(d) \in 1 .. Len(e)
                                                      /\ (d \o e)[i] = e[i - Len(d)]
<1>1. Len(d) \in Nat /\ Len(e) \in Nat
  BY LenProperties
<1>2. /\ d \o e \in Seq(NamedFrame)
      /\ Len(d \o e) = Len(d) + Len(e)
      /\ \A i \in 1 .. Len(d) + Len(e) :
           (d \o e)[i] = IF i <= Len(d) THEN d[i] ELSE e[i - Len(d)]
  BY ConcatProperties
<1> QED
  BY <1>1, <1>2

LEMMA CarriesNothing ==
  ASSUME NEW d, NEW x, Lacks(d, x), NEW k \in Nat
  PROVE  Carries(d, x, k, k)
BY DEF Lacks, Carries

LEMMA LacksJoined ==
  ASSUME NEW d \in Seq(NamedFrame), NEW e \in Seq(NamedFrame), NEW x, Lacks(d, x), Lacks(e, x)
  PROVE  Lacks(d \o e, x)
<1> SUFFICES ASSUME NEW i \in 1 .. Len(d \o e), Holds(d \o e, i, x) PROVE FALSE
  BY DEF Lacks
<1>1. CASE i <= Len(d)
  BY <1>1, JoinedFrames DEF Lacks, Holds
<1>2. CASE i > Len(d)
  BY <1>2, JoinedFrames DEF Lacks, Holds
<1> QED
  BY <1>1, <1>2, JoinedFrames

(* Frames without logged events of x change nothing for x.                 *)
LEMMA CarriesWithOthers ==
  ASSUME NEW d \in Seq(NamedFrame), NEW e \in Seq(NamedFrame), NEW x, Lacks(e, x),
         NEW a \in Nat, NEW b \in Nat, Carries(d, x, a, b)
  PROVE  Carries(d \o e, x, a, b)
<1> DEFINE f == d \o e
<1>1. /\ Len(d) \in Nat
      /\ \A i \in 1 .. Len(d) : i \in 1 .. Len(f) /\ f[i] = d[i]
      /\ \A i \in 1 .. Len(f) : i > Len(d) => i - Len(d) \in 1 .. Len(e) /\ f[i] = e[i - Len(d)]
      /\ Len(f) \in Nat
  BY JoinedFrames
<1> HIDE DEF f
<1>2. ASSUME NEW i \in 1 .. Len(f), Holds(f, i, x)
      PROVE  i \in 1 .. Len(d) /\ Holds(d, i, x) /\ f[i] = d[i]
  <2>1. CASE i > Len(d)
    BY <1>1, <1>2, <2>1 DEF Lacks, Holds
  <2>2. CASE i <= Len(d)
    BY <1>1, <1>2, <2>2 DEF Holds
  <2> QED
    BY <1>1, <2>1, <2>2
<1>3. \A i \in 1 .. Len(d) : Holds(d, i, x) => Holds(f, i, x)
  BY <1>1 DEF Holds
<1>4. \A i \in 1 .. Len(f) : Holds(f, i, x) => a < f[i].cursor /\ f[i].cursor <= b
  BY <1>2 DEF Carries
<1>5. \A n \in a + 1 .. b : \E i \in 1 .. Len(f) : Holds(f, i, x) /\ f[i].cursor = n
  BY <1>1, <1>3 DEF Carries
<1>6. \A i, j \in 1 .. Len(f) :
        Holds(f, i, x) /\ Holds(f, j, x) /\ i < j => f[i].cursor < f[j].cursor
  BY <1>2 DEF Carries
<1> QED
  BY <1>4, <1>5, <1>6 DEF Carries, f

(* The next events of x, behind what is in flight.                         *)
LEMMA CarriesWithNext ==
  ASSUME NEW d \in Seq(NamedFrame), NEW e \in Seq(NamedFrame), NEW x,
         NEW a \in Nat, NEW b \in Nat, a <= b, Carries(d, x, a, b),
         \A i \in 1 .. Len(e) : e[i].run = x /\ e[i].cursor = b + i
  PROVE  Carries(d \o e, x, a, b + Len(e))
<1> DEFINE f == d \o e
<1>1. /\ Len(d) \in Nat /\ Len(e) \in Nat
      /\ Len(f) = Len(d) + Len(e)
      /\ \A i \in 1 .. Len(d) : i \in 1 .. Len(f) /\ f[i] = d[i]
      /\ \A i \in 1 .. Len(e) : Len(d) + i \in 1 .. Len(f) /\ f[Len(d) + i] = e[i]
      /\ \A i \in 1 .. Len(f) : i > Len(d) => i - Len(d) \in 1 .. Len(e) /\ f[i] = e[i - Len(d)]
  BY JoinedFrames
<1> HIDE DEF f
<1>2. \A i \in 1 .. Len(d) : Holds(d, i, x) <=> Holds(f, i, x)
  BY <1>1 DEF Holds
<1>3. \A i \in 1 .. Len(f) : i > Len(d) => Holds(f, i, x) /\ f[i].cursor = b + (i - Len(d))
  BY <1>1 DEF Holds
<1>4. \A i \in 1 .. Len(f) : i <= Len(d) /\ Holds(f, i, x) =>
        a < f[i].cursor /\ f[i].cursor <= b /\ f[i] = d[i] /\ i \in 1 .. Len(d)
  BY <1>1, <1>2 DEF Carries
<1>0. \A i \in 1 .. Len(f) : f[i].cursor \in Nat
  <2>1. f \in Seq(NamedFrame)
    BY JoinedFrames DEF f
  <2>2. \A i \in 1 .. Len(f) : f[i] \in NamedFrame
    BY <2>1, ElementOfSeq
  <2> QED
    BY <2>2 DEF NamedFrame, WireFrame
<1>5. \A i \in 1 .. Len(f) : Holds(f, i, x) => a < f[i].cursor /\ f[i].cursor <= b + Len(e)
  <2> TAKE i \in 1 .. Len(f)
  <2> HAVE Holds(f, i, x)
  <2>1. CASE i <= Len(d)
    BY <1>0, <1>1, <1>4, <2>1
  <2>2. CASE i > Len(d)
    <3>1. f[i].cursor = b + (i - Len(d)) /\ i - Len(d) \in 1 .. Len(e)
      BY <1>1, <1>3, <2>2
    <3> QED
      BY <1>1, <3>1
  <2> QED
    BY <1>1, <2>1, <2>2
<1>6. ASSUME NEW n \in a + 1 .. b + Len(e)
      PROVE  \E i \in 1 .. Len(f) : Holds(f, i, x) /\ f[i].cursor = n
  <2>1. CASE n <= b
    <3>1. PICK i \in 1 .. Len(d) : Holds(d, i, x) /\ d[i].cursor = n
      BY <2>1 DEF Carries
    <3> QED
      BY <1>1, <1>2, <3>1
  <2>2. CASE n > b
    <3>1. n - b \in 1 .. Len(e) /\ Len(d) + (n - b) > Len(d)
      BY <1>1, <2>2
    <3>2. Len(d) + (n - b) \in 1 .. Len(f)
      BY <1>1, <3>1
    <3>3. b + ((Len(d) + (n - b)) - Len(d)) = n
      BY <1>1
    <3> QED
      BY <1>3, <3>1, <3>2, <3>3
  <2> QED
    BY <2>1, <2>2
<1>7. ASSUME NEW i \in 1 .. Len(f), NEW j \in 1 .. Len(f),
             Holds(f, i, x), Holds(f, j, x), i < j
      PROVE  f[i].cursor < f[j].cursor
  <2>1. CASE j <= Len(d)
    <3>1. i <= Len(d)
      BY <1>1, <1>7, <2>1
    <3>2. i \in 1 .. Len(d) /\ j \in 1 .. Len(d) /\ f[i] = d[i] /\ f[j] = d[j]
      BY <1>4, <1>7, <2>1, <3>1
    <3>3. Holds(d, i, x) /\ Holds(d, j, x)
      BY <1>2, <1>7, <3>2
    <3> QED
      BY <1>7, <3>2, <3>3 DEF Carries
  <2>2. CASE j > Len(d) /\ i <= Len(d)
    <3>1. f[i].cursor <= b
      BY <1>4, <1>7, <2>2
    <3>2. f[j].cursor = b + (j - Len(d)) /\ j - Len(d) > 0
      BY <1>1, <1>3, <2>2
    <3> QED
      BY <1>0, <1>1, <3>1, <3>2
  <2>3. CASE j > Len(d) /\ i > Len(d)
    <3>1. f[i].cursor = b + (i - Len(d)) /\ f[j].cursor = b + (j - Len(d))
      BY <1>3, <2>3
    <3> QED
      BY <1>1, <1>7, <3>1
  <2> QED
    BY <1>1, <2>1, <2>2, <2>3
<1> QED
  BY <1>5, <1>6, <1>7 DEF Carries, f

(* The tab takes the first frame.                                          *)
LEMMA TailFrames ==
  ASSUME NEW d \in Seq(NamedFrame), d # << >>
  PROVE  /\ Head(d) = d[1] /\ Head(d) \in NamedFrame
         /\ Tail(d) \in Seq(NamedFrame)
         /\ Len(d) \in Nat /\ 1 \in 1 .. Len(d)
         /\ \A i \in 1 .. Len(Tail(d)) : i + 1 \in 1 .. Len(d) /\ Tail(d)[i] = d[i + 1]
         /\ \A i \in 1 .. Len(d) : i > 1 => i - 1 \in 1 .. Len(Tail(d)) /\ Tail(d)[i - 1] = d[i]
         /\ \A i \in 1 .. Len(d) : d[i].cursor \in Nat
<1>1. Len(d) \in Nat \ {0}
  BY EmptySeq, LenProperties
<1>2. /\ Head(d) \in NamedFrame /\ Tail(d) \in Seq(NamedFrame)
      /\ Len(Tail(d)) = Len(d) - 1
      /\ \A i \in 1 .. Len(Tail(d)) : Tail(d)[i] = d[i + 1]
  BY HeadTailProperties
<1>3. Head(d) = d[1]
  OBVIOUS
<1>4. \A i \in 1 .. Len(d) : d[i].cursor \in Nat
  BY ElementOfSeq DEF NamedFrame, WireFrame
<1> QED
  BY <1>1, <1>2, <1>3, <1>4

LEMMA CarriesAfterOther ==
  ASSUME NEW d \in Seq(NamedFrame), d # << >>, NEW x, ~Holds(d, 1, x),
         NEW a, NEW b, Carries(d, x, a, b)
  PROVE  Carries(Tail(d), x, a, b)
<1> DEFINE f == Tail(d)
<1>1. /\ Len(d) \in Nat
      /\ \A i \in 1 .. Len(f) : i + 1 \in 1 .. Len(d) /\ f[i] = d[i + 1]
      /\ \A i \in 1 .. Len(d) : i > 1 => i - 1 \in 1 .. Len(f) /\ f[i - 1] = d[i]
  BY TailFrames
<1> HIDE DEF f
<1>2. \A i \in 1 .. Len(f) : Holds(f, i, x) => Holds(d, i + 1, x)
  BY <1>1 DEF Holds
<1>3. \A i \in 1 .. Len(d) : Holds(d, i, x) => i > 1 /\ Holds(f, i - 1, x)
  BY <1>1 DEF Holds
<1>4. \A i \in 1 .. Len(f) : Holds(f, i, x) => a < f[i].cursor /\ f[i].cursor <= b
  BY <1>1, <1>2 DEF Carries
<1>5. \A n \in a + 1 .. b : \E i \in 1 .. Len(f) : Holds(f, i, x) /\ f[i].cursor = n
  <2> TAKE n \in a + 1 .. b
  <2>1. PICK i \in 1 .. Len(d) : Holds(d, i, x) /\ d[i].cursor = n
    BY DEF Carries
  <2> QED
    BY <1>1, <1>3, <2>1
<1>6. \A i, j \in 1 .. Len(f) :
        Holds(f, i, x) /\ Holds(f, j, x) /\ i < j => f[i].cursor < f[j].cursor
  <2> TAKE i, j \in 1 .. Len(f)
  <2> HAVE Holds(f, i, x) /\ Holds(f, j, x) /\ i < j
  <2>1. i + 1 \in 1 .. Len(d) /\ j + 1 \in 1 .. Len(d) /\ i + 1 < j + 1
    BY <1>1
  <2> QED
    BY <1>1, <1>2, <2>1 DEF Carries
<1> QED
  BY <1>4, <1>5, <1>6 DEF Carries, f

LEMMA CarriesAfterOwn ==
  ASSUME NEW d \in Seq(NamedFrame), d # << >>, NEW x, Holds(d, 1, x),
         NEW a \in Nat, NEW b \in Nat, Carries(d, x, a, b)
  PROVE  d[1].cursor = a + 1 /\ a + 1 <= b /\ Carries(Tail(d), x, a + 1, b)
<1> DEFINE f == Tail(d)
<1>1. /\ Len(d) \in Nat /\ 1 \in 1 .. Len(d)
      /\ \A i \in 1 .. Len(f) : i + 1 \in 1 .. Len(d) /\ f[i] = d[i + 1]
      /\ \A i \in 1 .. Len(d) : i > 1 => i - 1 \in 1 .. Len(f) /\ f[i - 1] = d[i]
      /\ \A i \in 1 .. Len(d) : d[i].cursor \in Nat
  BY TailFrames
<1> HIDE DEF f
<1>2. \A i \in 1 .. Len(f) : Holds(f, i, x) => Holds(d, i + 1, x)
  BY <1>1 DEF Holds
<1>3. \A i \in 1 .. Len(d) : Holds(d, i, x) /\ i > 1 => Holds(f, i - 1, x)
  BY <1>1 DEF Holds
<1>4. a < d[1].cursor /\ d[1].cursor <= b
  BY <1>1 DEF Carries
<1>5. d[1].cursor = a + 1
  <2>1. a + 1 \in a + 1 .. b
    BY <1>1, <1>4
  <2>2. PICK i \in 1 .. Len(d) : Holds(d, i, x) /\ d[i].cursor = a + 1
    BY <2>1 DEF Carries
  <2>3. CASE i = 1
    BY <2>2, <2>3
  <2>4. CASE i # 1
    <3>1. 1 < i
      BY <1>1, <2>4
    <3>2. d[1].cursor < d[i].cursor
      BY <1>1, <2>2, <3>1 DEF Carries
    <3> QED
      BY <1>1, <1>4, <2>2, <3>2
  <2> QED
    BY <2>3, <2>4
<1>6. \A i \in 1 .. Len(f) : Holds(f, i, x) => a + 1 < f[i].cursor /\ f[i].cursor <= b
  <2> SUFFICES ASSUME NEW i \in 1 .. Len(f), Holds(f, i, x)
               PROVE  a + 1 < f[i].cursor /\ f[i].cursor <= b
    OBVIOUS
  <2>1. i + 1 \in 1 .. Len(d) /\ 1 < i + 1 /\ Holds(d, i + 1, x) /\ f[i] = d[i + 1]
    BY <1>1, <1>2
  <2> QED
    BY <1>1, <1>5, <2>1 DEF Carries
<1>7. \A n \in (a + 1) + 1 .. b : \E i \in 1 .. Len(f) : Holds(f, i, x) /\ f[i].cursor = n
  <2> TAKE n \in (a + 1) + 1 .. b
  <2>0. n \in a + 1 .. b /\ n # a + 1
    OBVIOUS
  <2>1. PICK i \in 1 .. Len(d) : Holds(d, i, x) /\ d[i].cursor = n
    BY <2>0 DEF Carries
  <2>2. i > 1
    BY <1>1, <1>5, <2>0, <2>1
  <2> QED
    BY <1>1, <1>3, <2>1, <2>2
<1>8. \A i, j \in 1 .. Len(f) :
        Holds(f, i, x) /\ Holds(f, j, x) /\ i < j => f[i].cursor < f[j].cursor
  <2> TAKE i, j \in 1 .. Len(f)
  <2> HAVE Holds(f, i, x) /\ Holds(f, j, x) /\ i < j
  <2>1. i + 1 \in 1 .. Len(d) /\ j + 1 \in 1 .. Len(d) /\ i + 1 < j + 1
    BY <1>1
  <2> QED
    BY <1>1, <1>2, <2>1 DEF Carries
<1> QED
  BY <1>1, <1>4, <1>5, <1>6, <1>7, <1>8 DEF Carries, f

-----------------------------------------------------------------------------
(***************************************************************************)
(* What a frame does to the tab's place in the log of its run.             *)
(***************************************************************************)
\* The tab has the same events of the same run.
SamePlace(t, u) ==
  /\ u.run = t.run /\ u.cursor = t.cursor /\ u.applied = t.applied
  /\ u.expecting => t.expecting
  /\ u.saved \in {t.saved, t.run, None}

\* The tab has taken the logged event in f.
TookEvent(t, f, u) ==
  /\ f.cursor > t.cursor
  /\ u.run = f.run /\ u.cursor = f.cursor
  /\ u.applied = Append(t.applied, <<f.run, f.cursor>>)
  /\ ~u.expecting
  /\ u.saved \in {f.run, None}
  /\ t.run = f.run \/ (t.expecting /\ f.event = "run.started")

LEMMA ShownKeepsPlace ==
  ASSUME NEW t \in NamedTab, NEW f \in RunFrames, NEW u, u = Shown(t, f)
  PROVE  /\ u.run = t.run /\ u.cursor = t.cursor /\ u.applied = t.applied
         /\ u.expecting = t.expecting /\ u.saved = t.saved
<1> DEFINE Keeps(v) == /\ v.run = t.run /\ v.cursor = t.cursor /\ v.applied = t.applied
                       /\ v.expecting = t.expecting /\ v.saved = t.saved
<1>0. t \in TabState
  BY DEF NamedTab
<1> USE <1>0 DEF TabState
<1>1. Keeps([t EXCEPT !.shown = f.run, !.status = "running", !.card = NoCard])
  OBVIOUS
<1>2. Keeps([t EXCEPT !.working = TRUE])
  OBVIOUS
<1>3. Keeps([t EXCEPT !.card = [run |-> f.run, gate |-> f.gate]])
  OBVIOUS
<1>4. Keeps([t EXCEPT !.card = NoCard])
  OBVIOUS
<1>5. \A v : Keeps([t EXCEPT !.status = v])
  OBVIOUS
<1>6. Keeps([t EXCEPT !.status = "idle", !.working = FALSE, !.card = NoCard])
  OBVIOUS
<1>7. Keeps(t)
  OBVIOUS
<1> HIDE DEF Keeps
<1>8. Keeps([t EXCEPT !.status = IF @ = "idle" THEN @ ELSE "stopping"])
  BY <1>5
<1>9. Keeps(Shown(t, f))
  BY <1>1, <1>2, <1>3, <1>4, <1>6, <1>7, <1>8 DEF Shown, RunFrames, LogEvents, TerminalEvents
<1> QED
  BY <1>9 DEF Keeps

LEMMA AppliedMovesPlace ==
  ASSUME NEW t \in NamedTab, NEW f \in RunFrames, NEW u, u = Applied(t, f)
  PROVE  /\ u.run = t.run /\ u.expecting = t.expecting /\ u.saved \in {t.run, None}
         /\ u.cursor = IF f.cursor = 0 THEN t.cursor ELSE f.cursor
         /\ u.applied = IF f.cursor = 0 THEN t.applied
                                        ELSE Append(t.applied, <<f.run, f.cursor>>)
<1> DEFINE over == f.event \in TerminalEvents
           c == IF f.cursor = 0 THEN t.cursor ELSE f.cursor
           a == IF f.cursor = 0 THEN t.applied ELSE Append(t.applied, <<f.run, f.cursor>>)
           d == t.done \/ over
           w == IF over THEN None ELSE t.run
           l == IF f.event = "approval.responded" THEN NoCard ELSE t.cleared
           kept == [t EXCEPT !.cursor = c, !.applied = a, !.done = d, !.saved = w, !.cleared = l]
<1>1. c \in Nat /\ w \in RunId \cup {None} /\ l \in NamedCard
  BY NoCardIsNamed DEF NamedTab, TabState, RunFrames, WireFrame
<1>2. a \in Seq(RunId \X Nat)
  <2>1. t.applied \in Seq(RunId \X Nat) /\ <<f.run, f.cursor>> \in RunId \X Nat
    BY DEF NamedTab, TabState, RunFrames, WireFrame
  <2> QED
    BY <2>1, AppendProperties
<1>3. d \in BOOLEAN
  BY Zenon DEF NamedTab, TabState
<1>4. u = Shown(kept, f)
  BY DEF Applied
<1>w. w \in {t.run, None}
  OBVIOUS
<1> HIDE DEF c, a, d, w, l
<1>5. kept \in NamedTab
  BY <1>1, <1>2, <1>3 DEF NamedTab, TabState, NamedCard
<1>6. /\ kept.run = t.run /\ kept.cursor = c /\ kept.applied = a
      /\ kept.expecting = t.expecting /\ kept.saved = w
  BY DEF NamedTab, TabState
<1> HIDE DEF kept
<1>7. /\ u.run = t.run /\ u.cursor = c /\ u.applied = a
      /\ u.expecting = t.expecting /\ u.saved = w
  BY <1>4, <1>5, <1>6, ShownKeepsPlace
<1> QED
  BY <1>7, <1>w DEF c, a

LEMMA ReceivedMovesPlace ==
  ASSUME NEW t \in NamedTab, NEW f \in NamedFrame, SoundFrame(f),
         t.expecting => t.run = None /\ t.cursor = 0,
         NEW u, u = Received(t, f)
  PROVE  \/ SamePlace(t, u) /\ (f.cursor > 0 /\ f.run = t.run => f.cursor <= t.cursor)
         \/ TookEvent(t, f, u)
<1>0. /\ f \in WireFrame /\ (f.event \in Rejections \/ f.run \in RunId) /\ f.cursor \in Nat
      /\ t \in TabState /\ t.cursor \in Nat /\ None \notin RunId
  BY RunIdAssumption DEF NamedFrame, NamedTab, TabState, WireFrame, RunIdAssumption
<1>1. CASE f.event \in {"approval.pending", "approval.cleared"}
  <2>1. f.cursor = 0
    BY <1>0, <1>1 DEF SoundFrame, LogEvents, TerminalEvents
  <2>2. /\ SamePlace(t, [t EXCEPT !.inbox = @ \cup {f.run}])
        /\ SamePlace(t, [t EXCEPT !.inbox = @ \ {f.run}])
        /\ SamePlace(t, t)
    BY <1>0 DEF SamePlace, TabState
  <2>3. SamePlace(t, u)
    BY <1>1, <2>2 DEF Received
  <2> QED
    BY <2>1, <2>3
<1>2. CASE f.event \in Rejections
  <2>1. f.cursor = 0
    <3>1. f.event \notin LogEvents
      BY <1>2, RejectionsAreFour DEF LogEvents, TerminalEvents
    <3> QED
      BY <1>0, <3>1 DEF SoundFrame
  <2>2. /\ SamePlace(t, [t EXCEPT !.card = t.cleared, !.cleared = NoCard])
        /\ SamePlace(t, [t EXCEPT !.status = "idle", !.working = FALSE, !.card = NoCard])
    BY <1>0 DEF SamePlace, TabState
  <2>3. SamePlace(t, Failed(t, f.event))
    BY <2>2 DEF Failed
  <2>4. /\ f.event \in {"run rejected", "resume rejected", "abort rejected", "respond rejected"}
        /\ f.event # "approval.pending" /\ f.event # "approval.cleared"
    BY <1>2, RejectionsAreFour
  <2>5. u = Failed(t, f.event)
    BY <2>4 DEF Received
  <2> QED
    BY <2>1, <2>3, <2>5
<1>3. CASE f.event \notin Rejections /\ f.event \notin {"approval.pending", "approval.cleared"}
  <2>1. f \in RunFrames /\ f.run # None
    BY <1>0, <1>3 DEF RunFrames, WireFrame
  <2>2. u = RunFrame(t, f)
    BY <1>3, RejectionsAreFour DEF Received
  <2>s. SamePlace(t, t)
    BY DEF SamePlace
  <2>3. CASE f.event = "run.started"
    <3>1. f.cursor = 1
      BY <2>3 DEF SoundFrame
    <3>2. CASE ~t.expecting /\ f.run # t.run
      BY <2>2, <2>3, <2>s, <3>2 DEF RunFrame
    <3>3. CASE ~(~t.expecting /\ f.run # t.run)
      <4> DEFINE own == [t EXCEPT !.run = f.run, !.done = FALSE, !.expecting = FALSE]
      <4>1. /\ own \in NamedTab
            /\ own.run = f.run /\ own.cursor = t.cursor /\ own.applied = t.applied
            /\ ~own.expecting /\ own.saved = t.saved
        BY <2>1 DEF NamedTab, TabState, RunFrames
      <4>2. u = IF Fresh(own, f) THEN Applied(own, f) ELSE own
        BY <2>2, <2>3, <3>3 DEF RunFrame
      <4> HIDE DEF own
      <4>3. CASE Fresh(own, f)
        <5>1. u = Applied(own, f)
          BY <4>2, <4>3
        <5>2. /\ u.run = own.run /\ u.expecting = own.expecting /\ u.saved \in {own.run, None}
              /\ u.cursor = IF f.cursor = 0 THEN own.cursor ELSE f.cursor
              /\ u.applied = IF f.cursor = 0 THEN own.applied
                                        ELSE Append(own.applied, <<f.run, f.cursor>>)
          BY <2>1, <4>1, <5>1, AppliedMovesPlace
        <5>3. TookEvent(t, f, u)
          BY <2>3, <3>1, <3>3, <4>1, <4>3, <5>2 DEF TookEvent, Fresh
        <5> QED
          BY <5>3
      <4>4. CASE ~Fresh(own, f)
        <5>1. u = own /\ 1 <= t.cursor
          BY <1>0, <3>1, <4>1, <4>2, <4>4 DEF Fresh
        <5>2. f.run = t.run
          BY <3>3, <5>1
        <5> QED
          BY <3>1, <4>1, <5>1, <5>2 DEF SamePlace
      <4> QED
        BY <4>3, <4>4
    <3> QED
      BY <3>2, <3>3
  <2>4. CASE f.event # "run.started"
    <3>1. CASE f.run = t.run /\ Fresh(t, f)
      <4>1. u = Applied(t, f)
        BY <2>2, <2>4, <3>1 DEF RunFrame
      <4>2. /\ u.run = t.run /\ u.expecting = t.expecting /\ u.saved \in {t.run, None}
            /\ u.cursor = IF f.cursor = 0 THEN t.cursor ELSE f.cursor
            /\ u.applied = IF f.cursor = 0 THEN t.applied
                                           ELSE Append(t.applied, <<f.run, f.cursor>>)
        BY <2>1, <4>1, AppliedMovesPlace
      <4>3. CASE f.cursor = 0
        BY <4>2, <4>3 DEF SamePlace
      <4>4. CASE f.cursor # 0
        <5>1. ~u.expecting
          BY <2>1, <3>1, <4>2
        <5>2. TookEvent(t, f, u)
          BY <3>1, <4>2, <4>4, <5>1 DEF TookEvent, Fresh
        <5> QED
          BY <5>2
      <4> QED
        BY <4>3, <4>4
    <3>2. CASE ~(f.run = t.run /\ Fresh(t, f))
      <4>1. u = t
        BY <2>2, <2>4, <3>2 DEF RunFrame
      <4>2. f.cursor > 0 /\ f.run = t.run => f.cursor <= t.cursor
        BY <1>0, <3>2 DEF Fresh
      <4> QED
        BY <2>s, <4>1, <4>2
    <3> QED
      BY <3>1, <3>2
  <2> QED
    BY <2>3, <2>4
<1> QED
  BY <1>1, <1>2, <1>3

-----------------------------------------------------------------------------
(***************************************************************************)
(* The logs.                                                               *)
(***************************************************************************)
LEMMA KnownStays ==
  ASSUME KnownLogs, LostLogs, NEW x, Known(x)
  PROVE  Known(x)'
BY DEF KnownLogs, LostLogs, Known, Has

LEMMA SameWhole ==
  ASSUME LostLogs, NEW x, SameLog(x), Whole(x)'
  PROVE  Whole(x) /\ runs'[x].cursor = runs[x].cursor /\ runs'[x].events = runs[x].events
BY DEF LostLogs, SameLog, Whole, Has

LEMMA GrownWhole ==
  ASSUME StoreInv, LostLogs, NEW r, Known(r), NEW e \in LogEvents, Extends(r, e), Whole(r)'
  PROVE  /\ Whole(r) /\ runs[r].cursor \in Nat
         /\ runs'[r].cursor = runs[r].cursor + 1
         /\ News(r) = <<[cursor |-> runs[r].cursor + 1, event |-> e]>>
<1>1. r \notin lost /\ Has(r)
  BY DEF LostLogs, Whole, Known
<1>2. Base(r) = runs[r]
  BY <1>1 DEF Base
<1>3. runs[r] \in RunState /\ GapFree(runs[r])
  BY <1>2, BaseIsALog
<1>4. runs[r].cursor \in Nat /\ runs'[r].cursor = runs[r].cursor + 1
  <2>1. runs[r].cursor \in Nat
    BY <1>3 DEF RunState
  <2>2. Logged(runs[r], e).cursor = runs[r].cursor + 1
    BY <1>3, LoggedEnds
  <2> QED
    BY <1>2, <2>1, <2>2 DEF Extends
<1>5. runs[r].cursor <= MaxEvents
  BY <1>4, RunStoreAssumption DEF Whole, RunStoreAssumption
<1>6. News(r) = <<[cursor |-> runs[r].cursor + 1, event |-> e]>>
  BY <1>2, NewsOfAppend
<1> QED
  BY <1>1, <1>4, <1>5, <1>6 DEF Whole

\* The first event of a run, and no other one, is run.started.
StartedFirst(log) ==
  \A i \in 1 .. Len(log.events) :
    log.events[i].event = "run.started" => log.events[i].cursor = 1

LEMMA LoggedStartedFirst ==
  ASSUME NEW s \in RunState, NEW e \in LogEvents, StartedFirst(s),
         e = "run.started" => s.cursor = 0
  PROVE  StartedFirst(Logged(s, e))
<1> DEFINE new == [cursor |-> s.cursor + 1, event |-> e]
           long == Append(s.events, new)
<1>1. s.events \in Seq(Event) /\ new \in Event /\ s.cursor \in Nat
  BY DEF RunState, Event
<1>2. Len(s.events) \in Nat
  BY <1>1, LenProperties
<1>n. new.event = "run.started" => new.cursor = 1
  BY <1>1
<1> HIDE DEF new
<1>3. /\ long \in Seq(Event)
      /\ Len(long) = Len(s.events) + 1
      /\ \A i \in 1 .. Len(s.events) : long[i] = s.events[i]
      /\ long[Len(s.events) + 1] = new
  BY <1>1, <1>2, AppendProperties
<1> HIDE DEF long
<1>4. \A i \in 1 .. Len(long) : long[i].event = "run.started" => long[i].cursor = 1
  <2> TAKE i \in 1 .. Len(long)
  <2>1. CASE i = Len(s.events) + 1
    BY <1>3, <1>n, <2>1
  <2>2. CASE i # Len(s.events) + 1
    <3>1. i \in 1 .. Len(s.events)
      BY <1>2, <1>3, <2>2
    <3> QED
      BY <1>3, <3>1 DEF StartedFirst
  <2> QED
    BY <2>1, <2>2
<1>5. \A i \in 1 .. Len(Capped(long)) : \E j \in 1 .. Len(long) : Capped(long)[i] = long[j]
  <2>1. CASE Len(long) <= MaxEvents
    BY <2>1 DEF Capped
  <2>2. CASE ~(Len(long) <= MaxEvents)
    <3> DEFINE m == Len(long) - MaxEvents + 1
    <3>1. m \in 1 .. Len(long) /\ Len(long) \in Nat
      BY <1>2, <1>3, <2>2, RunStoreAssumption DEF RunStoreAssumption
    <3>2. \A i \in m .. Len(long) : long[i] \in Event
      <4> SUFFICES ASSUME NEW i \in m .. Len(long) PROVE long[i] \in Event
        OBVIOUS
      <4>1. i \in 1 .. Len(long)
        BY <3>1
      <4> QED
        BY <1>3, <4>1, ElementOfSeq
    <3>3. Capped(long) = SubSeq(long, m, Len(long))
      BY <2>2 DEF Capped
    <3> HIDE DEF m
    <3>4. /\ Len(SubSeq(long, m, Len(long))) = Len(long) - m + 1
          /\ \A i \in 1 .. Len(long) - m + 1 : SubSeq(long, m, Len(long))[i] = long[m + i - 1]
      BY <3>1, <3>2, SubSeqProperties
    <3>5. \A i \in 1 .. Len(long) - m + 1 : m + i - 1 \in 1 .. Len(long)
      BY <3>1
    <3> QED
      BY <3>3, <3>4, <3>5
  <2> QED
    BY <2>1, <2>2
<1>6. Logged(s, e).events = Capped(long)
  BY DEF Logged, long, new
<1> QED
  BY <1>4, <1>5, <1>6 DEF StartedFirst

LEMMA FreshStartedFirst == StartedFirst(FreshRun)
<1>1. FreshRun.events = << >> /\ Len(<< >>) = 0
  BY EmptySeq DEF FreshRun
<1> QED
  BY <1>1 DEF StartedFirst

\* An iteration has the run it had.
StreamsKept ==
  \A q \in PumpId : stream'[q].phase # "unused" =>
    stream[q].phase # "unused" /\ stream'[q].run = stream[q].run

LEMMA KnownLogsKept ==
  ASSUME KnownLogs, LogsKept, StreamsKept
  PROVE  KnownLogs'
<1>1. ASSUME NEW x \in DOMAIN runs'
      PROVE  /\ x \in DOMAIN runs /\ runs'[x].cursor = runs[x].cursor
             /\ runs'[x].events = runs[x].events
             /\ x \notin lost' => x \notin lost
  BY <1>1 DEF LogsKept, SameLog, LostLogs
<1>2. \A x \in DOMAIN runs' \ lost' : runs'[x].cursor > 0
  BY <1>1 DEF KnownLogs
<1>3. \A p \in PumpId : stream'[p].phase # "unused" => Known(stream[p].run)'
  <2> TAKE p \in PumpId
  <2> HAVE stream'[p].phase # "unused"
  <2>1. Known(stream[p].run) /\ stream'[p].run = stream[p].run
    BY DEF KnownLogs, StreamsKept
  <2>2. \A x : Known(x) => Known(x)'
    BY KnownStays DEF LogsKept
  <2> QED
    BY <2>1, <2>2 DEF Known, Has
<1>4. \A x \in DOMAIN runs' : \A i \in 1 .. Len(runs'[x].events) :
        runs'[x].events[i].event = "run.started" => runs'[x].events[i].cursor = 1
  BY <1>1 DEF KnownLogs
<1> QED
  BY <1>2, <1>3, <1>4 DEF KnownLogs

LEMMA KnownLogsMoved ==
  ASSUME KnownLogs, NEW r, OnlyLog(r),
         r \in DOMAIN runs' => /\ r \notin lost' => runs'[r].cursor > 0
                               /\ StartedFirst(runs'[r]),
         StreamsKept \/ (r \in DOMAIN runs' /\
           \A q \in PumpId : stream'[q].phase # "unused" =>
             \/ stream'[q].run = r
             \/ stream[q].phase # "unused" /\ stream'[q].run = stream[q].run)
  PROVE  KnownLogs'
<1>1. ASSUME NEW x \in DOMAIN runs', x # r
      PROVE  /\ x \in DOMAIN runs /\ runs'[x].cursor = runs[x].cursor
             /\ runs'[x].events = runs[x].events
             /\ x \notin lost' => x \notin lost
  BY <1>1 DEF OnlyLog, SameLog, LostLogs
<1>2. \A x \in DOMAIN runs' \ lost' : runs'[x].cursor > 0
  BY <1>1 DEF KnownLogs
<1>3. \A p \in PumpId : stream'[p].phase # "unused" => Known(stream[p].run)'
  <2> TAKE p \in PumpId
  <2> HAVE stream'[p].phase # "unused"
  <2>1. CASE stream'[p].run = r /\ r \in DOMAIN runs'
    BY <2>1 DEF Known, Has
  <2>2. CASE stream[p].phase # "unused" /\ stream'[p].run = stream[p].run
    <3>1. Known(stream[p].run) /\ stream'[p].run = stream[p].run
      BY <2>2 DEF KnownLogs
    <3>2. \A x : Known(x) => Known(x)'
      BY KnownStays DEF OnlyLog
    <3> QED
      BY <3>1, <3>2 DEF Known, Has
  <2> QED
    BY <2>1, <2>2 DEF StreamsKept
<1>4. \A x \in DOMAIN runs' : \A i \in 1 .. Len(runs'[x].events) :
        runs'[x].events[i].event = "run.started" => runs'[x].events[i].cursor = 1
  <2> TAKE x \in DOMAIN runs'
  <2>1. CASE x = r
    BY <2>1 DEF StartedFirst
  <2>2. CASE x # r
    BY <1>1, <2>2 DEF KnownLogs
  <2> QED
    BY <2>1, <2>2
<1> QED
  BY <1>2, <1>3, <1>4 DEF KnownLogs

LEMMA KnownLogsGrown ==
  ASSUME StoreInv, KnownLogs, NEW r, OnlyLog(r), NEW e \in LogEvents \ {"run.started"},
         Extends(r, e), StreamsKept
  PROVE  KnownLogs'
<1>1. Base(r) \in RunState /\ GapFree(Base(r))
  BY BaseIsALog
<1>2. StartedFirst(Base(r))
  BY FreshStartedFirst DEF KnownLogs, StartedFirst, Base, Has
<1>3. Logged(Base(r), e).cursor > 0
  BY <1>1, LoggedIsGapFree
<1>4. StartedFirst(Logged(Base(r), e))
  BY <1>1, <1>2, LoggedStartedFirst
<1> QED
  BY <1>3, <1>4, KnownLogsMoved DEF Extends

LEMMA StartKeepsKnown ==
  ASSUME Inductive, KnownLogs, NEW r \in RunId, Start(r)
  PROVE  KnownLogs'
<1>1. /\ OnlyLog(r)
      /\ r \in DOMAIN runs'
      /\ \/ runs'[r] = Logged(FreshRun, "run.started")
         \/ runs'[r] = Logged(Logged(FreshRun, "run.started"), "run.failed")
  BY StartMoves
<1>2. FreshRun \in RunState /\ GapFree(FreshRun) /\ FreshRun.cursor = 0
  BY FreshIsALog DEF FreshRun
<1>3. {"run.started", "run.failed"} \subseteq LogEvents
  BY DEF LogEvents, TerminalEvents
<1> DEFINE one == Logged(FreshRun, "run.started")
           two == Logged(one, "run.failed")
<1>4. one \in RunState /\ GapFree(one) /\ one.cursor > 0 /\ StartedFirst(one)
  BY <1>2, <1>3, LoggedIsGapFree, FreshStartedFirst, LoggedStartedFirst
<1> HIDE DEF one
<1>5. two.cursor > 0 /\ StartedFirst(two)
  BY <1>3, <1>4, LoggedIsGapFree, LoggedStartedFirst
<1>6. runs'[r].cursor > 0 /\ StartedFirst(runs'[r])
  BY <1>1, <1>4, <1>5 DEF one
<1>7. \A q \in PumpId : stream'[q].phase # "unused" =>
        \/ stream'[q].run = r
        \/ stream[q].phase # "unused" /\ stream'[q].run = stream[q].run
  BY DEF Start, Launch, Inductive, TypeOK
<1> QED
  BY <1>1, <1>6, <1>7, KnownLogsMoved

LEMMA PumpKeepsKnown ==
  ASSUME Inductive, KnownLogs, NEW p \in PumpId, PumpStep(p)
  PROVE  KnownLogs'
<1>1. StreamsKept
  <2>1. /\ stream \in [PumpId -> StreamState] /\ stream[p].phase = "streaming"
        /\ \/ stream' = [stream EXCEPT ![p].frames = @ + 1]
           \/ stream' = [stream EXCEPT ![p].phase = "finished"]
    BY DEF PumpStep, Frame, StreamEnd, StreamError, Finally, Streaming, Inductive, TypeOK
  <2> QED
    BY <2>1 DEF StreamsKept, StreamState
<1> QED
  BY <1>1, PumpMoves, StoreOfInductive, KnownLogsKept, KnownLogsGrown

LEMMA CancelKeepsKnown ==
  ASSUME Inductive, KnownLogs, NEW r \in RunId, Abort(r) \/ Reap(r)
  PROVE  KnownLogs'
<1>1. StreamsKept
  <2>1. stream \in [PumpId -> StreamState] /\ pumps[r].pump \in PumpId
    BY DEF Abort, Reap, Stale, IsActive, Inductive, TypeOK
  <2>2. stream' = [stream EXCEPT ![pumps[r].pump].aborted = TRUE]
    BY DEF Abort, Reap, Cancel
  <2> QED
    BY <2>1, <2>2 DEF StreamsKept, StreamState
<1> QED
  BY <1>1, CancelMoves, StoreOfInductive, KnownLogsKept, KnownLogsGrown

\* A registered pump was launched for its run.
LEMMA ActiveIsKnown ==
  ASSUME Inductive, KnownLogs, NEW r, IsActive(r)
  PROVE  Known(r)
BY DEF Inductive, TypeOK, EntryPointsAtLivePump, Drains, Streaming, KnownLogs, IsActive

LEMMA RebeginKeepsKnown ==
  ASSUME Inductive, KnownLogs, NEW r \in RunId, Rebegin(r)
  PROVE  KnownLogs' /\ r \in lost /\ r \in lost'
<1>1. ~Has(r) /\ OnlyLog(r) /\ r \in DOMAIN runs' /\ runs'[r] = FreshRun
  BY RebeginMoves
<1>2. r \in lost
  BY <1>1, ActiveIsKnown DEF Rebegin, Known
<1>3. r \in lost'
  BY <1>1, <1>2 DEF OnlyLog, LostLogs
<1>4. StreamsKept
  BY DEF Rebegin, StreamsKept
<1> QED
  BY <1>1, <1>2, <1>3, <1>4, FreshStartedFirst, KnownLogsMoved

LEMMA CrashKeepsKnown ==
  ASSUME Inductive, KnownLogs, Crash
  PROVE  KnownLogs' /\ LogsKept /\ DOMAIN runs' = {}
<1>1. LogsKept /\ DOMAIN runs' = {}
  BY DEF Crash, StoreStep, NoRuns, LogsKept, LostLogs, SameLog
<1>2. StreamsKept
  BY DEF Crash, StreamsKept, Inductive, TypeOK, StreamState, Streaming
<1> QED
  BY <1>1, <1>2, KnownLogsKept

LEMMA ManagerKeepsKnown ==
  ASSUME Inductive, KnownLogs, [ManagerNext]_managerVars
  PROVE  KnownLogs'
<1>1. CASE UNCHANGED managerVars
  BY <1>1 DEF managerVars, KnownLogs, Known, Has
<1>2. ASSUME NEW r \in RunId, Start(r)
      PROVE  KnownLogs'
  BY <1>2, StartKeepsKnown
<1>3. ASSUME NEW r \in RunId, Abort(r) \/ Reap(r)
      PROVE  KnownLogs'
  BY <1>3, CancelKeepsKnown
<1>4. ASSUME NEW r \in RunId, ClearApproval(r)
      PROVE  KnownLogs'
  BY <1>4 DEF ClearApproval, KnownLogs, Known, Has
<1>5. ASSUME NEW r \in RunId, Rebegin(r)
      PROVE  KnownLogs'
  BY <1>5, RebeginKeepsKnown
<1>6. ASSUME NEW p \in PumpId, PumpStep(p)
      PROVE  KnownLogs'
  BY <1>6, PumpKeepsKnown
<1>7. CASE StoreTimer \/ Tick
  <2>1. StreamsKept
    BY <1>7 DEF StoreTimer, Tick, StreamsKept
  <2> QED
    BY <1>7, <2>1, TimeMoves, KnownLogsKept DEF Inductive, TypeOK
<1>8. CASE Crash
  BY <1>8, CrashKeepsKnown
<1> QED
  BY <1>1, <1>2, <1>3, <1>4, <1>5, <1>6, <1>7, <1>8 DEF ManagerNext

-----------------------------------------------------------------------------
(***************************************************************************)
(* The connections.                                                        *)
(***************************************************************************)
LEMMA NoTailsRetained == Retained(<< >>) = << >>
BY EmptySeq DEF Retained

LEMMA NoTailsAfter ==
  ASSUME NEW s, NEW r, tails[s] = << >>
  PROVE  TailsAfter(s, r) = << >>
<1>1. << >> \in Seq(TailState)
  BY EmptySeq
<1>2. Subsequence(tails[s], DOMAIN tails[s] \ LiveTails(s, r)) = << >>
  <2> DEFINE I == DOMAIN tails[s] \ LiveTails(s, r)
  <2>1. DOMAIN tails[s] = {} /\ I \in SUBSET DOMAIN tails[s]
    OBVIOUS
  <2>2. I = {}
    BY <2>1
  <2> HIDE DEF I
  <2>3. Len(Subsequence(tails[s], I)) = 0 /\ Subsequence(tails[s], I) \in Seq(TailState)
    <3>1. tails[s] \in Seq(TailState) /\ I \in SUBSET DOMAIN tails[s]
      BY <1>1, <2>2
    <3>2. /\ Len(Subsequence(tails[s], I)) = Cardinality(I)
          /\ Subsequence(tails[s], I) \in Seq(TailState)
      BY <3>1, SubsequenceOf
    <3> QED
      BY <2>2, <3>2, FS_EmptySet
  <2>4. Subsequence(tails[s], I) = << >>
    BY <2>3, EmptySeq
  <2> QED
    BY <2>4 DEF I
<1> QED
  BY <1>2, NoTailsRetained DEF TailsAfter

\* What a handler of the server may do to connections, calls and the wire.
HandlerStep ==
  /\ link' = link
  /\ \A s \in Socket : link[s] = "unused" /\ tails[s] = << >> => tails'[s] = << >>
  /\ \A c \in calls' : c \in calls \/ IsOpen(c.socket)
  /\ ~Online => down' = down

LEMMA NotifyIsHandler ==
  ASSUME NEW r, NEW t, NEW early, Notify(r, t, early), link' = link,
         \A c \in calls' : c \in calls \/ IsOpen(c.socket)
  PROVE  HandlerStep
BY NoTailsAfter DEF Notify, HandlerStep, Online

LEMMA AttachIsHandler ==
  ASSUME NEW s \in Socket, NEW r, NEW k, Attach(s, r, k), link' = link, link[s] # "unused",
         \A c \in calls' : c \in calls \/ IsOpen(c.socket)
  PROVE  HandlerStep
<1>1. \A x \in Socket : x # s => tails'[x] = Retained(tails[x])
  BY DEF Attach
<1>2. ~Online => down' = down
  BY DEF Attach, Emit, Online
<1> QED
  BY <1>1, <1>2, NoTailsRetained DEF HandlerStep

LEMMA EmitIsHandler ==
  ASSUME NEW s \in Socket, NEW frames, Emit(s, frames), link' = link, tails' = tails,
         \A c \in calls' : c \in calls \/ IsOpen(c.socket)
  PROVE  HandlerStep
BY DEF Emit, HandlerStep, Online

LEMMA DeliverIsHandler ==
  ASSUME NEW s \in Socket, NEW r \in RunId, NEW k, IsOpen(s),
         \/ RunCommand(s, r)
         \/ ResumeCommand(s, r, k)
         \/ AbortCommand(s, r)
         \/ RespondCommand(s, r, k)
  PROVE  HandlerStep
<1>0. link[s] # "unused"
  BY DEF IsOpen
<1>1. CASE RunCommand(s, r) \/ RespondCommand(s, r, k)
  BY <1>1 DEF RunCommand, RespondCommand, HandlerStep
<1>2. CASE ResumeCommand(s, r, k)
  <2>1. CASE Emit(s, Transient(Rejection.resume, "none")) /\ UNCHANGED <<link, tails, calls>>
    BY <2>1, EmitIsHandler
  <2>2. CASE Attach(s, r, k) /\ UNCHANGED <<link, calls>>
    BY <1>0, <2>2, AttachIsHandler
  <2> QED
    BY <1>2, <2>1, <2>2 DEF ResumeCommand
<1>3. CASE AbortCommand(s, r)
  <2>1. \A c \in calls' : c \in calls \/ IsOpen(c.socket)
    BY <1>3 DEF AbortCommand
  <2>2. Notify(r, s, Transient("run.stopping", r)) /\ link' = link
    BY <1>3 DEF AbortCommand
  <2> QED
    BY <2>1, <2>2, NotifyIsHandler
<1> QED
  BY <1>1, <1>2, <1>3

LEMMA AnswerIsHandler ==
  ASSUME WireInv, Connections, GatewayAnswers
  PROVE  HandlerStep /\ up' = up
<1>1. PICK c \in calls :
        RespondAccepted(c) \/ RunAccepted(c) \/ AbortAccepted(c) \/ Rejected(c)
  BY DEF GatewayAnswers
<1>2. c.socket \in Socket /\ link[c.socket] # "unused"
  BY DEF WireInv, Call, Connections
<1>3. CASE RespondAccepted(c)
  <2>1. Notify(c.run, c.socket, << >>) /\ link' = link /\ calls' = calls \ {c}
    BY <1>3 DEF RespondAccepted
  <2> QED
    BY <2>1, NotifyIsHandler DEF GatewayAnswers
<1>4. CASE RunAccepted(c)
  <2>1. Attach(c.socket, c.run, 0) /\ link' = link /\ calls' = calls \ {c}
    BY <1>4 DEF RunAccepted
  <2> QED
    BY <1>2, <2>1, AttachIsHandler DEF GatewayAnswers
<1>5. CASE AbortAccepted(c)
  BY <1>5 DEF AbortAccepted, HandlerStep, GatewayAnswers
<1>6. CASE Rejected(c)
  BY <1>2, <1>6, EmitIsHandler DEF Rejected, GatewayAnswers
<1> QED
  BY <1>1, <1>3, <1>4, <1>5, <1>6

LEMMA HandlerKeepsConnections ==
  ASSUME up \in Seq(Command), Connections, HandlerStep, up' = up \/ (up # << >> /\ up' = Tail(up))
  PROVE  Connections'
<1>1. /\ link' = link
      /\ Online' <=> Online
      /\ \A s \in Socket : IsOpen(s)' <=> IsOpen(s)
  BY DEF HandlerStep, Online, IsOpen
<1>2. \A s, t \in Socket : IsOpen(s)' /\ IsOpen(t)' => s = t
  BY <1>1 DEF Connections
<1>3. \A s \in Socket : link'[s] = "unused" => tails'[s] = << >>
  BY <1>1 DEF Connections, HandlerStep
<1>4. \A c \in calls' : link'[c.socket] # "unused"
  BY <1>1 DEF Connections, HandlerStep, IsOpen
<1>5. CASE up' = up
  BY <1>1, <1>2, <1>3, <1>4, <1>5 DEF Connections, HandlerStep, IsResume
<1>6. CASE up # << >> /\ up' = Tail(up)
  <2>1. /\ Len(up) \in Nat \ {0}
        /\ Len(Tail(up)) = Len(up) - 1
        /\ \A i \in 1 .. Len(Tail(up)) : Tail(up)[i] = up[i + 1]
    BY <1>6, HeadTailProperties, EmptySeq, LenProperties
  <2>0. \A i \in 1 .. Len(up') : i \in Int /\ i + 1 \in 1 .. Len(up) /\ up'[i] = up[i + 1]
    <3> DEFINE rest == Tail(up)
    <3>1. up' = rest /\ Len(rest) = Len(up) - 1 /\ \A i \in 1 .. Len(rest) : rest[i] = up[i + 1]
      BY <1>6, <2>1
    <3> HIDE DEF rest
    <3>2. \A i \in 1 .. Len(rest) : i \in Int /\ i + 1 \in 1 .. Len(up)
      BY <2>1, <3>1
    <3> QED
      BY <3>1, <3>2
  <2>2. \A i \in 1 .. Len(up') : i + 1 \in 1 .. Len(up) /\ (IsResume(i)' <=> IsResume(i + 1))
    BY <2>0 DEF IsResume
  <2>3. ~Online => \A i \in 1 .. Len(up') : ~IsResume(i)'
    BY <2>2 DEF Connections
  <2>4. \A i, j \in 1 .. Len(up') : IsResume(i)' /\ IsResume(j)' => i = j
    <3> TAKE i, j \in 1 .. Len(up')
    <3> HAVE IsResume(i)' /\ IsResume(j)'
    <3>1. i + 1 = j + 1
      BY <2>2 DEF Connections
    <3> QED
      BY <2>0, <3>1
  <2> QED
    BY <1>1, <1>2, <1>3, <1>4, <2>3, <2>4 DEF Connections, HandlerStep, IsResume
<1> QED
  BY <1>5, <1>6

(* A command of the tab is behind the others on the way up.                *)
LEMMA AppendedCommand ==
  ASSUME up \in Seq(Command), NEW c \in Command, up' = Append(up, c)
  PROVE  /\ Len(up) \in Nat /\ Len(up') = Len(up) + 1
         /\ \A i \in 1 .. Len(up) : i \in 1 .. Len(up') /\ up'[i] = up[i]
         /\ up'[Len(up) + 1] = c
         /\ \A i \in 1 .. Len(up') : i \in 1 .. Len(up) \/ i = Len(up) + 1
<1>1. Len(up) \in Nat
  BY LenProperties
<1> QED
  BY <1>1, AppendProperties

LEMMA UserResumesNothing ==
  ASSUME TypeInv, (\E r \in RunId : Send(r)) \/ Stop \/ Respond \/ NewChat
  PROVE  /\ UNCHANGED wireVars
         /\ \A i \in 1 .. Len(up') : IsResume(i)' => i \in 1 .. Len(up) /\ up'[i] = up[i]
<1>0. tab \in NamedTab /\ up \in Seq(Command)
  BY DEF TypeInv
<1>1. ASSUME NEW do \in {"run", "abort", "respond"}, NEW r \in RunId, NEW k \in Nat, Emits(do, r, k)
      PROVE  \A i \in 1 .. Len(up') : IsResume(i)' => i \in 1 .. Len(up) /\ up'[i] = up[i]
  <2> DEFINE c == [do |-> do, run |-> r, cursor |-> k]
  <2>1. c \in Command /\ c.do # "resume"
    BY DEF Command
  <2>2. up' = Append(up, c)
    BY <1>1 DEF Emits
  <2> HIDE DEF c
  <2> QED
    BY <1>0, <2>1, <2>2, AppendedCommand DEF IsResume
<1>2. CASE \E r \in RunId : Send(r)
  <2>1. PICK r \in RunId : Send(r)
    BY <1>2
  <2>2. Emits("run", r, 0) /\ UNCHANGED wireVars
    BY <2>1 DEF Send
  <2> QED
    BY <1>1, <2>2
<1>3. CASE Stop
  <2>1. tab.run \in RunId /\ Emits("abort", tab.run, 0) /\ UNCHANGED wireVars
    BY <1>0, <1>3 DEF Stop, NamedTab, TabState
  <2> QED
    BY <1>1, <2>1
<1>4. CASE Respond
  <2>1. /\ tab.card.run \in RunId /\ tab.card.gate \in Nat
        /\ Emits("respond", tab.card.run, tab.card.gate) /\ UNCHANGED wireVars
    BY <1>0, <1>4 DEF Respond, NamedTab, NamedCard
  <2> QED
    BY <1>1, <2>1
<1>5. CASE NewChat
  BY <1>5 DEF NewChat, IsResume
<1> QED
  BY <1>2, <1>3, <1>4, <1>5

LEMMA UserKeepsConnections ==
  ASSUME TypeInv, Connections, (\E r \in RunId : Send(r)) \/ Stop \/ Respond \/ NewChat
  PROVE  Connections'
<1>1. /\ UNCHANGED wireVars
      /\ \A i \in 1 .. Len(up') : IsResume(i)' => i \in 1 .. Len(up) /\ up'[i] = up[i]
  BY UserResumesNothing
<1>2. \A i \in 1 .. Len(up') : IsResume(i)' => i \in 1 .. Len(up) /\ IsResume(i)
  BY <1>1 DEF IsResume
<1>3. UNCHANGED <<link, tails, calls, down>>
  BY <1>1 DEF wireVars
<1> QED
  BY <1>2, <1>3 DEF Connections, Online, IsOpen

LEMMA LinkKeepsConnections ==
  ASSUME TypeInv, Connections, Lose \/ Reload
  PROVE  Connections'
<1>0. link \in [Socket -> {"unused", "open", "gone", "closed"}] /\ Len(<< >>) = 0
  BY EmptySeq DEF TypeInv
<1>1. /\ up' = << >>
      /\ UNCHANGED <<tails, calls>>
      /\ \/ down' = << >> /\ \E s \in Socket : IsOpen(s) /\ link' = [link EXCEPT ![s] = "gone"]
         \/ ~Online /\ UNCHANGED <<link, down>>
  BY DEF Lose, Reload, LinkLost, wireVars
<1>2. /\ \A i \in 1 .. Len(up') : FALSE
      /\ down' = << >>
  BY <1>0, <1>1 DEF Connections
<1>3. \A s \in Socket : /\ link'[s] = "unused" <=> link[s] = "unused"
                        /\ link'[s] = "open" => link[s] = "open"
  BY <1>0, <1>1 DEF IsOpen
<1>4. \A c \in calls : c.socket \in Socket
  BY DEF TypeInv, Call
<1> QED
  BY <1>1, <1>2, <1>3, <1>4 DEF Connections, Online, IsOpen

\* Nobody was connected; what waits is sent, and then the resume.
LEMMA ConnectUnfolded ==
  ASSUME TypeInv, Connections, Connect
  PROVE  /\ ~Online /\ Online' /\ down' = << >> /\ down = << >>
         /\ UNCHANGED <<tab, tails, calls>> /\ UNCHANGED managerVars
         /\ \E s \in Socket : /\ link[s] = "unused" /\ tails[s] = << >>
                              /\ link' = [link EXCEPT ![s] = "open"]
         /\ \A i \in 1 .. Len(up') : IsResume(i)' =>
              /\ i = Len(up) + 1
              /\ tab.run \in RunId
              /\ up'[i].run = tab.run /\ up'[i].cursor = tab.cursor
<1>0. /\ tab \in NamedTab /\ up \in Seq(Command)
      /\ link \in [Socket -> {"unused", "open", "gone", "closed"}]
  BY DEF TypeInv
<1>1. PICK s \in Socket : Connected(s)
  BY DEF Connect, MayReconnect
<1>2. /\ link[s] = "unused" /\ ~Online
      /\ link' = [link EXCEPT ![s] = "open"]
      /\ UNCHANGED <<tab, tails, calls, down>> /\ UNCHANGED managerVars
  BY <1>1 DEF Connected, Online, Connect
<1>3. /\ down = << >> /\ tails[s] = << >>
      /\ \A i \in 1 .. Len(up) : ~IsResume(i)
      /\ Online'
  BY <1>0, <1>2 DEF Connections, Online, IsOpen
<1>4. ASSUME NEW i \in 1 .. Len(up'), IsResume(i)'
      PROVE  /\ i = Len(up) + 1
             /\ tab.run \in RunId
             /\ up'[i].run = tab.run /\ up'[i].cursor = tab.cursor
  <2> DEFINE c == [do |-> "resume", run |-> tab.run, cursor |-> tab.cursor]
  <2>1. CASE tab.run # None /\ ~tab.done
    <3>1. up' = Append(up, c)
      BY <2>1 DEF Connect, Resumption
    <3>2. tab.run \in RunId /\ c \in Command /\ c.run = tab.run /\ c.cursor = tab.cursor
      BY <1>0, <2>1 DEF NamedTab, TabState, Command
    <3> HIDE DEF c
    <3>3. i \in 1 .. Len(up) => up'[i] = up[i]
      BY <1>0, <3>1, <3>2, AppendedCommand
    <3>4. i = Len(up) + 1
      BY <1>0, <1>3, <1>4, <3>1, <3>2, <3>3, AppendedCommand DEF IsResume
    <3> QED
      BY <1>0, <3>1, <3>2, <3>4, AppendedCommand
  <2>2. CASE ~(tab.run # None /\ ~tab.done)
    BY <1>3, <1>4, <2>2 DEF Connect, Resumption, IsResume
  <2> QED
    BY <2>1, <2>2
<1> QED
  BY <1>2, <1>3, <1>4

LEMMA ConnectKeepsConnections ==
  ASSUME TypeInv, Connections, Connect
  PROVE  Connections'
<1>1. /\ ~Online /\ Online' /\ UNCHANGED <<tails, calls>>
      /\ \E s \in Socket : /\ link[s] = "unused" /\ tails[s] = << >>
                           /\ link' = [link EXCEPT ![s] = "open"]
      /\ \A i \in 1 .. Len(up') : IsResume(i)' => i = Len(up) + 1
  BY ConnectUnfolded
<1>2. PICK s \in Socket : link' = [link EXCEPT ![s] = "open"]
  BY <1>1
<1>3. \A x \in Socket : link'[x] = IF x = s THEN "open" ELSE link[x]
  BY <1>2 DEF TypeInv
<1>4. \A c \in calls : c.socket \in Socket
  BY DEF TypeInv, Call
<1> QED
  BY <1>1, <1>3, <1>4 DEF Connections, Online, IsOpen

LEMMA StepKeepsConnections ==
  ASSUME TypeInv, Connections, [SystemNext]_vars
  PROVE  Connections'
<1>0. WireInv /\ up \in Seq(Command)
  BY DEF TypeInv, WireInv
<1>1. CASE UNCHANGED vars
  BY <1>1 DEF vars, wireVars, tabVars, Connections, Online, IsOpen, IsResume
<1>2. CASE (\E r \in RunId : Send(r)) \/ Stop \/ Respond \/ NewChat
  BY <1>2, UserKeepsConnections
<1>3. CASE Lose \/ Reload
  BY <1>3, LinkKeepsConnections
<1>4. CASE Connect
  BY <1>4, ConnectKeepsConnections
<1>5. CASE Receive
  <2>1. UNCHANGED <<link, tails, calls, up>> /\ Online
    BY <1>5 DEF Receive, Connections
  <2> QED
    BY <2>1 DEF Connections, Online, IsOpen, IsResume
<1>6. CASE Deliver
  <2>1. PICK s \in Socket, r \in RunId :
          /\ IsOpen(s)
          /\ \/ RunCommand(s, r)
             \/ ResumeCommand(s, r, Head(up).cursor)
             \/ AbortCommand(s, r)
             \/ RespondCommand(s, r, Head(up).cursor)
    BY <1>6 DEF Deliver
  <2>2. HandlerStep
    BY <2>1, DeliverIsHandler
  <2> QED
    BY <1>0, <1>6, <2>2, HandlerKeepsConnections DEF Deliver
<1>7. CASE GatewayAnswers
  BY <1>0, <1>7, AnswerIsHandler, HandlerKeepsConnections
<1>8. CASE Background
  <2>1. up' = up
    BY <1>8 DEF Background, tabVars
  <2>2. CASE \E s \in Socket : Disconnect(s)
    <3>1. PICK s \in Socket : Disconnect(s)
      BY <2>2
    <3>2. /\ link[s] = "gone" /\ link' = [link EXCEPT ![s] = "closed"]
          /\ tails' = [tails EXCEPT ![s] = << >>] /\ UNCHANGED <<calls, down>>
      BY <3>1 DEF Disconnect
    <3>3. \A x \in Socket : /\ link'[x] = IF x = s THEN "closed" ELSE link[x]
                            /\ tails'[x] = IF x = s THEN << >> ELSE tails[x]
      BY <3>2 DEF TypeInv
    <3>4. \A c \in calls : c.socket \in Socket
      BY DEF TypeInv, Call
    <3> QED
      BY <2>1, <3>2, <3>3, <3>4 DEF Connections, Online, IsOpen, IsResume
  <2>3. CASE \E p \in PumpId : Pumped(p)
    <3>1. HandlerStep
      BY <2>3, NotifyIsHandler DEF Pumped
    <3> QED
      BY <1>0, <2>1, <3>1, HandlerKeepsConnections
  <2>4. CASE \E r \in RunId : Reaped(r)
    <3>1. HandlerStep
      BY <2>4, NotifyIsHandler DEF Reaped
    <3> QED
      BY <1>0, <2>1, <3>1, HandlerKeepsConnections
  <2>5. CASE TimePasses
    <3>1. HandlerStep
      BY <2>5, NoTailsRetained DEF TimePasses, HandlerStep
    <3> QED
      BY <1>0, <2>1, <3>1, HandlerKeepsConnections
  <2> QED
    BY <1>8, <2>2, <2>3, <2>4, <2>5 DEF Background
<1>9. CASE ServerDies
  <2>1. /\ \A s \in Socket : link'[s] # "open" /\ tails'[s] = << >>
        /\ calls' = {} /\ down' = << >>
        /\ up' = IF Online THEN << >> ELSE up
    BY <1>9 DEF ServerDies, ServerCrash, TypeInv
  <2>2. Len(<< >>) = 0
    BY EmptySeq
  <2>3. \A i \in 1 .. Len(up') : ~IsResume(i)'
    BY <2>1, <2>2 DEF Connections, IsResume
  <2> QED
    BY <2>1, <2>3 DEF Connections, IsOpen
<1> QED
  BY <1>1, <1>2, <1>3, <1>4, <1>5, <1>6, <1>7, <1>8, <1>9 DEF SystemNext

-----------------------------------------------------------------------------
(***************************************************************************)
(* What the followers of a run hear.                                       *)
(***************************************************************************)
\* Sound frames, the logged ones of which are of runs in K.
SoundIn(d, K) ==
  \A i \in 1 .. Len(d) : SoundFrame(d[i]) /\ (d[i].cursor > 0 => d[i].run \in K)

KnownRuns == DOMAIN runs \cup lost

LEMMA SoundFramesIn == SoundFrames <=> SoundIn(down, KnownRuns)
BY DEF SoundFrames, SoundIn, KnownRuns, Known, Has

LEMMA SoundFramesInNext == SoundFrames' <=> SoundIn(down', KnownRuns')
BY DEF SoundFrames, SoundIn, KnownRuns, Known, Has

LEMMA SoundInJoined ==
  ASSUME NEW d \in Seq(NamedFrame), NEW e \in Seq(NamedFrame), NEW K, SoundIn(d, K), SoundIn(e, K)
  PROVE  SoundIn(d \o e, K)
<1> SUFFICES ASSUME NEW i \in 1 .. Len(d \o e)
             PROVE  /\ SoundFrame((d \o e)[i])
                    /\ (d \o e)[i].cursor > 0 => (d \o e)[i].run \in K
  BY DEF SoundIn
<1>1. \/ i \in 1 .. Len(d) /\ (d \o e)[i] = d[i]
      \/ i - Len(d) \in 1 .. Len(e) /\ (d \o e)[i] = e[i - Len(d)]
  BY JoinedFrames
<1> QED
  BY <1>1 DEF SoundIn

\* Frames that are in no log.
Transients(e) == \A i \in 1 .. Len(e) : e[i].cursor = 0 /\ e[i].event # "run.started"

LEMMA TransientsLack ==
  ASSUME NEW e, Transients(e)
  PROVE  (\A x : Lacks(e, x)) /\ (\A K : SoundIn(e, K))
BY DEF Transients, Lacks, Holds, SoundIn, SoundFrame

LEMMA TransientsAre ==
  /\ \A r \in RunId : Transients(Transient("run.stopping", r)) /\ Transients(Announcements(r))
  /\ Transients(<< >>)
  /\ \A c \in DOMAIN Rejection : Transients(Transient(Rejection[c], "none"))
<1>1. \A e, r : e # "run.started" => Transients(Transient(e, r))
  BY DEF Transients, Transient
<1>2. Transients(<< >>)
  BY EmptySeq DEF Transients
<1>3. \A c \in DOMAIN Rejection : Rejection[c] # "run.started"
  BY RejectionsAreFour DEF Rejections
<1> QED
  BY <1>1, <1>2, <1>3 DEF Announcements

LEMMA AfterPicks ==
  ASSUME NEW events \in Seq(Event), NEW k
  PROVE  /\ After(events, k) \in Seq(Event)
         /\ \A i \in 1 .. Len(After(events, k)) :
              \E j \in 1 .. Len(events) : After(events, k)[i] = events[j]
<1> DEFINE I == {i \in DOMAIN events : events[i].cursor > k}
<1>1. I \in SUBSET DOMAIN events /\ DOMAIN events = 1 .. Len(events)
  BY LenProperties
<1>2. After(events, k) = Subsequence(events, I)
  BY DEF After
<1> HIDE DEF I
<1>3. /\ Subsequence(events, I) \in Seq(Event)
      /\ \A i \in 1 .. Len(Subsequence(events, I)) : \E j \in I : Subsequence(events, I)[i] = events[j]
  BY <1>1, SubsequenceOf
<1> QED
  BY <1>1, <1>2, <1>3

(* Whatever is heard is news of r, and nothing when there is no news.      *)
LEMMA HeardIsNews ==
  ASSUME StoreInv, StoreTypeOK', NEW r \in RunId, NEW s,
         Appends(r, LogEvents \ {"run.started"})
  PROVE  /\ Heard(s, r) \in Seq(NamedFrame)
         /\ \A i \in 1 .. Len(Heard(s, r)) : Heard(s, r)[i].run = r /\ SoundFrame(Heard(s, r)[i])
         /\ LogsKept => Heard(s, r) = << >>
<1>1. News(r) \in Seq(Event)
  BY NewsIsTyped
<1>2. \A i \in 1 .. Len(News(r)) : /\ News(r)[i].event \in LogEvents
                                   /\ News(r)[i].event # "run.started"
  <2>1. CASE LogsKept
    <3>1. News(r) = << >>
      BY <2>1, NoNews DEF LogsKept
    <3> QED
      BY <3>1, EmptySeq
  <2>2. CASE \E e \in LogEvents \ {"run.started"} : Extends(r, e)
    <3>1. PICK e \in LogEvents \ {"run.started"} : Extends(r, e)
      BY <2>2
    <3>2. News(r) = <<[cursor |-> Base(r).cursor + 1, event |-> e]>>
      BY <3>1, NewsOfAppend
    <3> QED
      BY <3>2
  <2> QED
    BY <2>1, <2>2 DEF Appends
<1>3. ASSUME NEW k
      PROVE  /\ Forwarded(r, After(News(r), k)) \in Seq(NamedFrame)
             /\ \A i \in 1 .. Len(Forwarded(r, After(News(r), k))) :
                  /\ Forwarded(r, After(News(r), k))[i].run = r
                  /\ SoundFrame(Forwarded(r, After(News(r), k))[i])
  <2> DEFINE events == After(News(r), k)
  <2>1. /\ events \in Seq(Event)
        /\ \A i \in 1 .. Len(events) : \E j \in 1 .. Len(News(r)) : events[i] = News(r)[j]
    BY <1>1, AfterPicks
  <2> HIDE DEF events
  <2>2. /\ Forwarded(r, events) \in Seq(NamedFrame)
        /\ Len(Forwarded(r, events)) = Len(events)
        /\ \A i \in 1 .. Len(events) :
             /\ Forwarded(r, events)[i].run = r
             /\ Forwarded(r, events)[i].cursor = events[i].cursor
             /\ Forwarded(r, events)[i].event = events[i].event
    BY <2>1, ForwardedIsNamed
  <2>3. \A i \in 1 .. Len(events) : SoundFrame(Forwarded(r, events)[i])
    BY <1>2, <2>1, <2>2 DEF SoundFrame
  <2> QED
    BY <2>2, <2>3 DEF events
<1>4. << >> \in Seq(NamedFrame) /\ Len(<< >>) = 0
  BY EmptySeq
<1>5. CASE Follows(s, r)
  <2>1. PICK k : Heard(s, r) = Forwarded(r, After(News(r), k))
    BY <1>5 DEF Heard
  <2>2. ASSUME LogsKept PROVE Heard(s, r) = << >>
    <3>1. News(r) = << >>
      BY <2>2, NoNews DEF LogsKept
    <3>2. /\ After(News(r), k) \in Seq(Event)
          /\ \A i \in 1 .. Len(After(News(r), k)) : \E j \in 1 .. Len(News(r)) : TRUE
      BY <1>1, AfterPicks
    <3>3. Len(After(News(r), k)) = 0
      <4>1. Len(After(News(r), k)) \in Nat /\ Len(News(r)) = 0
        BY <3>1, <3>2, LenProperties, EmptySeq
      <4>2. ASSUME Len(After(News(r), k)) # 0 PROVE FALSE
        <5>1. 1 \in 1 .. Len(After(News(r), k))
          BY <4>1, <4>2
        <5> QED
          BY <3>2, <4>1, <5>1
      <4> QED
        BY <4>2
    <3>4. Len(Forwarded(r, After(News(r), k))) = 0
      BY <3>2, <3>3, ForwardedIsNamed
    <3> QED
      BY <1>3, <2>1, <3>4, EmptySeq
  <2> QED
    BY <1>3, <2>1, <2>2
<1>6. CASE ~Follows(s, r)
  <2>1. Heard(s, r) = << >>
    BY <1>6 DEF Heard
  <2> QED
    BY <1>4, <2>1
<1> QED
  BY <1>5, <1>6

LEMMA FollowsIs ==
  ASSUME NEW s, tails[s] \in Seq(TailState), NEW r
  PROVE  Follows(s, r) <=> \E k \in 1 .. Len(tails[s]) : tails[s][k].live /\ tails[s][k].run = r
<1>1. DOMAIN tails[s] = 1 .. Len(tails[s])
  BY LenProperties
<1> QED
  BY <1>1 DEF Follows, LiveTails

(* A follower of a whole log hears the event that is appended to it.       *)
LEMMA HeardNext ==
  ASSUME StoreInv, StoreTypeOK', LostLogs, SoundGates, NEW r \in RunId, Known(r), Whole(r)',
         NEW e \in LogEvents, Extends(r, e),
         NEW s \in Socket, tails[s] \in Seq(TailState), Follows(s, r)
  PROVE  /\ Heard(s, r) \in Seq(NamedFrame)
         /\ Len(Heard(s, r)) = 1
         /\ Heard(s, r)[1].run = r /\ Heard(s, r)[1].cursor = runs[r].cursor + 1
         /\ Heard(s, r)[1].event = e
<1> DEFINE new == [cursor |-> runs[r].cursor + 1, event |-> e]
<1>1. Whole(r) /\ runs[r].cursor \in Nat /\ News(r) = <<new>>
  BY GrownWhole
<1>2. new \in Event /\ new.cursor = runs[r].cursor + 1 /\ new.event = e
  BY <1>1 DEF Event
<1> HIDE DEF new
<1>3. PICK i \in LiveTails(s, r) : Heard(s, r) = Forwarded(r, After(News(r), tails[s][i].gate))
  BY DEF Heard, Follows
<1> DEFINE k == tails[s][i].gate
<1>4. /\ i \in 1 .. Len(tails[s]) /\ tails[s][i].live /\ tails[s][i].run = r
      /\ k \in Nat
  <2>1. i \in 1 .. Len(tails[s]) /\ tails[s][i].live /\ tails[s][i].run = r
    BY LenProperties DEF LiveTails
  <2> QED
    <3>1. tails[s][i] \in TailState
      BY <2>1, ElementOfSeq
    <3> QED
      BY <2>1, <3>1 DEF TailState
<1>5. k <= runs[r].cursor
  BY <1>1, <1>4 DEF SoundGates
<1> HIDE DEF k
<1>6. After(<<new>>, k) \in Seq(Event) /\ Len(After(<<new>>, k)) = 1 /\ After(<<new>>, k)[1] = new
  <2>1. <<new>> \in Seq(Event) /\ Len(<<new>>) = 1 /\ DOMAIN <<new>> = 1 .. 1 /\ <<new>>[1] = new
    BY <1>2
  <2>2. {j \in DOMAIN <<new>> : <<new>>[j].cursor > k} = 0 + 1 .. Len(<<new>>)
    <3>1. new.cursor > k
      BY <1>1, <1>2, <1>4, <1>5
    <3>2. \A j \in 1 .. 1 : <<new>>[j] = new
      BY <2>1
    <3> QED
      BY <2>1, <3>1, <3>2
  <2>3. /\ Subsequence(<<new>>, 0 + 1 .. Len(<<new>>)) \in Seq(Event)
        /\ Len(Subsequence(<<new>>, 0 + 1 .. Len(<<new>>))) = Len(<<new>>) - 0
        /\ \A j \in 1 .. Len(<<new>>) - 0 :
             Subsequence(<<new>>, 0 + 1 .. Len(<<new>>))[j] = <<new>>[0 + j]
    <3>1. 0 \in 0 .. Len(<<new>>)
      BY <2>1
    <3> QED
      BY <2>1, <3>1, SubsequenceSuffix
  <2>4. After(<<new>>, k) = Subsequence(<<new>>, 0 + 1 .. Len(<<new>>))
    BY <2>2 DEF After
  <2> QED
    BY <2>1, <2>3, <2>4
<1>7. /\ Forwarded(r, After(<<new>>, k)) \in Seq(NamedFrame)
      /\ Len(Forwarded(r, After(<<new>>, k))) = 1
      /\ Forwarded(r, After(<<new>>, k))[1].run = r
      /\ Forwarded(r, After(<<new>>, k))[1].cursor = new.cursor
      /\ Forwarded(r, After(<<new>>, k))[1].event = new.event
  BY <1>6, ForwardedIsNamed
<1> QED
  BY <1>1, <1>2, <1>3, <1>7 DEF k

-----------------------------------------------------------------------------
(***************************************************************************)
(* Steps of the server that leave the tab as it is.                        *)
(***************************************************************************)
\* What is in flight of x stays, and nothing is added.
Undisturbed(x) ==
  /\ \A a, b \in Nat : Carries(down, x, a, b) => Carries(down', x, a, b)
  /\ Lacks(down, x) => Lacks(down', x)

TailsKept ==
  \A s \in Socket : \A k \in 1 .. Len(tails'[s]) :
    tails'[s][k].live => tails'[s][k].run \in DOMAIN runs' /\ WasTail(tails'[s][k], s)

\* A whole log was whole before, and no longer.
GrowsOnly(x) == Whole(x)' => Whole(x) /\ runs[x].cursor <= runs'[x].cursor

LEMMA SameIsUndisturbed == down' = down => \A x : Undisturbed(x)
BY DEF Undisturbed

LEMMA JoinedIsUndisturbed ==
  ASSUME down \in Seq(NamedFrame), NEW e \in Seq(NamedFrame), down' = down \o e,
         NEW x, Lacks(e, x)
  PROVE  Undisturbed(x)
BY CarriesWithOthers, LacksJoined DEF Undisturbed

LEMMA TailsWereTailed ==
  ASSUME TailsKept, \A s \in Socket : IsOpen(s)' => IsOpen(s), NEW x, Tailed(x)'
  PROVE  Tailed(x)
BY DEF TailsKept, Tailed, IsOpen, WasTail

LEMMA GateStaysSound ==
  ASSUME TailsOfOpenLogs, SoundGates, StoreTypeOK, StoreTypeOK',
         NEW s \in Socket, tails[s] \in Seq(TailState), NEW i \in 1 .. Len(tails[s]),
         tails[s][i].live, NEW x, x = tails[s][i].run, NEW g, g = tails[s][i].gate,
         Whole(x)', Known(x) => GrowsOnly(x)
  PROVE  g <= runs'[x].cursor
<1>1. Known(x) /\ x \in DOMAIN runs
  BY DEF TailsOfOpenLogs, IsOpenLog, Known, Has
<1>2. Whole(x) /\ runs[x].cursor <= runs'[x].cursor
  BY <1>1 DEF GrowsOnly
<1>3. g <= runs[x].cursor
  BY <1>2 DEF SoundGates
<1>4. tails[s][i] \in TailState
  BY ElementOfSeq
<1>5. runs[x].cursor \in Nat /\ g \in Nat
  BY <1>1, <1>4 DEF StoreTypeOK, RunState, TailState
<1>6. x \in DOMAIN runs'
  BY DEF Whole, Has
<1>7. runs'[x].cursor \in Nat
  BY <1>6 DEF StoreTypeOK, RunState
<1> QED
  BY <1>2, <1>3, <1>5, <1>7

LEMMA GatesStaySound ==
  ASSUME TailsOfOpenLogs, TailsKept, SoundGates,
         StoreTypeOK, StoreTypeOK', tails \in [Socket -> Seq(TailState)],
         \A x : Known(x) => GrowsOnly(x)
  PROVE  SoundGates'
<1> SUFFICES ASSUME NEW s \in Socket, NEW k \in 1 .. Len(tails'[s]), tails'[s][k].live,
                    tails'[s][k].run \in DOMAIN runs', tails'[s][k].run \notin lost',
                    runs'[tails'[s][k].run].cursor <= MaxEvents
             PROVE  tails'[s][k].gate <= runs'[tails'[s][k].run].cursor
  BY DEF SoundGates, Whole, Has
<1>1. PICK i \in 1 .. Len(tails[s]) :
        tails[s][i].live /\ tails[s][i].run = tails'[s][k].run /\ tails[s][i].gate = tails'[s][k].gate
  BY DEF TailsKept, WasTail
<1>2. PICK x : x = tails[s][i].run
  OBVIOUS
<1>3. PICK g : g = tails[s][i].gate
  OBVIOUS
<1>4. Whole(x)'
  BY <1>1, <1>2 DEF Whole, Has
<1>5. g <= runs'[x].cursor
  BY <1>1, <1>2, <1>3, <1>4, GateStaysSound
<1> QED
  BY <1>1, <1>2, <1>3, <1>5

LEMMA DeliveredStays ==
  ASSUME StoreTypeOK, StoreTypeOK', tab' = tab, NEW x, Whole(x)', GrowsOnly(x), Undisturbed(x),
         Whole(x) => Delivered(x),
         Tailed(x)' => Tailed(x) /\ runs'[x].cursor = runs[x].cursor
  PROVE  Delivered(x)'
<1>1. Whole(x) /\ runs[x].cursor <= runs'[x].cursor
  BY DEF GrowsOnly
<1>2. runs[x].cursor \in Nat /\ runs'[x].cursor \in Nat
  BY <1>1 DEF Whole, Has, StoreTypeOK, RunState
<1>3. PICK b \in 0 .. runs[x].cursor : \E a \in 0 .. b :
        /\ Carries(down, x, a, b)
        /\ tab.run = x => a <= tab.cursor
        /\ Tailed(x) => b = runs[x].cursor
  BY <1>1 DEF Delivered
<1>3a. PICK a \in 0 .. b :
        /\ Carries(down, x, a, b)
        /\ tab.run = x => a <= tab.cursor
        /\ Tailed(x) => b = runs[x].cursor
  BY <1>3
<1>4. a \in Nat /\ b \in Nat /\ b \in 0 .. runs'[x].cursor
  BY <1>1, <1>2
<1>5. Carries(down', x, a, b)
  BY <1>3a, <1>4 DEF Undisturbed
<1>6. Tailed(x)' => b = runs'[x].cursor
  BY <1>3a
<1> QED
  BY <1>3a, <1>4, <1>5, <1>6 DEF Delivered

LEMMA ResumeStays ==
  ASSUME StoreTypeOK, StoreTypeOK', tab' = tab, NEW x, NEW k \in Nat, SoundResume(x, k),
         Known(x)', GrowsOnly(x), Whole(x) => Undisturbed(x), Tailed(x)' => Tailed(x)
  PROVE  SoundResume(x, k)'
<1> SUFFICES ASSUME Whole(x)'
             PROVE  /\ k <= runs'[x].cursor
                    /\ tab.run = x => k = tab.cursor
                    /\ Lacks(down', x)
                    /\ ~Tailed(x)'
  BY DEF SoundResume
<1>1. Whole(x) /\ runs[x].cursor <= runs'[x].cursor
  BY DEF GrowsOnly
<1>2. runs[x].cursor \in Nat /\ runs'[x].cursor \in Nat
  BY <1>1 DEF Whole, Has, StoreTypeOK, RunState
<1>3. k <= runs[x].cursor /\ (tab.run = x => k = tab.cursor) /\ Lacks(down, x) /\ ~Tailed(x)
  BY <1>1 DEF SoundResume
<1>4. k <= runs'[x].cursor
  BY <1>1, <1>2, <1>3
<1> QED
  BY <1>1, <1>3, <1>4 DEF Undisturbed

LEMMA TabStaysSound ==
  ASSUME StoreTypeOK, StoreTypeOK', SoundTab, tab \in NamedTab, tab' = tab,
         \A x : Known(x) => Known(x)' /\ GrowsOnly(x)
  PROVE  SoundTab'
<1>0. PICK r : r = tab.run /\ r = tab'.run
  OBVIOUS
<1>1. ASSUME r # None, Whole(r)'
      PROVE  /\ tab.cursor <= runs'[r].cursor
             /\ tab.applied = [i \in 1 .. tab.cursor |-> <<r, i>>]
  <2>1. Whole(r) /\ runs[r].cursor <= runs'[r].cursor
    BY <1>0, <1>1 DEF SoundTab, GrowsOnly
  <2>2. /\ tab.cursor <= runs[r].cursor
        /\ tab.applied = [i \in 1 .. tab.cursor |-> <<r, i>>]
    BY <1>0, <1>1, <2>1 DEF SoundTab
  <2>3. runs[r].cursor \in Nat /\ runs'[r].cursor \in Nat /\ tab.cursor \in Nat
    BY <1>1, <2>1 DEF Whole, Has, StoreTypeOK, RunState, NamedTab, TabState
  <2> QED
    BY <2>1, <2>2, <2>3
<1>2. PICK k : k = tab.saved /\ k = tab'.saved
  OBVIOUS
<1>3. (r # None => Known(r)') /\ (k # None => Known(k)')
  BY <1>0, <1>2 DEF SoundTab
<1>4. /\ tab.expecting => tab.run = None
      /\ tab.run = None => tab.cursor = 0 /\ tab.applied = << >>
  BY DEF SoundTab
<1> QED
  BY <1>0, <1>1, <1>2, <1>3, <1>4 DEF SoundTab, Whole, Known, Has

\* The part of Delivery that is about the server and the wire.
Delivering ==
  /\ SoundFrames
  /\ SoundGates
  /\ \A x \in RunId : Whole(x) => Delivered(x)

\* What a step of the server leaves of Delivery: logs that are known stay known and
\* only grow, and what a resume rests on stays.
LogsPassOn ==
  /\ Delivering'
  /\ \A x : Known(x) => Known(x)' /\ GrowsOnly(x)
  /\ \A x : \A k \in Nat : SoundResume(x, k) => SoundResume(x, k)'

LEMMA KeptGrowsOnly ==
  ASSUME StoreTypeOK, LostLogs, NEW x, SameLog(x)
  PROVE  GrowsOnly(x) /\ (Whole(x)' => runs'[x].cursor = runs[x].cursor)
<1> SUFFICES ASSUME Whole(x)'
             PROVE  Whole(x) /\ runs[x].cursor <= runs'[x].cursor
                    /\ runs'[x].cursor = runs[x].cursor
  BY DEF GrowsOnly
<1>1. Whole(x) /\ runs'[x].cursor = runs[x].cursor
  BY SameWhole
<1>2. runs[x].cursor \in Nat
  BY <1>1 DEF Whole, Has, StoreTypeOK, RunState
<1> QED
  BY <1>1, <1>2

(* Sound frames are put behind those in flight.                            *)
LEMMA JoinedAreSound ==
  ASSUME KnownLogs, LostLogs, SoundFrames, down \in Seq(NamedFrame),
         NEW e \in Seq(NamedFrame), SoundIn(e, KnownRuns'), down' = down \/ down' = down \o e
  PROVE  SoundFrames'
<1>1. \A x \in KnownRuns : x \in KnownRuns'
  BY KnownStays DEF KnownRuns, Known, Has
<1>2. SoundIn(down, KnownRuns')
  BY <1>1, SoundFramesIn DEF SoundIn
<1>3. SoundIn(down \o e, KnownRuns')
  BY <1>2, SoundInJoined
<1> QED
  BY <1>2, <1>3, SoundFramesInNext

\* A step after which every log is as it was, and nothing logged is sent.
LEMMA QuietStepDelivers ==
  ASSUME ChatInductive, ChatInductive', TailsOfOpenLogs, KnownLogs, Delivering,
         LogsKept, TailsKept, \A s \in Socket : IsOpen(s)' => IsOpen(s), tab' = tab,
         NEW e \in Seq(NamedFrame), Transients(e), down' = down \/ down' = down \o e
  PROVE  LogsPassOn
<1>0. /\ StoreTypeOK /\ StoreTypeOK' /\ tails \in [Socket -> Seq(TailState)]
      /\ down \in Seq(NamedFrame) /\ LostLogs
  BY DEF ChatInductive, TypeInv, TypeOK, LogsKept
<1>1. \A x : /\ Known(x) => Known(x)'
             /\ GrowsOnly(x)
             /\ Whole(x)' => runs'[x].cursor = runs[x].cursor
  BY <1>0, KnownStays, KeptGrowsOnly DEF LogsKept
<1>2. \A x : Undisturbed(x)
  BY <1>0, TransientsLack, SameIsUndisturbed, JoinedIsUndisturbed
<1>3. \A x : Tailed(x)' => Tailed(x)
  BY TailsWereTailed
<1>4. SoundFrames'
  BY <1>0, TransientsLack, JoinedAreSound DEF Delivering
<1>5. SoundGates'
  BY <1>0, <1>1, GatesStaySound DEF Delivering
<1>6. \A x \in RunId : Whole(x)' => Delivered(x)'
  <2> TAKE x \in RunId
  <2> HAVE Whole(x)'
  <2>1. runs'[x].cursor = runs[x].cursor /\ (Whole(x) => Delivered(x))
    BY <1>1 DEF Delivering
  <2> QED
    BY <1>0, <1>1, <1>2, <1>3, <2>1, DeliveredStays
<1>7. \A x : \A k \in Nat : SoundResume(x, k) => SoundResume(x, k)'
  <2> SUFFICES ASSUME NEW x, NEW k \in Nat, SoundResume(x, k) PROVE SoundResume(x, k)'
    OBVIOUS
  <2>1. Known(x)'
    BY <1>1 DEF SoundResume
  <2> QED
    BY <1>0, <1>1, <1>2, <1>3, <2>1, ResumeStays
<1> QED
  BY <1>1, <1>4, <1>5, <1>6, <1>7 DEF Delivering, LogsPassOn

-----------------------------------------------------------------------------
(***************************************************************************)
(* What the followers of a run are told.                                   *)
(***************************************************************************)
LEMMA JoinedTransients ==
  ASSUME NEW d \in Seq(NamedFrame), NEW e \in Seq(NamedFrame), NEW n \in Seq(NamedFrame),
         Transients(e), Transients(n)
  PROVE  e \o n \in Seq(NamedFrame) /\ Transients(e \o n) /\ (d \o e) \o n = d \o (e \o n)
<1>1. e \o n \in Seq(NamedFrame)
  BY JoinedFrames
<1>2. (d \o e) \o n = d \o (e \o n)
  BY ConcatAssociative
<1>3. \A i \in 1 .. Len(e \o n) :
        \/ i \in 1 .. Len(e) /\ (e \o n)[i] = e[i]
        \/ i - Len(e) \in 1 .. Len(n) /\ (e \o n)[i] = n[i - Len(e)]
  BY JoinedFrames
<1> QED
  BY <1>1, <1>2, <1>3 DEF Transients

(* What was in flight, then transient frames, then what is heard.          *)
LEMMA FramesOfNotify ==
  ASSUME Connections, down \in Seq(NamedFrame), NEW r \in RunId, NEW t,
         NEW early \in Seq(NamedFrame), Transients(early), Notify(r, t, early)
  PROVE  \/ ~Online /\ down' = down
         \/ \E s \in Socket : \E d \in Seq(NamedFrame) :
              /\ IsOpen(s)
              /\ down' = d \o Heard(s, r)
              /\ \E e \in Seq(NamedFrame) : Transients(e) /\ d = down \o e
              /\ \A x : \A a, b \in Nat : Carries(down, x, a, b) => Carries(d, x, a, b)
              /\ \A x : Lacks(down, x) => Lacks(d, x)
              /\ \A K : SoundIn(down, K) => SoundIn(d, K)
<1>1. CASE ~Online
  BY <1>1 DEF Notify, Online
<1>2. CASE Online
  <2>1. PICK s \in Socket : IsOpen(s) /\ s = CHOOSE x \in Socket : IsOpen(x)
    BY <1>2 DEF Online
  <2>2. PICK e : /\ e \in Seq(NamedFrame) /\ Transients(e)
                 /\ e = IF s = t THEN early ELSE << >>
    BY TransientsAre, EmptySeq
  <2>3. PICK n : n = Announcements(r) /\ n \in Seq(NamedFrame) /\ Transients(n)
    <3>1. Announcements(r) \in Seq(NamedFrame)
      BY TransientIsNamed, EmptySeq DEF Announcements
    <3> QED
      BY <3>1, TransientsAre
  <2>4. down' = ((down \o e) \o n) \o Heard(s, r)
    BY <1>2, <2>1, <2>2, <2>3 DEF Notify, Online
  <2>5. down \o e \in Seq(NamedFrame) /\ (down \o e) \o n \in Seq(NamedFrame)
    BY <2>2, <2>3, JoinedFrames
  <2>6. PICK d : d = (down \o e) \o n
    OBVIOUS
  <2>7. \A x : \A a, b \in Nat : Carries(down, x, a, b) => Carries(d, x, a, b)
    BY <2>2, <2>3, <2>5, <2>6, TransientsLack, CarriesWithOthers
  <2>8. \A x : Lacks(down, x) => Lacks(d, x)
    BY <2>2, <2>3, <2>5, <2>6, TransientsLack, LacksJoined
  <2>9. \A K : SoundIn(down, K) => SoundIn(d, K)
    BY <2>2, <2>3, <2>5, <2>6, TransientsLack, SoundInJoined
  <2>10. e \o n \in Seq(NamedFrame) /\ Transients(e \o n) /\ d = down \o (e \o n)
    BY <2>2, <2>3, <2>6, JoinedTransients
  <2> QED
    BY <2>1, <2>4, <2>5, <2>6, <2>7, <2>8, <2>9, <2>10
<1> QED
  BY <1>1, <1>2

(* A run grows by an event, or the logs are as they were.                  *)
LEMMA AppendsGrows ==
  ASSUME StoreInv, StoreTypeOK, KnownLogs, NEW r, Appends(r, LogEvents),
         ~LogsKept => Known(r)
  PROVE  /\ LostLogs
         /\ \A x : Known(x) => Known(x)'
         /\ \A x : GrowsOnly(x)
         /\ \A x : (x # r \/ LogsKept) /\ Whole(x)' => runs'[x].cursor = runs[x].cursor
<1>1. LostLogs
  BY DEF Appends, LogsKept, OnlyLog
<1>2. \A x : Known(x) => Known(x)'
  BY <1>1, KnownStays
<1>3. ASSUME NEW x, x # r \/ LogsKept
      PROVE  GrowsOnly(x) /\ (Whole(x)' => runs'[x].cursor = runs[x].cursor)
  <2>1. SameLog(x)
    BY <1>3 DEF Appends, LogsKept, OnlyLog
  <2> QED
    BY <1>1, <2>1, KeptGrowsOnly
<1>4. CASE ~LogsKept
  <2>1. PICK e \in LogEvents : Extends(r, e)
    BY <1>4 DEF Appends
  <2>2. Whole(r)' => Whole(r) /\ runs[r].cursor \in Nat /\ runs'[r].cursor = runs[r].cursor + 1
    BY <1>1, <1>4, <2>1, GrownWhole
  <2>3. GrowsOnly(r)
    BY <2>2 DEF GrowsOnly
  <2> QED
    BY <1>1, <1>2, <1>3, <2>3
<1> QED
  BY <1>1, <1>2, <1>3, <1>4

LEMMA NotifyDelivers ==
  ASSUME ChatInductive, ChatInductive', TailsOfOpenLogs, KnownLogs, Connections, Delivering,
         NEW r \in RunId, NEW t, NEW early \in Seq(NamedFrame), Transients(early),
         Notify(r, t, early), link' = link, tab' = tab,
         Appends(r, LogEvents \ {"run.started"}), ~LogsKept => Known(r)
  PROVE  LogsPassOn
<1>0. /\ StoreInv /\ StoreTypeOK /\ StoreTypeOK'
      /\ tails \in [Socket -> Seq(TailState)] /\ down \in Seq(NamedFrame)
  BY StoreOfInductive DEF ChatInductive, TypeInv, TypeOK
<1>1. Appends(r, LogEvents)
  BY DEF Appends
<1>2. /\ LostLogs
      /\ \A x : Known(x) => Known(x)'
      /\ \A x : GrowsOnly(x)
      /\ \A x : (x # r \/ LogsKept) /\ Whole(x)' => runs'[x].cursor = runs[x].cursor
  BY <1>0, <1>1, AppendsGrows
<1>3. TailsKept
  BY <1>0, NotifyUnfolded DEF TailsKept
<1>4. \A x : Tailed(x)' => Tailed(x)
  <2>1. \A s \in Socket : IsOpen(s)' => IsOpen(s)
    BY DEF IsOpen
  <2> QED
    BY <1>3, <2>1, TailsWereTailed
<1>5. /\ \A s : Heard(s, r) \in Seq(NamedFrame)
      /\ \A s : \A i \in 1 .. Len(Heard(s, r)) : Heard(s, r)[i].run = r /\ SoundFrame(Heard(s, r)[i])
      /\ \A s : LogsKept => Heard(s, r) = << >>
  BY <1>0, HeardIsNews
<1>6. \A s \in Socket : IsOpen(s) /\ ~Tailed(r) => Heard(s, r) = << >>
  <2> TAKE s \in Socket
  <2> HAVE IsOpen(s) /\ ~Tailed(r)
  <2>1. ~Follows(s, r)
    BY <1>0, FollowsIs DEF Tailed
  <2> QED
    BY <2>1 DEF Heard
<1>7. ASSUME NEW x, x # r \/ LogsKept \/ ~Tailed(r)
      PROVE  Undisturbed(x)
  <2>1. CASE down' = down
    BY <2>1, SameIsUndisturbed
  <2>2. ASSUME NEW s \in Socket, NEW d \in Seq(NamedFrame), IsOpen(s), down' = d \o Heard(s, r),
               \A a, b \in Nat : Carries(down, x, a, b) => Carries(d, x, a, b),
               Lacks(down, x) => Lacks(d, x)
        PROVE  Undisturbed(x)
    <3>1. Lacks(Heard(s, r), x)
      <4>1. CASE x # r
        BY <1>5, <4>1 DEF Lacks, Holds
      <4>2. CASE LogsKept \/ ~Tailed(r)
        <5>1. Heard(s, r) = << >>
          BY <1>5, <1>6, <2>2, <4>2
        <5> QED
          BY <5>1, TransientsAre, TransientsLack
      <4> QED
        BY <1>7, <4>1, <4>2
    <3>2. PICK h \in Seq(NamedFrame) : h = Heard(s, r)
      BY <1>5
    <3> QED
      BY <2>2, <3>1, <3>2, CarriesWithOthers, LacksJoined DEF Undisturbed
  <2> QED
    BY <1>0, <2>1, <2>2, FramesOfNotify
<1>8. SoundFrames'
  <2>1. SoundIn(down, KnownRuns')
    <3>1. KnownRuns \subseteq KnownRuns'
      BY <1>2 DEF KnownRuns, Known, Has
    <3> QED
      BY <3>1, SoundFramesIn DEF Delivering, SoundIn
  <2>2. \A s : SoundIn(Heard(s, r), KnownRuns')
    <3> TAKE s
    <3>1. CASE LogsKept
      BY <1>5, <3>1, TransientsAre, TransientsLack
    <3>2. CASE ~LogsKept
      <4>1. r \in KnownRuns'
        BY <1>2, <3>2 DEF KnownRuns, Known, Has
      <4> QED
        BY <1>5, <4>1 DEF SoundIn
    <3> QED
      BY <3>1, <3>2
  <2>3. SoundIn(down', KnownRuns')
    <3>1. CASE down' = down
      BY <2>1, <3>1
    <3>2. ASSUME NEW s \in Socket, NEW d \in Seq(NamedFrame), down' = d \o Heard(s, r),
                 \A K : SoundIn(down, K) => SoundIn(d, K)
          PROVE  SoundIn(down', KnownRuns')
      <4>1. SoundIn(d, KnownRuns')
        BY <2>1, <3>2
      <4> QED
        BY <1>5, <2>2, <3>2, <4>1, SoundInJoined
    <3> QED
      BY <1>0, <3>1, <3>2, FramesOfNotify
  <2> QED
    BY <2>3, SoundFramesInNext
<1>9. SoundGates'
  BY <1>0, <1>2, <1>3, GatesStaySound DEF Delivering
<1>10. ASSUME NEW x \in RunId, Whole(x)'
       PROVE  Delivered(x)'
  <2>0. Whole(x) /\ GrowsOnly(x) /\ Delivered(x)
    BY <1>2, <1>10 DEF GrowsOnly, Delivering
  <2>1. CASE x # r \/ LogsKept \/ ~Tailed(r)
    <3>1. Tailed(x)' => Tailed(x) /\ runs'[x].cursor = runs[x].cursor
      BY <1>2, <1>4, <1>10, <2>1
    <3> QED
      BY <1>0, <1>7, <1>10, <2>0, <2>1, <3>1, DeliveredStays
  <2>2. CASE x = r /\ ~LogsKept /\ Tailed(r)
    <3>1. PICK e \in LogEvents : Extends(r, e)
      BY <2>2 DEF Appends
    <3>2. /\ runs[x].cursor \in Nat /\ runs'[x].cursor = runs[x].cursor + 1
      BY <1>0, <1>2, <1>10, <2>2, <3>1, GrownWhole
    <3>3. PICK a \in 0 .. runs[x].cursor :
            /\ Carries(down, x, a, runs[x].cursor)
            /\ tab.run = x => a <= tab.cursor
      BY <2>0, <2>2 DEF Delivered
    <3>4. PICK b : b = runs[x].cursor
      OBVIOUS
    <3>5. a \in Nat /\ b \in Nat /\ a <= b /\ runs'[x].cursor = b + 1
      BY <3>2, <3>4
    <3>6. PICK s \in Socket : IsOpen(s) /\ Follows(s, r)
      BY <1>0, <2>2, FollowsIs DEF Tailed
    <3>7. PICK d \in Seq(NamedFrame) : /\ down' = d \o Heard(s, r)
                                       /\ Carries(d, x, a, b)
      <4>2. PICK z \in Socket, d \in Seq(NamedFrame) :
              /\ IsOpen(z)
              /\ down' = d \o Heard(z, r)
              /\ Carries(down, x, a, b) => Carries(d, x, a, b)
        <5>1. Online
          BY <3>6 DEF Online
        <5> QED
          BY <1>0, <3>5, <5>1, FramesOfNotify
      <4>3. z = s
        BY <3>6, <4>2 DEF Connections
      <4> QED
        BY <3>3, <3>4, <4>2, <4>3
    <3>8. /\ Heard(s, r) \in Seq(NamedFrame) /\ Len(Heard(s, r)) = 1
          /\ Heard(s, r)[1].run = r /\ Heard(s, r)[1].cursor = runs[r].cursor + 1
      BY <1>0, <1>2, <1>10, <2>2, <3>1, <3>6, HeardNext DEF Delivering
    <3>9. PICK h \in Seq(NamedFrame) : h = Heard(s, r)
      BY <3>8
    <3>10. Len(h) = 1 /\ \A i \in 1 .. Len(h) : h[i].run = x /\ h[i].cursor = b + i
      <4>1. Len(h) = 1 /\ h[1].run = x /\ h[1].cursor = b + 1
        BY <2>2, <3>4, <3>8, <3>9
      <4>2. \A i \in 1 .. 1 : i = 1
        OBVIOUS
      <4> QED
        BY <4>1, <4>2
    <3>11. Carries(d \o h, x, a, b + 1)
      BY <3>5, <3>7, <3>10, CarriesWithNext
    <3>12. Carries(down', x, a, b + 1)
      BY <3>7, <3>9, <3>11
    <3>13. b + 1 \in 0 .. runs'[x].cursor /\ a \in 0 .. b + 1
      BY <3>5
    <3> QED
      BY <3>3, <3>5, <3>12, <3>13 DEF Delivered
  <2> QED
    BY <2>1, <2>2
<1>11. ASSUME NEW x, NEW k \in Nat, SoundResume(x, k)
       PROVE  SoundResume(x, k)'
  <2>1. Known(x)' /\ GrowsOnly(x) /\ (Tailed(x)' => Tailed(x))
    BY <1>2, <1>4, <1>11 DEF SoundResume
  <2>2. Whole(x) => ~Tailed(x)
    BY <1>11 DEF SoundResume
  <2>3. Whole(x) => Undisturbed(x)
    BY <1>7, <2>2
  <2> QED
    BY <1>0, <1>11, <2>1, <2>3, ResumeStays
<1> QED
  BY <1>2, <1>8, <1>9, <1>10, <1>11 DEF Delivering, LogsPassOn

-----------------------------------------------------------------------------
(***************************************************************************)
(* A subscription: the replay goes behind what is in flight, and what is   *)
(* appended from now on behind the replay.                                 *)
(***************************************************************************)
(* The replay of a log that is not cut goes from k to its end.             *)
LEMMA ReplayIs ==
  ASSUME NEW log, log.events \in Seq(Event), log.cursor \in Nat, GapFree(log),
         log.cursor <= MaxEvents, NEW k \in Nat, k <= log.cursor
  PROVE  /\ Len(After(log.events, k)) = log.cursor - k
         /\ \A i \in 1 .. log.cursor - k : After(log.events, k)[i].cursor = k + i
         /\ \A i \in 1 .. log.cursor - k : After(log.events, k)[i] = log.events[k + i]
         /\ ReplayGate(log, k) = log.cursor
<1> DEFINE replay == After(log.events, k)
           n == log.cursor - k
<1>1. MaxEvents \in Nat
  BY RunStoreAssumption
<1>2. /\ Len(log.events) = log.cursor
      /\ \A i \in 1 .. Len(log.events) : log.events[i].cursor = log.cursor - Len(log.events) + i
  BY <1>1 DEF GapFree
<1>3. /\ replay \in Seq(Event)
      /\ Len(replay) = n
      /\ \A i \in 1 .. n : replay[i] = log.events[Len(log.events) - n + i]
  <2>1. log.cursor - Len(log.events) <= k /\ k <= log.cursor
    BY <1>2
  <2> QED
    BY <2>1, AfterIsSuffix
<1>4. n \in Nat /\ log.cursor = k + n
  OBVIOUS
<1> HIDE DEF n, replay
<1>5. \A i \in 1 .. n : k + i \in 1 .. Len(log.events) /\ replay[i] = log.events[k + i]
  <2> TAKE i \in 1 .. n
  <2>1. k + i \in 1 .. Len(log.events) /\ Len(log.events) - n + i = k + i
    BY <1>2, <1>4
  <2> QED
    BY <1>3, <2>1
<1>6. \A i \in 1 .. n : replay[i].cursor = k + i
  <2> TAKE i \in 1 .. n
  <2>1. k + i \in 1 .. Len(log.events) /\ log.cursor - Len(log.events) + (k + i) = k + i
    BY <1>2, <1>4, <1>5
  <2> QED
    BY <1>2, <1>5, <2>1
<1>7. ReplayGate(log, k) = log.cursor
  <2>1. ReplayGate(log, k) = IF replay = << >> THEN k ELSE Last(replay).cursor
    BY DEF ReplayGate, replay
  <2>2. CASE n = 0
    <3>1. replay = << >>
      BY <1>3, <2>2, EmptySeq
    <3> QED
      BY <1>4, <2>1, <2>2, <3>1
  <2>3. CASE n > 0
    <3>1. n \in 1 .. n
      BY <1>4, <2>3
    <3>2. replay # << >>
      BY <1>3, <2>3, EmptySeq
    <3>3. Last(replay) = replay[n]
      BY <1>3 DEF Last
    <3> QED
      BY <1>4, <1>6, <2>1, <3>1, <3>2, <3>3
  <2> QED
    BY <1>4, <2>2, <2>3
<1> QED
  BY <1>3, <1>5, <1>6, <1>7 DEF n, replay

(* What a subscription sends: the replay, and at most a gate.              *)
LEMMA AttachedFrames ==
  ASSUME StoreTypeOK', NEW s, NEW r \in RunId, r \in DOMAIN runs', NEW k \in Nat, Attach(s, r, k)
  PROVE  \E f, e \in Seq(NamedFrame) :
           /\ f = Forwarded(r, After(runs'[r].events, k))
           /\ Transients(e)
           /\ Emit(s, f \o e)
<1>1. runs'[r].events \in Seq(Event)
  BY DEF StoreTypeOK, RunState, Event
<1>2. Forwarded(r, After(runs'[r].events, k)) \in Seq(NamedFrame)
  BY <1>1, AfterIsTyped, ForwardedIsNamed
<1>3. /\ PendingApprovalBefore(r, runs'[r].events, k) \in Seq(NamedFrame)
      /\ Transients(PendingApprovalBefore(r, runs'[r].events, k))
  <2>1. PendingApprovalBefore(r, runs'[r].events, k) \in Seq(NamedFrame)
    BY <1>1, PendingApprovalIsNamed
  <2>2. Transients(PendingApprovalBefore(r, runs'[r].events, k))
    <3>1. \A g : Transients(<<[event |-> "approval.request", run |-> r, cursor |-> 0, gate |-> g]>>)
      BY DEF Transients
    <3>2. PendingApprovalBefore(r, runs'[r].events, k) # << >> =>
            PendingApprovalBefore(r, runs'[r].events, k) =
              <<[event |-> "approval.request", run |-> r, cursor |-> 0,
                 gate |-> PendingGate(runs'[r].events)]>>
      BY DEF PendingApprovalBefore
    <3> QED
      BY <3>1, <3>2, TransientsAre
  <2> QED
    BY <2>1, <2>2
<1>4. PICK e \in Seq(NamedFrame) :
        /\ e = IF runs'[r].done THEN << >> ELSE PendingApprovalBefore(r, runs'[r].events, k)
        /\ Transients(e)
  BY <1>3, TransientsAre, EmptySeq
<1>5. Emit(s, Forwarded(r, After(runs'[r].events, k)) \o e)
  BY <1>4 DEF Attach
<1> QED
  BY <1>2, <1>4, <1>5

\* A live tail was one before, of another run on the subscriber's socket, or is the
\* one that the replay of r ends in.
AttachedTails(s, r, k) ==
  \A z \in Socket : \A i \in 1 .. Len(tails'[z]) :
    tails'[z][i].live =>
      /\ tails'[z][i].run \in DOMAIN runs'
      /\ \/ WasTail(tails'[z][i], z) /\ (z = s => tails'[z][i].run # r)
         \/ /\ z = s /\ tails'[z][i].run = r
            /\ tails'[z][i].gate = ReplayGate(runs'[r], k)
            /\ ~runs'[r].done

LEMMA TailsOfAttach ==
  ASSUME StoreTypeOK', tails \in [Socket -> Seq(TailState)], down \in Seq(NamedFrame),
         NEW s \in Socket, NEW r \in RunId, r \in DOMAIN runs', NEW k \in Nat,
         Attach(s, r, k)
  PROVE  AttachedTails(s, r, k)
BY AttachUnfolded DEF AttachedTails

LEMMA AttachDelivers ==
  ASSUME ChatInductive, ChatInductive', TailsOfOpenLogs, KnownLogs, KnownLogs', Connections,
         Delivering, NEW s \in Socket, NEW r \in RunId, r \in DOMAIN runs', NEW k \in Nat,
         Attach(s, r, k), link' = link, tab' = tab, OnlyLog(r), Known(r) => GrowsOnly(r),
         Whole(r)' => /\ k <= runs'[r].cursor
                      /\ tab.run = r => k <= tab.cursor
                      /\ Lacks(down, r)
                      /\ ~Tailed(r)
  PROVE  /\ Delivering'
         /\ \A x : Known(x) => Known(x)' /\ GrowsOnly(x)
         /\ \A x : \A j \in Nat : x # r /\ SoundResume(x, j) => SoundResume(x, j)'
<1>0. /\ StoreTypeOK /\ StoreTypeOK' /\ LostLogs
      /\ tails \in [Socket -> Seq(TailState)] /\ down \in Seq(NamedFrame)
  BY DEF ChatInductive, TypeInv, TypeOK, OnlyLog
<1>1. \A x : Known(x) => Known(x)'
  BY <1>0, KnownStays
<1>2. \A x : x # r => GrowsOnly(x) /\ (Whole(x)' => runs'[x].cursor = runs[x].cursor)
  BY <1>0, KeptGrowsOnly DEF OnlyLog
<1>3. \A z \in Socket : \A i \in 1 .. Len(tails'[z]) :
        tails'[z][i].live =>
          /\ tails'[z][i].run \in DOMAIN runs'
          /\ \/ WasTail(tails'[z][i], z) /\ (z = s => tails'[z][i].run # r)
             \/ /\ z = s /\ tails'[z][i].run = r
                /\ tails'[z][i].gate = ReplayGate(runs'[r], k)
                /\ ~runs'[r].done
  <2>1. AttachedTails(s, r, k)
    BY <1>0, TailsOfAttach
  <2> QED
    BY <2>1 DEF AttachedTails
<1>4. ASSUME NEW x, x # r \/ ~IsOpen(s), Tailed(x)'
      PROVE  Tailed(x)
  <2>1. PICK z \in Socket : IsOpen(z) /\ \E i \in 1 .. Len(tails'[z]) :
                              tails'[z][i].live /\ tails'[z][i].run = x
    BY <1>4 DEF Tailed, IsOpen
  <2>2. \E i \in 1 .. Len(tails'[z]) : WasTail(tails'[z][i], z) /\ tails'[z][i].run = x
    BY <1>3, <1>4, <2>1
  <2> QED
    BY <2>1, <2>2 DEF Tailed, WasTail
<1>5. PICK f \in Seq(NamedFrame), e \in Seq(NamedFrame) :
        /\ f = Forwarded(r, After(runs'[r].events, k))
        /\ Transients(e)
        /\ Emit(s, f \o e)
  BY <1>0, AttachedFrames
<1>6. /\ f \o e \in Seq(NamedFrame)
      /\ IsOpen(s) => down' = (down \o f) \o e /\ down' = down \o (f \o e)
      /\ ~IsOpen(s) => down' = down
  <2>1. f \o e \in Seq(NamedFrame)
    BY JoinedFrames
  <2>2. (down \o f) \o e = down \o (f \o e)
    BY <1>0, ConcatAssociative
  <2> QED
    BY <1>5, <2>1, <2>2 DEF Emit
<1>7. PICK log : log = runs'[r] /\ log \in RunState /\ GapFree(log)
  BY <1>0 DEF StoreTypeOK, ChatInductive, Inductive, LogIsGapFree
<1>8. /\ log.events \in Seq(Event) /\ log.cursor \in Nat
      /\ After(log.events, k) \in Seq(Event)
      /\ \A i \in 1 .. Len(After(log.events, k)) :
           \E j \in 1 .. Len(log.events) : After(log.events, k)[i] = log.events[j]
  <2>1. log.events \in Seq(Event) /\ log.cursor \in Nat
    BY <1>7 DEF RunState, Event
  <2> QED
    <3>1. PICK events \in Seq(Event) : events = log.events
      BY <2>1
    <3>2. /\ After(events, k) \in Seq(Event)
          /\ \A i \in 1 .. Len(After(events, k)) :
               \E j \in 1 .. Len(events) : After(events, k)[i] = events[j]
      BY AfterPicks
    <3> QED
      BY <2>1, <3>1, <3>2
<1>9. /\ Len(f) = Len(After(log.events, k))
      /\ \A i \in 1 .. Len(f) : /\ f[i].run = r
                                /\ f[i].cursor = After(log.events, k)[i].cursor
                                /\ f[i].event = After(log.events, k)[i].event
  BY <1>5, <1>7, <1>8, ForwardedIsNamed
<1>10. SoundIn(f, KnownRuns')
  <2>1. r \in KnownRuns'
    BY DEF KnownRuns
  <2>2. \A i \in 1 .. Len(log.events) : /\ log.events[i].event \in LogEvents
                                        /\ log.events[i].event = "run.started" => log.events[i].cursor = 1
    <3> TAKE i \in 1 .. Len(log.events)
    <3>1. log.events[i] \in Event
      BY <1>8, ElementOfSeq
    <3> QED
      BY <1>7, <3>1 DEF Event, KnownLogs
  <2> QED
    BY <1>8, <1>9, <2>1, <2>2 DEF SoundIn, SoundFrame
<1>11. SoundFrames'
  <2>1. SoundIn(f \o e, KnownRuns')
    BY <1>5, <1>10, TransientsLack, SoundInJoined
  <2> QED
    BY <1>0, <1>6, <2>1, JoinedAreSound DEF Delivering
<1>12. ASSUME NEW x, x # r
       PROVE  Undisturbed(x)
  <2>1. Lacks(f, x)
    BY <1>9, <1>12 DEF Lacks, Holds
  <2>2. Lacks(f \o e, x)
    BY <1>5, <2>1, TransientsLack, LacksJoined
  <2> QED
    BY <1>0, <1>6, <2>2, SameIsUndisturbed, JoinedIsUndisturbed
<1>13. SoundGates'
  <2> SUFFICES ASSUME NEW z \in Socket, NEW i \in 1 .. Len(tails'[z]), tails'[z][i].live,
                      tails'[z][i].run \in DOMAIN runs', tails'[z][i].run \notin lost',
                      runs'[tails'[z][i].run].cursor <= MaxEvents
               PROVE  tails'[z][i].gate <= runs'[tails'[z][i].run].cursor
    BY DEF SoundGates, Whole, Has
  <2>1. CASE WasTail(tails'[z][i], z)
    <3>1. PICK j \in 1 .. Len(tails[z]) :
            tails[z][j].live /\ tails[z][j].run = tails'[z][i].run /\ tails[z][j].gate = tails'[z][i].gate
      BY <2>1 DEF WasTail
    <3>2. PICK x : x = tails[z][j].run
      OBVIOUS
    <3>3. PICK g : g = tails[z][j].gate
      OBVIOUS
    <3>4. Whole(x)' /\ (Known(x) => GrowsOnly(x))
      BY <1>2, <3>1, <3>2 DEF Whole, Has
    <3>5. g <= runs'[x].cursor
      BY <1>0, <3>1, <3>2, <3>3, <3>4, GateStaysSound DEF Delivering
    <3> QED
      BY <3>1, <3>2, <3>3, <3>5
  <2>2. CASE tails'[z][i].run = r /\ tails'[z][i].gate = ReplayGate(runs'[r], k)
    <3>1. Whole(r)'
      BY <2>2 DEF Whole, Has
    <3>2. k <= log.cursor /\ log.cursor <= MaxEvents
      BY <1>7, <3>1 DEF Whole
    <3>3. ReplayGate(log, k) = log.cursor
      BY <1>7, <1>8, <3>2, ReplayIs
    <3> QED
      BY <1>7, <1>8, <2>2, <3>3
  <2> QED
    BY <1>3, <2>1, <2>2
<1>14. ASSUME NEW x \in RunId, Whole(x)'
       PROVE  Delivered(x)'
  <2>1. CASE x # r
    <3>1. Whole(x) => Delivered(x)
      BY DEF Delivering
    <3> QED
      BY <1>0, <1>2, <1>4, <1>12, <1>14, <2>1, <3>1, DeliveredStays
  <2>2. CASE x = r /\ ~IsOpen(s)
    <3>1. Carries(down', x, k, k)
      BY <1>6, <1>14, <2>2, CarriesNothing
    <3>2. ~Tailed(x)'
      BY <1>4, <1>14, <2>2
    <3>3. k \in 0 .. runs'[x].cursor /\ k \in 0 .. k
      BY <1>7, <1>8, <1>14, <2>2
    <3> QED
      BY <1>14, <2>2, <3>1, <3>2, <3>3 DEF Delivered
  <2>3. CASE x = r /\ IsOpen(s)
    <3>1. k <= log.cursor /\ log.cursor <= MaxEvents
      BY <1>7, <1>14, <2>3 DEF Whole
    <3>2. /\ Len(f) = log.cursor - k
          /\ \A i \in 1 .. log.cursor - k : After(log.events, k)[i].cursor = k + i
      BY <1>7, <1>8, <1>9, <3>1, ReplayIs
    <3>3. \A i \in 1 .. Len(f) : f[i].run = x /\ f[i].cursor = k + i
      BY <1>9, <2>3, <3>2
    <3>4. Carries(down, x, k, k)
      BY <1>14, <2>3, CarriesNothing
    <3>5. k + Len(f) = log.cursor
      BY <1>8, <3>2
    <3>6. Carries(down \o f, x, k, log.cursor)
      <4>1. k <= k
        OBVIOUS
      <4>2. Carries(down \o f, x, k, k + Len(f))
        BY <1>0, <3>3, <3>4, <4>1, CarriesWithNext
      <4> QED
        BY <3>5, <4>2
    <3>7. down \o f \in Seq(NamedFrame) /\ Lacks(e, x)
      BY <1>0, <1>5, JoinedFrames, TransientsLack
    <3>8. Carries(down', x, k, log.cursor)
      BY <1>6, <1>8, <2>3, <3>6, <3>7, CarriesWithOthers
    <3>9. log.cursor \in 0 .. runs'[x].cursor /\ k \in 0 .. log.cursor /\ log.cursor = runs'[x].cursor
      BY <1>7, <1>8, <2>3, <3>1
    <3> QED
      BY <1>14, <2>3, <3>8, <3>9 DEF Delivered
  <2> QED
    BY <2>1, <2>2, <2>3
<1>15. ASSUME NEW x, NEW j \in Nat, x # r, SoundResume(x, j)
       PROVE  SoundResume(x, j)'
  <2>1. Known(x)' /\ GrowsOnly(x) /\ Undisturbed(x) /\ (Tailed(x)' => Tailed(x))
    BY <1>1, <1>2, <1>4, <1>12, <1>15 DEF SoundResume
  <2> QED
    BY <1>0, <1>15, <2>1, ResumeStays
<1> QED
  BY <1>1, <1>2, <1>11, <1>13, <1>14, <1>15 DEF Delivering

-----------------------------------------------------------------------------
(***************************************************************************)
(* The steps of the server.                                                *)
(***************************************************************************)
(* The resumes on their way, when what they rest on stays.                 *)
LEMMA ResumesStaySound ==
  ASSUME up \in Seq(Command), SoundResumes,
         \A i \in 1 .. Len(up') : IsResume(i)' => \E j \in 1 .. Len(up) : up'[i] = up[j],
         \A x : \A k \in Nat : SoundResume(x, k) => SoundResume(x, k)'
  PROVE  SoundResumes'
<1> SUFFICES ASSUME NEW i \in 1 .. Len(up'), IsResume(i)'
             PROVE  SoundResume(up[i].run, up[i].cursor)'
  BY DEF SoundResumes
<1>1. PICK j \in 1 .. Len(up) : up'[i] = up[j]
  OBVIOUS
<1>2. IsResume(j) /\ up[j] \in Command
  BY <1>1, ElementOfSeq DEF IsResume
<1>3. PICK x : x = up[j].run
  OBVIOUS
<1>4. PICK k \in Nat : k = up[j].cursor
  BY <1>2 DEF Command
<1>5. SoundResume(x, k)'
  BY <1>2, <1>3, <1>4 DEF SoundResumes
<1>6. x = up'[i].run /\ k = up'[i].cursor
  BY <1>1, <1>3, <1>4
<1> QED
  BY <1>5, <1>6 DEF SoundResume, Known, Has, Whole, Tailed, IsOpen

LEMMA ServerKeepsDelivery ==
  ASSUME ChatInductive, ChatInductive', Delivery, KnownLogs', Connections', Delivering',
         tab' = tab, SoundResumes', \A x : Known(x) => Known(x)' /\ GrowsOnly(x)
  PROVE  Delivery'
<1>1. StoreTypeOK /\ StoreTypeOK' /\ tab \in NamedTab
  BY DEF ChatInductive, TypeInv, TypeOK
<1>2. SoundTab'
  BY <1>1, TabStaysSound DEF Delivery
<1> QED
  BY <1>2 DEF Delivery, Delivering

LEMMA DeliveryDelivers == Delivery => KnownLogs /\ Connections /\ Delivering /\ SoundResumes /\ SoundTab
BY DEF Delivery, Delivering

(* The manager and the tails are as they were.                             *)
LEMMA SameTailsKept ==
  ASSUME UNCHANGED managerVars, tails' = tails, TailsOfOpenLogs
  PROVE  LogsKept /\ TailsKept
<1>1. LogsKept
  BY SameManagerMoves
<1>2. runs' = runs
  BY DEF managerVars, storeVars
<1> QED
  BY <1>1, <1>2 DEF TailsKept, TailsOfOpenLogs, IsOpenLog, WasTail

LEMMA EmitDelivers ==
  ASSUME ChatInductive, ChatInductive', TailsOfOpenLogs, Delivery,
         UNCHANGED managerVars, tails' = tails, link' = link, tab' = tab,
         NEW s, NEW e \in Seq(NamedFrame), Transients(e), down' = down \/ Emit(s, e)
  PROVE  LogsPassOn
<1>1. LogsKept /\ TailsKept
  BY SameTailsKept
<1>2. \A z \in Socket : IsOpen(z)' => IsOpen(z)
  BY DEF IsOpen
<1>3. down' = down \/ down' = down \o e
  BY DEF Emit
<1> QED
  BY <1>1, <1>2, <1>3, QuietStepDelivers, DeliveryDelivers

(* Notify, after a step that appends to r.                                 *)
LEMMA NotifyPassesOn ==
  ASSUME ChatInductive, ChatInductive', TailsOfOpenLogs, Delivery,
         NEW r \in RunId, NEW t, NEW early \in Seq(NamedFrame), Transients(early),
         Notify(r, t, early), link' = link, tab' = tab,
         Appends(r, LogEvents \ {"run.started"}), ~LogsKept => Known(r)
  PROVE  LogsPassOn
BY NotifyDelivers, DeliveryDelivers

(* The handler of a command that is no resume.                             *)
LEMMA CommandDelivers ==
  ASSUME ChatInductive, ChatInductive', TailsOfOpenLogs, Delivery, tab' = tab,
         NEW s \in Socket, NEW r \in RunId, NEW k \in Nat,
         \/ RunCommand(s, r)
         \/ AbortCommand(s, r)
         \/ RespondCommand(s, r, k)
  PROVE  LogsPassOn
<1>1. CASE RunCommand(s, r) \/ RespondCommand(s, r, k)
  <2>1. UNCHANGED managerVars /\ tails' = tails /\ link' = link /\ down' = down
    BY <1>1 DEF RunCommand, RespondCommand
  <2>2. << >> \in Seq(NamedFrame) /\ Transients(<< >>)
    BY EmptySeq, TransientsAre
  <2> QED
    BY <2>1, <2>2, EmitDelivers
<1>2. CASE AbortCommand(s, r)
  <2>1. /\ Transient("run.stopping", r) \in Seq(NamedFrame)
        /\ Transients(Transient("run.stopping", r))
    BY TransientIsNamed, TransientsAre
  <2>2. Notify(r, s, Transient("run.stopping", r)) /\ link' = link
    BY <1>2 DEF AbortCommand
  <2>3. Appends(r, LogEvents \ {"run.started"}) /\ (~LogsKept => Known(r))
    <3>1. CASE Abort(r)
      <4>1. IsActive(r)
        BY <3>1 DEF Abort
      <4>2. Known(r)
        BY <4>1, ActiveIsKnown, DeliveryDelivers DEF ChatInductive
      <4> QED
        BY <3>1, <4>2, CancelMoves DEF Appends
    <3>2. CASE UNCHANGED managerVars
      BY <3>2, SameManagerMoves DEF Appends
    <3> QED
      BY <1>2, <3>1, <3>2 DEF AbortCommand
  <2> QED
    BY <2>1, <2>2, <2>3, NotifyPassesOn
<1> QED
  BY <1>1, <1>2

LEMMA ResumeDelivers ==
  ASSUME ChatInductive, ChatInductive', TailsOfOpenLogs, Delivery, KnownLogs', tab' = tab,
         NEW s \in Socket, NEW r \in RunId, NEW k \in Nat, ResumeCommand(s, r, k),
         SoundResume(r, k)
  PROVE  /\ Delivering'
         /\ \A x : Known(x) => Known(x)' /\ GrowsOnly(x)
<1>0. KnownLogs /\ Connections /\ Delivering /\ StoreTypeOK
  BY DeliveryDelivers DEF ChatInductive, TypeInv, TypeOK
<1>1. CASE /\ Emit(s, Transient(Rejection.resume, "none"))
           /\ UNCHANGED managerVars /\ UNCHANGED <<link, tails, calls>>
  <2>1. "resume" \in DOMAIN Rejection /\ Rejection.resume = Rejection["resume"]
    BY DEF Rejection
  <2>2. /\ Transient(Rejection.resume, "none") \in Seq(NamedFrame)
        /\ Transients(Transient(Rejection.resume, "none"))
    BY <2>1, RejectionIsNamed, TransientsAre
  <2> QED
    BY <1>1, <2>2, EmitDelivers DEF LogsPassOn
<1>2. CASE Has(r) /\ UNCHANGED managerVars /\ Attach(s, r, k) /\ link' = link
  <2>1. LogsKept /\ r \in DOMAIN runs'
    BY <1>2, SameManagerMoves DEF managerVars, storeVars, Has
  <2>2. OnlyLog(r) /\ GrowsOnly(r)
    BY <1>0, <2>1, KeptGrowsOnly DEF LogsKept, OnlyLog
  <2>3. runs' = runs /\ lost' = lost /\ down = down
    BY <1>2 DEF managerVars, storeVars
  <2>4. Whole(r)' => /\ k <= runs'[r].cursor
                     /\ tab.run = r => k <= tab.cursor
                     /\ Lacks(down, r)
                     /\ ~Tailed(r)
    BY <2>3 DEF SoundResume, Whole, Has
  <2> QED
    BY <1>0, <1>2, <2>1, <2>2, <2>4, AttachDelivers
<1>3. CASE Rebegin(r) /\ Attach(s, r, k) /\ link' = link
  <2>1. OnlyLog(r) /\ r \in DOMAIN runs'
    BY <1>3, RebeginMoves
  <2>2. ~Whole(r)'
    BY <1>0, <1>3, RebeginKeepsKnown DEF ChatInductive, Whole
  <2>3. GrowsOnly(r)
    BY <2>2 DEF GrowsOnly
  <2> QED
    BY <1>0, <1>3, <2>1, <2>2, <2>3, AttachDelivers
<1> QED
  BY <1>1, <1>2, <1>3 DEF ResumeCommand

LEMMA DeliverKeepsDelivery ==
  ASSUME ChatInductive, ChatInductive', TailsOfOpenLogs, Delivery, KnownLogs', Connections', Deliver
  PROVE  Delivery'
<1>0. up \in Seq(Command) /\ up # << >> /\ up' = Tail(up) /\ tab' = tab
  BY DEF Deliver, ChatInductive, TypeInv
<1>1. /\ Len(up) \in Nat \ {0} /\ Head(up) = up[1] /\ Head(up) \in Command
      /\ Len(up') = Len(up) - 1
      /\ \A i \in 1 .. Len(up') : up'[i] = up[i + 1]
  <2>1. /\ Head(up) \in Command /\ Len(Tail(up)) = Len(up) - 1
        /\ \A i \in 1 .. Len(Tail(up)) : Tail(up)[i] = up[i + 1]
    BY <1>0, HeadTailProperties
  <2>2. Len(up) \in Nat \ {0}
    BY <1>0, EmptySeq, LenProperties
  <2> QED
    BY <1>0, <2>1, <2>2
<1>2. \A i \in 1 .. Len(up') : i + 1 \in 1 .. Len(up)
  BY <1>1
<1>3. PICK s \in Socket, r \in RunId :
        /\ r = up[1].run
        /\ \/ up[1].do = "run" /\ RunCommand(s, r)
           \/ up[1].do = "resume" /\ ResumeCommand(s, r, up[1].cursor)
           \/ up[1].do = "abort" /\ AbortCommand(s, r)
           \/ up[1].do = "respond" /\ RespondCommand(s, r, up[1].cursor)
  BY <1>1 DEF Deliver
<1>4. PICK k \in Nat : k = up[1].cursor
  BY <1>1 DEF Command
<1>5. CASE RunCommand(s, r) \/ AbortCommand(s, r) \/ RespondCommand(s, r, k)
  <2>1. LogsPassOn
    BY <1>0, <1>5, CommandDelivers
  <2>2. \A i \in 1 .. Len(up') : \E j \in 1 .. Len(up) : up'[i] = up[j]
    BY <1>1, <1>2
  <2>3. SoundResumes'
    BY <1>0, <2>1, <2>2, ResumesStaySound, DeliveryDelivers DEF LogsPassOn
  <2> QED
    BY <1>0, <2>1, <2>3, ServerKeepsDelivery DEF LogsPassOn
<1>6. CASE up[1].do = "resume" /\ ResumeCommand(s, r, k)
  <2>0. 1 \in 1 .. Len(up) /\ IsResume(1)
    BY <1>1, <1>6 DEF IsResume
  <2>1. SoundResume(r, k)
    BY <1>3, <1>4, <2>0, DeliveryDelivers DEF SoundResumes
  <2>2. /\ Delivering'
        /\ \A x : Known(x) => Known(x)' /\ GrowsOnly(x)
    BY <1>0, <1>6, <2>1, ResumeDelivers
  <2>3. \A i \in 1 .. Len(up') : ~IsResume(i)'
    <3> TAKE i \in 1 .. Len(up')
    <3> SUFFICES ASSUME IsResume(i)' PROVE FALSE
      OBVIOUS
    <3>1. IsResume(i + 1) /\ i + 1 \in 1 .. Len(up) /\ i + 1 # 1
      BY <1>1, <1>2 DEF IsResume
    <3> QED
      BY <2>0, <3>1, DeliveryDelivers DEF Connections
  <2>4. SoundResumes'
    BY <2>3 DEF SoundResumes
  <2> QED
    BY <1>0, <2>2, <2>4, ServerKeepsDelivery
<1> QED
  BY <1>3, <1>4, <1>5, <1>6

(* A run that has only been asked for is nowhere yet.                      *)
LEMMA StartDelivers ==
  ASSUME ChatInductive, ChatInductive', TailsOfOpenLogs, Delivery, KnownLogs', tab' = tab,
         NEW s \in Socket, NEW r \in RunId, Start(r), Attach(s, r, 0), link' = link
  PROVE  LogsPassOn
<1>0. /\ KnownLogs /\ Connections /\ Delivering /\ SoundTab /\ StoreTypeOK'
  BY DeliveryDelivers DEF ChatInductive, TypeInv, TypeOK
<1>1. OnlyLog(r) /\ r \in DOMAIN runs' /\ ~Known(r)
  BY StartMoves DEF Known
<1>2. runs'[r].cursor \in Nat
  BY <1>0, <1>1 DEF StoreTypeOK, RunState
<1>3. Lacks(down, r)
  BY <1>0, <1>1 DEF Lacks, Holds, Delivering, SoundFrames
<1>4. ~Tailed(r)
  BY <1>1 DEF Tailed, TailsOfOpenLogs, IsOpenLog, Known, Has
<1>5. tab.run # r
  BY <1>0, <1>1, RunIdAssumption DEF SoundTab
<1>6. 0 \in Nat /\ 0 <= runs'[r].cursor
  BY <1>2
<1>7. /\ Delivering'
      /\ \A x : Known(x) => Known(x)' /\ GrowsOnly(x)
      /\ \A x : \A j \in Nat : x # r /\ SoundResume(x, j) => SoundResume(x, j)'
  BY <1>0, <1>1, <1>3, <1>4, <1>5, <1>6, AttachDelivers
<1>8. \A x : \A j \in Nat : SoundResume(x, j) => x # r
  BY <1>1 DEF SoundResume
<1> QED
  BY <1>7, <1>8 DEF LogsPassOn

LEMMA AnswerKeepsDelivery ==
  ASSUME ChatInductive, ChatInductive', TailsOfOpenLogs, Delivery, KnownLogs', Connections',
         GatewayAnswers
  PROVE  Delivery'
<1>0. up \in Seq(Command) /\ up' = up /\ tab' = tab
  BY DEF GatewayAnswers, ChatInductive, TypeInv
<1>1. PICK c \in calls :
        RespondAccepted(c) \/ RunAccepted(c) \/ AbortAccepted(c) \/ Rejected(c)
  BY DEF GatewayAnswers
<1>2. /\ c.socket \in Socket /\ c.run \in RunId
      /\ c.do \in {"run", "abort", "respond"}
  BY DEF ChatInductive, TypeInv, Call
<1>3. << >> \in Seq(NamedFrame) /\ Transients(<< >>)
  BY EmptySeq, TransientsAre
<1>4. LogsPassOn
  <2>1. CASE RespondAccepted(c)
    <3>1. Notify(c.run, c.socket, << >>) /\ link' = link
      BY <2>1 DEF RespondAccepted
    <3>2. LogsKept
      BY <2>1, SameManagerMoves, SameStoreMoves
         DEF RespondAccepted, ClearApproval, storeVars
    <3>3. Appends(c.run, LogEvents \ {"run.started"})
      BY <3>2 DEF Appends
    <3> QED
      BY <1>0, <1>2, <1>3, <3>1, <3>2, <3>3, NotifyPassesOn
  <2>2. CASE RunAccepted(c)
    BY <1>0, <1>2, <2>2, StartDelivers DEF RunAccepted
  <2>3. CASE AbortAccepted(c)
    <3>1. UNCHANGED managerVars /\ tails' = tails /\ link' = link /\ down' = down
      BY <2>3 DEF AbortAccepted
    <3> QED
      BY <1>0, <1>3, <3>1, EmitDelivers
  <2>4. CASE Rejected(c)
    <3>1. c.do \in DOMAIN Rejection
      BY <1>2 DEF Rejection
    <3>2. /\ Transient(Rejection[c.do], "none") \in Seq(NamedFrame)
          /\ Transients(Transient(Rejection[c.do], "none"))
      BY <3>1, RejectionIsNamed, TransientsAre
    <3>3. /\ UNCHANGED managerVars /\ tails' = tails /\ link' = link
          /\ Emit(c.socket, Transient(Rejection[c.do], "none"))
      BY <2>4 DEF Rejected
    <3> QED
      BY <1>0, <3>2, <3>3, EmitDelivers
  <2> QED
    BY <1>1, <2>1, <2>2, <2>3, <2>4
<1>5. \A i \in 1 .. Len(up') : \E j \in 1 .. Len(up) : up'[i] = up[j]
  BY <1>0
<1>6. SoundResumes'
  BY <1>0, <1>4, <1>5, ResumesStaySound, DeliveryDelivers DEF LogsPassOn
<1> QED
  BY <1>0, <1>4, <1>6, ServerKeepsDelivery DEF LogsPassOn

LEMMA BackgroundKeepsDelivery ==
  ASSUME ChatInductive, ChatInductive', TailsOfOpenLogs, Delivery, KnownLogs', Connections',
         Background
  PROVE  Delivery'
<1>0. /\ up \in Seq(Command) /\ up' = up /\ tab' = tab
      /\ tails \in [Socket -> Seq(TailState)] /\ StoreTypeOK
  BY DEF Background, tabVars, ChatInductive, TypeInv, TypeOK
<1>1. << >> \in Seq(NamedFrame) /\ Transients(<< >>)
  BY EmptySeq, TransientsAre
<1>2. LogsPassOn
  <2>1. ASSUME NEW s \in Socket, Disconnect(s)
        PROVE  LogsPassOn
    <3>1. /\ UNCHANGED managerVars /\ down' = down
          /\ link[s] = "gone" /\ link' = [link EXCEPT ![s] = "closed"]
          /\ tails' = [tails EXCEPT ![s] = << >>]
      BY <2>1 DEF Disconnect
    <3>2. LogsKept
      BY <3>1, SameManagerMoves
    <3>3. \A z \in Socket : IsOpen(z)' => IsOpen(z)
      BY <3>1 DEF IsOpen, ChatInductive, TypeInv
    <3>4. TailsKept
      <4>1. runs' = runs
        BY <3>1 DEF managerVars, storeVars
      <4>2. \A z \in Socket : tails'[z] = IF z = s THEN << >> ELSE tails[z]
        BY <1>0, <3>1
      <4>3. Len(<< >>) = 0
        BY EmptySeq
      <4> QED
        BY <4>1, <4>2, <4>3 DEF TailsKept, TailsOfOpenLogs, IsOpenLog, WasTail
    <3> QED
      BY <1>0, <1>1, <3>1, <3>2, <3>3, <3>4, QuietStepDelivers, DeliveryDelivers
  <2>2. ASSUME NEW p \in PumpId, Pumped(p)
        PROVE  LogsPassOn
    <3>1. PumpStep(p) /\ Notify(stream[p].run, "none", << >>) /\ link' = link
      BY <2>2 DEF Pumped
    <3>2. stream[p].run \in RunId /\ stream[p].phase = "streaming"
      BY <3>1, PumpedRunIsARun DEF ChatInductive
    <3>3. Known(stream[p].run)
      BY <3>2, DeliveryDelivers DEF KnownLogs
    <3>4. PICK r \in RunId : r = stream[p].run
      BY <3>2
    <3>5. Appends(r, LogEvents \ {"run.started"})
      BY <3>1, <3>4, PumpMoves DEF Appends
    <3> QED
      BY <1>0, <1>1, <3>1, <3>3, <3>4, <3>5, NotifyPassesOn
  <2>3. ASSUME NEW r \in RunId, Reaped(r)
        PROVE  LogsPassOn
    <3>1. Reap(r) /\ Notify(r, "none", << >>) /\ link' = link
      BY <2>3 DEF Reaped
    <3>2. Known(r)
      <4>1. IsActive(r)
        BY <3>1 DEF Reap, Stale
      <4> QED
        BY <4>1, ActiveIsKnown, DeliveryDelivers DEF ChatInductive
    <3>3. Appends(r, LogEvents \ {"run.started"})
      BY <3>1, CancelMoves DEF Appends
    <3> QED
      BY <1>0, <1>1, <3>1, <3>2, <3>3, NotifyPassesOn
  <2>4. CASE TimePasses
    <3>1. LogsKept /\ link' = link /\ down' = down
      BY <1>0, <2>4, TimeMoves DEF TimePasses
    <3>2. TailsKept
      <4>1. tails' = [s \in Socket |-> Retained(tails[s])]
        BY <2>4 DEF TimePasses
      <4>2. ASSUME NEW s \in Socket, NEW k \in 1 .. Len(tails'[s]), tails'[s][k].live
            PROVE  tails'[s][k].run \in DOMAIN runs' /\ WasTail(tails'[s][k], s)
        <5>1. /\ Len(tails'[s]) = Len(tails[s])
              /\ tails'[s][k].run = tails[s][k].run
              /\ tails'[s][k].gate = tails[s][k].gate
              /\ tails'[s][k].live <=> tails[s][k].live /\ tails[s][k].run \in DOMAIN runs'
          <6>1. tails[s] \in Seq(TailState) /\ tails'[s] = Retained(tails[s])
            BY <1>0, <4>1
          <6>2. Len(tails'[s]) = Len(tails[s])
            BY <6>1, RetainedTails
          <6>3. k \in 1 .. Len(tails[s])
            BY <6>2
          <6> QED
            BY <6>1, <6>2, <6>3, RetainedTails
        <5> QED
          BY <4>2, <5>1 DEF WasTail
      <4> QED
        BY <4>2 DEF TailsKept
    <3>3. \A z \in Socket : IsOpen(z)' => IsOpen(z)
      BY <3>1 DEF IsOpen
    <3> QED
      BY <1>0, <1>1, <3>1, <3>2, <3>3, QuietStepDelivers, DeliveryDelivers
  <2> QED
    BY <2>1, <2>2, <2>3, <2>4 DEF Background
<1>3. \A i \in 1 .. Len(up') : \E j \in 1 .. Len(up) : up'[i] = up[j]
  BY <1>0
<1>4. SoundResumes'
  BY <1>0, <1>2, <1>3, ResumesStaySound, DeliveryDelivers DEF LogsPassOn
<1> QED
  BY <1>0, <1>2, <1>4, ServerKeepsDelivery DEF LogsPassOn

-----------------------------------------------------------------------------
(***************************************************************************)
(* The steps of the user and of the connection.                            *)
(***************************************************************************)
\* The tab stays where it is in its run, or has left it.
StaysOrLeaves ==
  \/ SamePlace(tab, tab')
  \/ /\ tab'.run = None /\ tab'.cursor = 0 /\ tab'.applied = << >> /\ tab'.saved = None

(* The server and the wire are as they were, and only commands go up.      *)
LEMMA UserKeepsDelivery ==
  ASSUME ChatInductive, ChatInductive', Delivery, KnownLogs', Connections',
         (\E r \in RunId : Send(r)) \/ Stop \/ Respond \/ NewChat
  PROVE  Delivery'
<1>0. /\ tab \in NamedTab /\ tab' \in NamedTab /\ up \in Seq(Command)
      /\ KnownLogs /\ Connections /\ Delivering /\ SoundResumes /\ SoundTab
  BY DeliveryDelivers DEF ChatInductive, TypeInv
<1>1. /\ UNCHANGED wireVars
      /\ \A i \in 1 .. Len(up') : IsResume(i)' => i \in 1 .. Len(up) /\ up'[i] = up[i]
  BY UserResumesNothing DEF ChatInductive
<1>2. UNCHANGED managerVars
  BY DEF Send, Stop, Respond, NewChat
<1>3. UNCHANGED <<runs, lost, link, tails, down>>
  BY <1>1, <1>2 DEF managerVars, storeVars, wireVars
<1>4. /\ StaysOrLeaves
      /\ tab'.expecting => tab'.run = None \/ tab.expecting
  <2> USE DEF StaysOrLeaves, SamePlace
  <2>0. tab \in TabState
    BY <1>0 DEF NamedTab
  <2>1. CASE \E r \in RunId : Send(r)
    <3>1. tab' = Issued(tab)
      BY <2>1 DEF Send
    <3> QED
      BY <2>0, <3>1 DEF Issued, TabState
  <2>2. CASE Stop
    BY <2>2 DEF Stop
  <2>3. CASE Respond
    <3>1. tab' = Responded(tab)
      BY <2>3 DEF Respond
    <3> QED
      BY <2>0, <3>1 DEF Responded, TabState
  <2>4. CASE NewChat
    <3>1. tab' = Detached(tab)
      BY <2>4 DEF NewChat
    <3> QED
      BY <2>0, <3>1 DEF Detached, TabState
  <2> QED
    BY <2>1, <2>2, <2>3, <2>4
<1>5. ASSUME NEW x \in RunId
      PROVE  tab'.run = x => tab.run = x /\ tab'.cursor = tab.cursor
  BY <1>4, RunIdAssumption DEF StaysOrLeaves, SamePlace
<1>6. SoundFrames' /\ SoundGates'
  BY <1>0, <1>3 DEF Delivering, SoundFrames, SoundGates, Whole, Known, Has
<1>7. ASSUME NEW x \in RunId, Whole(x)'
      PROVE  Delivered(x)'
  <2>1. Whole(x) /\ Delivered(x)
    BY <1>0, <1>3, <1>7 DEF Whole, Has, Delivering
  <2>2. tab'.run = x => tab.run = x /\ tab'.cursor = tab.cursor
    BY <1>5
  <2>3. Tailed(x)' => Tailed(x)
    BY <1>3 DEF Tailed, IsOpen
  <2> QED
    BY <1>3, <2>1, <2>2, <2>3 DEF Delivered
<1>8. ASSUME NEW x \in RunId, NEW k \in Nat, SoundResume(x, k)
      PROVE  SoundResume(x, k)'
  BY <1>3, <1>5, <1>8 DEF SoundResume, Known, Whole, Has, Tailed, IsOpen
<1>9. SoundResumes'
  <2> SUFFICES ASSUME NEW i \in 1 .. Len(up'), IsResume(i)'
               PROVE  SoundResume(up[i].run, up[i].cursor)'
    BY DEF SoundResumes
  <2>1. i \in 1 .. Len(up) /\ up'[i] = up[i] /\ IsResume(i) /\ up[i] \in Command
    BY <1>0, <1>1, ElementOfSeq DEF IsResume
  <2>2. PICK x \in RunId : x = up[i].run
    BY <2>1 DEF Command
  <2>3. PICK k \in Nat : k = up[i].cursor
    BY <2>1 DEF Command
  <2>4. SoundResume(x, k)'
    BY <1>0, <1>8, <2>1, <2>2, <2>3 DEF SoundResumes
  <2>5. x = up'[i].run /\ k = up'[i].cursor
    BY <2>1, <2>2, <2>3
  <2> QED
    BY <2>4, <2>5 DEF SoundResume, Known, Has, Whole, Tailed, IsOpen
<1>10. SoundTab'
  <2>1. CASE SamePlace(tab, tab')
    BY <1>0, <1>3, <1>4, <2>1 DEF SoundTab, SamePlace, Known, Has, Whole
  <2>2. CASE tab'.run = None /\ tab'.cursor = 0 /\ tab'.applied = << >> /\ tab'.saved = None
    BY <2>2 DEF SoundTab
  <2> QED
    BY <1>4, <2>1, <2>2 DEF StaysOrLeaves
<1> QED
  BY <1>6, <1>7, <1>9, <1>10 DEF Delivery

(* Nobody is connected and nothing is in flight: the tab has a beginning of *)
(* the log, and the rest waits in the log.                                  *)
LEMMA OfflineDelivers ==
  ASSUME StoreTypeOK', tab' \in NamedTab, down' = << >>, ~Online',
         \A i \in 1 .. Len(up') : ~IsResume(i)', SoundGates', SoundTab'
  PROVE  (SoundFrames /\ SoundResumes /\ \A x \in RunId : Whole(x) => Delivered(x))'
<1>1. Len(<< >>) = 0
  BY EmptySeq
<1>2. SoundFrames' /\ SoundResumes'
  BY <1>1 DEF SoundFrames, SoundResumes
<1>3. ASSUME NEW x \in RunId, Whole(x)'
      PROVE  Delivered(x)'
  <2>1. Carries(down', x, 0, 0)
    <3>1. Lacks(down', x)
      BY <1>1 DEF Lacks
    <3> QED
      BY <3>1, CarriesNothing
  <2>2. ~Tailed(x)'
    BY DEF Tailed, Online
  <2>3. runs'[x].cursor \in Nat /\ tab'.cursor \in Nat
    BY <1>3 DEF Whole, Has, StoreTypeOK, RunState, NamedTab, TabState
  <2>4. 0 \in 0 .. runs'[x].cursor /\ 0 \in 0 .. 0 /\ 0 <= tab'.cursor
    BY <2>3
  <2> QED
    BY <2>1, <2>2, <2>4 DEF Delivered
<1> QED
  BY <1>2, <1>3

LEMMA BreakKeepsDelivery ==
  ASSUME ChatInductive, ChatInductive', Delivery, KnownLogs', Connections',
         Lose \/ Reload \/ ServerDies
  PROVE  Delivery'
<1>0. /\ tab \in NamedTab /\ tab' \in NamedTab /\ up \in Seq(Command)
      /\ link \in [Socket -> {"unused", "open", "gone", "closed"}]
      /\ StoreTypeOK /\ StoreTypeOK'
      /\ KnownLogs /\ Connections /\ Delivering /\ SoundTab
  BY DeliveryDelivers DEF ChatInductive, TypeInv, TypeOK
<1>1. Len(<< >>) = 0
  BY EmptySeq
<1>2. /\ down' = << >> /\ ~Online'
      /\ \A i \in 1 .. Len(up') : ~IsResume(i)'
  <2>1. CASE \E s \in Socket : LinkLost(s) /\ up' = << >>
    <3>1. PICK s \in Socket : IsOpen(s) /\ link' = [link EXCEPT ![s] = "gone"] /\ down' = << >>
      BY <2>1 DEF LinkLost
    <3>2. ~Online'
      BY <1>0, <3>1 DEF Online, IsOpen, Connections
    <3> QED
      BY <1>1, <2>1, <3>1, <3>2
  <2>2. CASE ~Online /\ UNCHANGED wireVars /\ up' = << >>
    BY <1>0, <1>1, <2>2 DEF Connections, Online, IsOpen, wireVars
  <2>3. CASE ServerDies
    <3>1. /\ down' = << >>
          /\ link' = [s \in Socket |-> IF link[s] = "unused" THEN "unused" ELSE "closed"]
          /\ up' = IF Online THEN << >> ELSE up
      BY <2>3 DEF ServerDies, ServerCrash
    <3>2. ~Online'
      BY <3>1 DEF Online, IsOpen
    <3>3. \A i \in 1 .. Len(up') : ~IsResume(i)'
      BY <1>0, <1>1, <3>1 DEF Connections, IsResume
    <3> QED
      BY <3>1, <3>2, <3>3
  <2> QED
    BY <2>1, <2>2, <2>3 DEF Lose, Reload
<1>3. CASE Lose \/ Reload
  <2>1. UNCHANGED <<runs, lost, tails>> /\ (tab' = tab \/ tab' = Reloaded(tab))
    BY <1>3 DEF Lose, Reload, LinkLost, managerVars, storeVars, wireVars
  <2>2. SoundGates'
    BY <1>0, <2>1 DEF Delivering, SoundGates, Whole, Has
  <2>3. SoundTab'
    <3>1. CASE tab' = tab
      BY <1>0, <2>1, <3>1 DEF SoundTab, Known, Has, Whole
    <3>2. CASE tab' = Reloaded(tab)
      <4>1. /\ tab'.run = tab.saved /\ tab'.saved = tab.saved
            /\ tab'.cursor = 0 /\ tab'.applied = << >> /\ ~tab'.expecting
        BY <3>2 DEF Reloaded, NewTab
      <4>2. \A x : << >> = [i \in 1 .. 0 |-> <<x, i>>]
        OBVIOUS
      <4>3. Whole(tab.run)' => 0 <= runs'[tab'.run].cursor
        BY <1>0 DEF Whole, Has, StoreTypeOK, RunState
      <4> QED
        BY <1>0, <2>1, <4>1, <4>2, <4>3 DEF SoundTab, Known, Has
    <3> QED
      BY <2>1, <3>1, <3>2
  <2> QED
    BY <1>0, <1>2, <2>2, <2>3, OfflineDelivers DEF Delivery
<1>4. CASE ServerDies
  <2>1. Crash /\ tails' = [s \in Socket |-> << >>] /\ tab' = tab
    BY <1>4 DEF ServerDies, ServerCrash
  <2>2. LogsKept /\ DOMAIN runs' = {}
    BY <1>0, <2>1, CrashKeepsKnown DEF ChatInductive
  <2>3. \A x : Known(x) => Known(x)'
    BY <1>0, <2>2, KnownStays DEF LogsKept
  <2>4. SoundGates'
    BY <1>1, <2>1 DEF SoundGates
  <2>5. SoundTab'
    <3>1. \A x : Known(x) => x \in lost'
      BY <2>2, <2>3 DEF Known, Has
    <3> QED
      BY <1>0, <2>1, <2>2, <3>1 DEF SoundTab, Known, Whole, Has
  <2> QED
    BY <1>0, <1>2, <2>4, <2>5, OfflineDelivers DEF Delivery
<1> QED
  BY <1>3, <1>4

LEMMA ConnectKeepsDelivery ==
  ASSUME ChatInductive, ChatInductive', Delivery, KnownLogs', Connections', Connect
  PROVE  Delivery'
<1>0. /\ tab \in NamedTab /\ StoreTypeOK
      /\ link \in [Socket -> {"unused", "open", "gone", "closed"}]
      /\ KnownLogs /\ Connections /\ Delivering /\ SoundTab
  BY DeliveryDelivers DEF ChatInductive, TypeInv, TypeOK
<1>1. /\ ~Online /\ down' = << >> /\ down = << >>
      /\ UNCHANGED <<tab, tails, runs, lost>>
      /\ \E s \in Socket : /\ link[s] = "unused" /\ tails[s] = << >>
                           /\ link' = [link EXCEPT ![s] = "open"]
      /\ \A i \in 1 .. Len(up') : IsResume(i)' =>
           /\ tab.run \in RunId
           /\ up'[i].run = tab.run /\ up'[i].cursor = tab.cursor
  BY <1>0, ConnectUnfolded DEF ChatInductive, managerVars, storeVars
<1>2. Len(<< >>) = 0
  BY EmptySeq
<1>3. \A x : ~Tailed(x)'
  <2>1. PICK s \in Socket : tails[s] = << >> /\ link' = [link EXCEPT ![s] = "open"]
    BY <1>1
  <2>2. \A z \in Socket : IsOpen(z)' => z = s
    BY <1>0, <1>1, <2>1 DEF Online, IsOpen
  <2> QED
    BY <1>1, <1>2, <2>1, <2>2 DEF Tailed, IsOpen
<1>4. SoundFrames' /\ SoundGates' /\ SoundTab'
  BY <1>0, <1>1, <1>2 DEF Delivering, SoundFrames, SoundGates, SoundTab, Whole, Known, Has
<1>5. \A x \in RunId : Whole(x)' => Delivered(x)'
  BY <1>0, <1>1, <1>3 DEF Delivering, Delivered, Whole, Has
<1>6. SoundResumes'
  <2> SUFFICES ASSUME NEW i \in 1 .. Len(up'), IsResume(i)'
               PROVE  SoundResume(up[i].run, up[i].cursor)'
    BY DEF SoundResumes
  <2>1. PICK x \in RunId : x = tab.run
    BY <1>1
  <2>2. PICK k : k = tab.cursor
    OBVIOUS
  <2>3. x = up'[i].run /\ k = up'[i].cursor
    BY <1>1, <2>1, <2>2
  <2>4. Known(x)' /\ (Whole(x)' => k <= runs'[x].cursor)
    BY <1>0, <1>1, <2>1, <2>2, RunIdAssumption DEF SoundTab, Known, Whole, Has
  <2>5. Lacks(down', x)
    BY <1>1, <1>2 DEF Lacks
  <2>6. SoundResume(x, k)'
    BY <1>1, <1>3, <2>1, <2>2, <2>4, <2>5 DEF SoundResume
  <2> QED
    BY <2>3, <2>6 DEF SoundResume, Known, Has, Whole, Tailed, IsOpen
<1> QED
  BY <1>4, <1>5, <1>6 DEF Delivery

-----------------------------------------------------------------------------
(***************************************************************************)
(* The tab takes a frame.                                                  *)
(***************************************************************************)
(* The transcript of a tab that takes the event its place is before.       *)
LEMMA NextApplied ==
  ASSUME NEW a \in Nat, NEW x, NEW ap, ap = [i \in 1 .. a |-> <<x, i>>]
  PROVE  Append(ap, <<x, a + 1>>) = [i \in 1 .. a + 1 |-> <<x, i>>]
<1> DEFINE S == {x} \X Nat
           ex == Append(ap, <<x, a + 1>>)
           all == [i \in 1 .. a + 1 |-> <<x, i>>]
<1>1. ap \in Seq(S) /\ Len(ap) = a
  <2>1. ap \in [1 .. a -> S]
    OBVIOUS
  <2> QED
    BY <2>1
<1>2. <<x, a + 1>> \in S
  OBVIOUS
<1>3. /\ ex \in Seq(S) /\ Len(ex) = a + 1
      /\ \A i \in 1 .. a : ex[i] = ap[i]
      /\ ex[a + 1] = <<x, a + 1>>
  BY <1>1, <1>2, AppendProperties
<1>4. \A i \in 1 .. a + 1 : ex[i] = <<x, i>>
  <2> TAKE i \in 1 .. a + 1
  <2>1. CASE i \in 1 .. a
    BY <1>3, <2>1
  <2>2. CASE i = a + 1
    BY <1>3, <2>2
  <2> QED
    BY <2>1, <2>2
<1>5. /\ all \in Seq(S) /\ Len(all) = a + 1
      /\ \A i \in 1 .. a + 1 : all[i] = <<x, i>>
  <2>1. all \in [1 .. a + 1 -> S]
    OBVIOUS
  <2> QED
    BY <2>1
<1> HIDE DEF ex, all, S
<1>6. ex = all
  BY <1>3, <1>4, <1>5, SeqEqual
<1> QED
  BY <1>6 DEF ex, all

LEMMA ReceiveKeepsDelivery ==
  ASSUME ChatInductive, ChatInductive', Delivery, KnownLogs', Connections', Receive
  PROVE  Delivery'
<1>0. /\ tab \in NamedTab /\ tab' \in NamedTab /\ up \in Seq(Command)
      /\ down \in Seq(NamedFrame) /\ StoreTypeOK
      /\ KnownLogs /\ Connections /\ Delivering /\ SoundResumes /\ SoundTab
  BY DeliveryDelivers DEF ChatInductive, TypeInv, TypeOK
<1>1. /\ down # << >> /\ down' = Tail(down)
      /\ UNCHANGED <<runs, lost, link, tails, up>>
      /\ tab' = Received(tab, Head(down))
  BY DEF Receive, managerVars, storeVars
<1>2. PICK f \in NamedFrame : f = down[1] /\ f = Head(down)
  BY <1>0, <1>1, TailFrames
<1>3. /\ Len(down) \in Nat /\ 1 \in 1 .. Len(down)
      /\ \A i \in 1 .. Len(down') : i + 1 \in 1 .. Len(down) /\ down'[i] = down[i + 1]
      /\ f.cursor \in Nat
  BY <1>0, <1>1, <1>2, TailFrames
<1>4. SoundFrame(f) /\ (f.cursor > 0 => Known(f.run))
  BY <1>0, <1>2, <1>3 DEF Delivering, SoundFrames
<1>5. PICK t \in NamedTab : t = tab
  BY <1>0
<1>6. PICK u \in NamedTab : u = tab' /\ u = Received(t, f)
  BY <1>0, <1>1, <1>2, <1>5
<1>7. t.expecting => t.run = None /\ t.cursor = 0
  BY <1>0, <1>5 DEF SoundTab
<1>8. \/ SamePlace(t, u) /\ (f.cursor > 0 /\ f.run = t.run => f.cursor <= t.cursor)
      \/ TookEvent(t, f, u)
  BY <1>4, <1>6, <1>7, ReceivedMovesPlace
<1>9. /\ t.cursor \in Nat /\ u.cursor \in Nat
  BY DEF NamedTab, TabState
<1>10. SoundFrames' /\ SoundGates'
  BY <1>0, <1>1, <1>3 DEF Delivering, SoundFrames, SoundGates, Whole, Known, Has
<1>11. ASSUME NEW x, ~Holds(down, 1, x)
       PROVE  \A a, b \in Nat : Carries(down, x, a, b) => Carries(down', x, a, b)
  BY <1>0, <1>1, <1>11, CarriesAfterOther
<1>12. ASSUME NEW x, Holds(down, 1, x), NEW a \in Nat, NEW b \in Nat, Carries(down, x, a, b)
       PROVE  f.cursor = a + 1 /\ a + 1 <= b /\ Carries(down', x, a + 1, b)
  BY <1>0, <1>1, <1>2, <1>12, CarriesAfterOwn
<1>13. ASSUME NEW x \in RunId, Whole(x)
       PROVE  \E b \in 0 .. runs[x].cursor : \E a \in 0 .. b :
                /\ a \in Nat /\ b \in Nat /\ runs[x].cursor \in Nat
                /\ Carries(down, x, a, b)
                /\ t.run = x => a <= t.cursor
                /\ Tailed(x) => b = runs[x].cursor
  <2>1. runs[x].cursor \in Nat
    BY <1>0, <1>13 DEF Whole, Has, StoreTypeOK, RunState
  <2>2. Delivered(x)
    BY <1>0, <1>13 DEF Delivering
  <2>3. \A b \in 0 .. runs[x].cursor : b \in Nat /\ \A a \in 0 .. b : a \in Nat
    BY <2>1
  <2> QED
    BY <1>5, <2>1, <2>2, <2>3 DEF Delivered
<1>14. ASSUME NEW x \in RunId, Whole(x)'
       PROVE  Delivered(x)'
  <2>0. Whole(x)
    BY <1>1, <1>14 DEF Whole, Has
  <2>1. PICK b \in 0 .. runs[x].cursor : \E a \in 0 .. b :
           /\ a \in Nat /\ b \in Nat /\ runs[x].cursor \in Nat
           /\ Carries(down, x, a, b)
           /\ t.run = x => a <= t.cursor
           /\ Tailed(x) => b = runs[x].cursor
    BY <1>13, <2>0
  <2>2. PICK a \in 0 .. b :
           /\ a \in Nat /\ b \in Nat /\ runs[x].cursor \in Nat
           /\ Carries(down, x, a, b)
           /\ t.run = x => a <= t.cursor
           /\ Tailed(x) => b = runs[x].cursor
    BY <2>1
  <2>3. Tailed(x)' => b = runs'[x].cursor
    BY <1>1, <2>2 DEF Tailed, IsOpen
  <2>4. b \in 0 .. runs'[x].cursor
    BY <1>1
  <2>5. CASE ~Holds(down, 1, x)
    <3>1. Carries(down', x, a, b)
      BY <1>11, <2>2, <2>5
    <3>2. tab'.run = x => a <= tab'.cursor
      <4>1. ~TookEvent(t, f, u) \/ u.run # x
        BY <1>2, <1>9, <2>5 DEF TookEvent, Holds
      <4> QED
        BY <1>6, <1>8, <2>2, <4>1 DEF SamePlace
    <3> QED
      BY <2>3, <2>4, <3>1, <3>2 DEF Delivered
  <2>6. CASE Holds(down, 1, x)
    <3>1. f.cursor = a + 1 /\ a + 1 <= b /\ Carries(down', x, a + 1, b)
      BY <1>12, <2>2, <2>6
    <3>2. f.run = x /\ f.cursor > 0
      BY <1>2, <2>6 DEF Holds
    <3>3. tab'.run = x => a + 1 <= tab'.cursor
      <4>1. CASE SamePlace(t, u) /\ (f.cursor > 0 /\ f.run = t.run => f.cursor <= t.cursor)
        BY <1>6, <3>1, <3>2, <4>1 DEF SamePlace
      <4>2. CASE TookEvent(t, f, u)
        BY <1>6, <2>2, <3>1, <4>2 DEF TookEvent
      <4> QED
        BY <1>8, <4>1, <4>2
    <3>4. a + 1 \in 0 .. b
      BY <2>2, <3>1
    <3> QED
      BY <2>3, <2>4, <3>1, <3>3, <3>4 DEF Delivered
  <2> QED
    BY <2>5, <2>6
<1>15. ASSUME NEW x, NEW k, SoundResume(x, k)
       PROVE  SoundResume(x, k)'
  <2> SUFFICES ASSUME Whole(x)'
               PROVE  /\ k <= runs'[x].cursor
                      /\ tab'.run = x => k = tab'.cursor
                      /\ Lacks(down', x)
                      /\ ~Tailed(x)'
    BY <1>1, <1>15 DEF SoundResume, Known, Has
  <2>1. /\ k <= runs[x].cursor
        /\ t.run = x => k = t.cursor
        /\ Lacks(down, x)
        /\ ~Tailed(x)
    BY <1>1, <1>5, <1>15 DEF SoundResume, Whole, Has
  <2>2. Lacks(down', x)
    BY <1>3, <2>1 DEF Lacks, Holds
  <2>3. ~(f.run = x /\ f.cursor > 0)
    BY <1>2, <1>3, <2>1 DEF Lacks, Holds
  <2>4. tab'.run = x => k = tab'.cursor
    <3>1. ~TookEvent(t, f, u) \/ u.run # x
      BY <1>9, <1>3, <2>3 DEF TookEvent
    <3> QED
      BY <1>6, <1>8, <2>1, <3>1 DEF SamePlace
  <2> QED
    BY <1>1, <2>1, <2>2, <2>4 DEF Tailed, IsOpen
<1>16. SoundResumes'
  <2> SUFFICES ASSUME NEW i \in 1 .. Len(up'), IsResume(i)'
               PROVE  SoundResume(up[i].run, up[i].cursor)'
    BY DEF SoundResumes
  <2>1. PICK x : x = up[i].run /\ x = up'[i].run
    BY <1>1
  <2>2. PICK k : k = up[i].cursor /\ k = up'[i].cursor
    BY <1>1
  <2>3. SoundResume(x, k)
    BY <1>0, <1>1, <2>1, <2>2 DEF SoundResumes, IsResume
  <2>4. SoundResume(x, k)'
    BY <1>15, <2>3
  <2> QED
    BY <2>1, <2>2, <2>4 DEF SoundResume, Known, Has, Whole, Tailed, IsOpen
<1>17. SoundTab'
  <2>1. CASE SamePlace(t, u)
    BY <1>0, <1>1, <1>5, <1>6, <2>1 DEF SoundTab, SamePlace, Known, Has, Whole
  <2>2. CASE TookEvent(t, f, u)
    <3>1. f.cursor > 0 /\ u.run = f.run /\ u.cursor = f.cursor /\ ~u.expecting
      BY <1>3, <1>9, <2>2 DEF TookEvent
    <3>2. f.run \in RunId /\ Known(f.run)
      BY <1>4, <3>1 DEF SoundFrame
    <3>3. u.run # None /\ u.saved \in {f.run, None}
      BY <2>2, <3>1, <3>2, RunIdAssumption DEF TookEvent
    <3>4. ASSUME Whole(f.run)
          PROVE  /\ u.cursor <= runs[f.run].cursor
                 /\ u.applied = [i \in 1 .. u.cursor |-> <<f.run, i>>]
      <4>1. PICK x \in RunId : x = f.run
        BY <3>2
      <4>2. Holds(down, 1, x)
        BY <1>2, <3>1, <4>1 DEF Holds
      <4>3. PICK b \in 0 .. runs[x].cursor : \E a \in 0 .. b :
              /\ a \in Nat /\ b \in Nat /\ runs[x].cursor \in Nat
              /\ Carries(down, x, a, b)
              /\ t.run = x => a <= t.cursor
        BY <1>13, <3>4, <4>1
      <4>4. PICK a \in 0 .. b :
              /\ a \in Nat /\ b \in Nat /\ runs[x].cursor \in Nat
              /\ Carries(down, x, a, b)
              /\ t.run = x => a <= t.cursor
        BY <4>3
      <4>5. f.cursor = a + 1 /\ a + 1 <= b
        BY <1>12, <4>2, <4>4
      <4>6. t.cursor = a /\ t.applied = [i \in 1 .. a |-> <<x, i>>]
        <5>1. CASE t.run = x
          <6>1. t.cursor = a
            BY <1>9, <2>2, <4>4, <4>5, <5>1 DEF TookEvent
          <6>2. t.applied = [i \in 1 .. t.cursor |-> <<t.run, i>>]
            BY <1>0, <1>5, <3>4, <4>1, <5>1, RunIdAssumption DEF SoundTab
          <6> QED
            BY <5>1, <6>1, <6>2
        <5>2. CASE t.run # x
          <6>1. t.expecting /\ f.event = "run.started"
            BY <2>2, <4>1, <5>2 DEF TookEvent
          <6>2. t.cursor = 0 /\ t.applied = << >>
            BY <1>0, <1>5, <6>1 DEF SoundTab
          <6>3. a = 0
            BY <1>4, <4>4, <4>5, <6>1 DEF SoundFrame
          <6>4. << >> = [i \in 1 .. 0 |-> <<x, i>>]
            OBVIOUS
          <6> QED
            BY <6>2, <6>3, <6>4
        <5> QED
          BY <5>1, <5>2
      <4>7. u.applied = Append(t.applied, <<x, a + 1>>)
        BY <2>2, <4>1, <4>5 DEF TookEvent
      <4>8. u.applied = [i \in 1 .. a + 1 |-> <<x, i>>]
        <5>1. PICK ap : ap = t.applied
          OBVIOUS
        <5>2. a \in Nat /\ ap = [i \in 1 .. a |-> <<x, i>>]
          BY <4>4, <4>6, <5>1
        <5>3. Append(ap, <<x, a + 1>>) = [i \in 1 .. a + 1 |-> <<x, i>>]
          BY <5>2, NextApplied
        <5> QED
          BY <4>7, <5>1, <5>3
      <4>9. u.cursor = a + 1 /\ a + 1 <= runs[x].cursor
        BY <3>1, <4>4, <4>5
      <4> QED
        BY <4>1, <4>8, <4>9
    <3> QED
      BY <1>1, <1>6, <3>1, <3>2, <3>3, <3>4 DEF SoundTab, Known, Has, Whole
  <2> QED
    BY <1>8, <2>1, <2>2
<1> QED
  BY <1>10, <1>14, <1>16, <1>17 DEF Delivery

-----------------------------------------------------------------------------
(***************************************************************************)
(* The theorem.                                                            *)
(***************************************************************************)
LEMMA StepKeepsDelivery ==
  ASSUME ChatInductive, ChatInductive', TailsOfOpenLogs, Delivery, [SystemNext]_vars
  PROVE  Delivery'
<1>0. KnownLogs' /\ Connections'
  <2>1. [ManagerNext]_managerVars
    BY StepMaps DEF ChatInductive
  <2> QED
    BY <2>1, ManagerKeepsKnown, StepKeepsConnections DEF ChatInductive, Delivery
<1>1. CASE UNCHANGED vars
  BY <1>1 DEF vars, managerVars, storeVars, wireVars, tabVars, Delivery, KnownLogs, Known, Has,
              Connections, Online, IsOpen, IsResume, SoundFrames, SoundGates, Whole, Delivered,
              Tailed, SoundResumes, SoundResume, SoundTab
<1>2. CASE (\E r \in RunId : Send(r)) \/ Stop \/ Respond \/ NewChat
  BY <1>0, <1>2, UserKeepsDelivery
<1>3. CASE Lose \/ Reload \/ ServerDies
  BY <1>0, <1>3, BreakKeepsDelivery
<1>4. CASE Connect
  BY <1>0, <1>4, ConnectKeepsDelivery
<1>5. CASE Deliver
  BY <1>0, <1>5, DeliverKeepsDelivery
<1>6. CASE Receive
  BY <1>0, <1>6, ReceiveKeepsDelivery
<1>7. CASE GatewayAnswers
  BY <1>0, <1>7, AnswerKeepsDelivery
<1>8. CASE Background
  BY <1>0, <1>8, BackgroundKeepsDelivery
<1> QED
  BY <1>1, <1>2, <1>3, <1>4, <1>5, <1>6, <1>7, <1>8 DEF SystemNext

LEMMA InitDelivery == SystemInit => Delivery
<1> SUFFICES ASSUME SystemInit PROVE Delivery
  OBVIOUS
<1>1. /\ DOMAIN runs = {} /\ lost = {}
      /\ \A p \in PumpId : stream[p].phase = "unused"
      /\ \A s \in Socket : link[s] = "unused" /\ tails[s] = << >>
      /\ calls = {} /\ down = << >> /\ up = << >> /\ tab = NewTab
  BY DEF SystemInit, ManagerInit, StoreInit, NoRuns, WireInit
<1>2. Len(<< >>) = 0
  BY EmptySeq
<1> QED
  BY <1>1, <1>2 DEF Delivery, KnownLogs, Connections, Online, IsOpen, SoundFrames, SoundGates,
                    Whole, Has, SoundResumes, SoundTab, NewTab

LEMMA DeliveryIsEveryEventOnce == Delivery => EveryEventOnce
BY DEF Delivery, SoundTab, EveryEventOnce, Known, Whole, Has

(* Exactly once (chatRun.ts 148-193, chatSocket.ts 266-271, 463-469): in   *)
(* every state of the chat, the transcript of the tab is the log of its    *)
(* run up to the anchor, every event once and in order, and nothing of     *)
(* another run.                                                            *)
THEOREM TranscriptIsTheLog == SystemSpec => []EveryEventOnce
<1> DEFINE Inv == ChatInductive /\ TailsOfOpenLogs /\ Delivery
<1>1. SystemInit => Inv
  BY InitTypes, InitTails, InitDelivery
<1>2. Inv /\ [SystemNext]_vars => Inv'
  BY StepKeepsInductive, StepKeepsOpen, StepKeepsDelivery
<1>3. Inv => EveryEventOnce
  BY DeliveryIsEveryEventOnce
<1> QED
  BY <1>1, <1>2, <1>3, PTL DEF SystemSpec
=============================================================================
