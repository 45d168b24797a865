------------------------ MODULE ConversationsProofs ------------------------
(***************************************************************************)
(* The conversation of the tab and its queue, for any number of sessions,  *)
(* messages and moves: the queue flushes one message per run and never     *)
(* into a chat other than the one on screen, a slow transcript is shown    *)
(* only if it is still the choice, and the URL names the chat.             *)
(*                                                                         *)
(* An event hands a queue q and messages ms to the effects.  Every action  *)
(* is shown to hand over a pair that is Ready, and the effects to make the *)
(* invariants of the queue out of any such pair.                           *)
(***************************************************************************)
EXTENDS Conversations, FiniteSetTheorems, SequenceTheorems, TLAPS

FlushesOf(ms) ==
  {m \in Message : ms[m].queued /\ ms[m].phase \notin {"queued", "dropped"}}

AdoptedOf(ms) == {m \in Message : ms[m].adopted}

\* The queue holds each message that is queued, once.
QueueOf(q, ms) ==
  /\ ms \in [Message -> MessageState]
  /\ q \in Seq(Message)
  /\ \A m \in Message : ms[m].phase = "queued" <=> \E i \in 1 .. Len(q) : q[i] = m
  /\ \A i, j \in 1 .. Len(q) : q[i] = q[j] => i = j
  /\ \A m \in Message : ms[m].adopted => ms[m].phase \in {"live", "over"}

TypedIn(ms, s) ==
  \A m \in Message : ms[m].phase = "queued" => ms[m].typed \in {None, s}

\* The composer may flush (it is armed, or a run in flight will arm it) only if
\* more runs have been in flight than messages were flushed.
Paid(q, ms, st) ==
  /\ Cardinality(FlushesOf(ms)) <= Cardinality(AdoptedOf(ms))
  /\ st = "running" \/ (armed /\ q # << >>) =>
       Cardinality(FlushesOf(ms)) < Cardinality(AdoptedOf(ms))

Ready(q, ms) == QueueOf(q, ms) /\ TypedIn(ms, conv) /\ Paid(q, ms, status')

QueueInv ==
  /\ QueueOf(queue, msg)
  /\ conv = active
  /\ TypedIn(msg, active)
  /\ Paid(queue, msg, status)

LoadsAreMoves == \A s \in Session : loads[s] <= moves

\* The URL is what was asked for, or the bare route, which shows no session.
UrlIsConsumed ==
  /\ url = consumed \/ url = None
  /\ url = None => active = None

\* What was asked for is on screen or under way.
ShownOrLoading ==
  ~astray => consumed = active \/ (consumed # None /\ loads[consumed] > 0)

ChoiceIsConsumed == choice = consumed

RouteType ==
  /\ url \in Session \cup {None}
  /\ consumed \in Session \cup {None}
  /\ loads \in [Session -> 0 .. MaxMoves]
  /\ choice \in Session \cup {None}
  /\ moves \in 0 .. MaxMoves

ChatType ==
  /\ active \in Session \cup {None}
  /\ {empty, error, disabled, expecting, armed, astray, reshown, cancelled} \subseteq BOOLEAN
  /\ status \in {"idle", "running"}
  /\ following \in Message \cup {None}

RouteInv ==
  /\ RouteType /\ LoadsAreMoves
  /\ UrlIsConsumed /\ ShownOrLoading /\ ChoiceIsConsumed

ConvInv == ChatType /\ RouteInv /\ QueueInv

-----------------------------------------------------------------------------
\* The effects on the queue.

LEMMA CountsAreNat ==
  ASSUME NEW ms
  PROVE  /\ IsFiniteSet(FlushesOf(ms)) /\ Cardinality(FlushesOf(ms)) \in Nat
         /\ IsFiniteSet(AdoptedOf(ms)) /\ Cardinality(AdoptedOf(ms)) \in Nat
<1>1. IsFiniteSet(FlushesOf(ms)) /\ IsFiniteSet(AdoptedOf(ms))
  BY ConversationAssumption, FS_Subset DEF FlushesOf, AdoptedOf
<1> QED
  BY <1>1, FS_CardinalityType

LEMMA PastIsMessage ==
  ASSUME NEW x \in MessageState, NEW p \in {"dropped", "live", "over"}
  PROVE  /\ Past(x, p) \in MessageState
         /\ Past(x, p).phase = p
         /\ Past(x, p).queued = x.queued
         /\ Past(x, p).session = x.session
         /\ Past(x, p).adopted = x.adopted
BY DEF Past, MessageState

\* A queue that is left behind takes its messages with it.
LEMMA LeavingKeepsTheQueue ==
  ASSUME NEW q, NEW ms, Ready(q, ms),
         conv' = active', queue' = << >>, msg' = Dropped(q, ms), armed' = TRUE
  PROVE  QueueInv'
<1>1. ms \in [Message -> MessageState]
  BY DEF Ready, QueueOf
<1>2. \A m \in Message :
        msg'[m] = IF ms[m].phase = "queued" THEN Past(ms[m], "dropped") ELSE ms[m]
  BY DEF Dropped
<1>3. msg' \in [Message -> MessageState]
  <2>1. \A m \in Message : msg'[m] \in MessageState
    BY <1>1, <1>2, PastIsMessage
  <2> QED
    BY <2>1 DEF Dropped
<1>4. \A m \in Message :
        /\ msg'[m].queued = ms[m].queued
        /\ msg'[m].adopted = ms[m].adopted
        /\ msg'[m].phase = IF ms[m].phase = "queued" THEN "dropped" ELSE ms[m].phase
  BY <1>1, <1>2, PastIsMessage
<1>5. /\ msg' \in [Message -> MessageState]
      /\ \A m \in Message : /\ msg'[m].phase # "queued"
                            /\ msg'[m].adopted = ms[m].adopted
                            /\ msg'[m].adopted => msg'[m].phase \in {"live", "over"}
  BY <1>3, <1>4 DEF Ready, QueueOf
<1>6. QueueOf(queue, msg)'
  BY <1>5 DEF QueueOf
<1>7. FlushesOf(msg') = FlushesOf(ms) /\ AdoptedOf(msg') = AdoptedOf(ms)
  BY <1>4 DEF FlushesOf, AdoptedOf
<1>8. Paid(queue, msg, status)'
  BY <1>7 DEF Paid, Ready
<1> QED
  BY <1>5, <1>6, <1>8 DEF QueueInv, TypedIn

\* A flush is paid for by the run that has armed the queue.
LEMMA FlushingKeepsTheQueue ==
  ASSUME NEW q, NEW ms, Ready(q, ms), conv' = active', conv \in {None, active'},
         Flushed(q, ms), status' # "running", armed, q # << >>
  PROVE  QueueInv'
<1>0. /\ q \in Seq(Message) /\ ms \in [Message -> MessageState]
      /\ Head(q) = q[1] /\ Head(q) \in Message
      /\ Tail(q) \in Seq(Message)
      /\ Len(q) \in Nat \ {0} /\ Len(Tail(q)) = Len(q) - 1
      /\ \A i \in 1 .. Len(Tail(q)) : Tail(q)[i] = q[i + 1]
  BY HeadTailProperties, EmptySeq, LenProperties DEF Ready, QueueOf
<1>1. /\ msg' \in [Message -> MessageState]
      /\ msg'[Head(q)].phase = "held"
      /\ \A m \in Message :
           /\ m # Head(q) => msg'[m].phase = ms[m].phase
           /\ msg'[m].adopted = ms[m].adopted
           /\ msg'[m].queued = ms[m].queued
           /\ msg'[m].typed = ms[m].typed
  BY <1>0 DEF Flushed, MessageState
<1>2. ms[Head(q)].phase = "queued" /\ ~ms[Head(q)].adopted
  BY <1>0 DEF Ready, QueueOf
<1>3. QueueOf(queue, msg)'
  <2>1. queue' \in Seq(Message) /\ queue' = Tail(q)
    BY <1>0 DEF Flushed
  <2>2. \A i, j \in 1 .. Len(queue') : queue'[i] = queue'[j] => i = j
    <3> SUFFICES ASSUME NEW i \in 1 .. Len(queue'), NEW j \in 1 .. Len(queue'),
                        queue'[i] = queue'[j]
                 PROVE  i = j
      OBVIOUS
    <3>1. q[i + 1] = q[j + 1] /\ i + 1 \in 1 .. Len(q) /\ j + 1 \in 1 .. Len(q)
      BY <2>1, <1>0
    <3> QED
      BY <3>1 DEF Ready, QueueOf
  <2>3. ASSUME NEW m \in Message
        PROVE  msg'[m].phase = "queued" <=> \E i \in 1 .. Len(queue') : queue'[i] = m
    <3>1. CASE m = Head(q)
      <4>1. \A i \in 1 .. Len(queue') : queue'[i] = q[i + 1] /\ i + 1 \in 1 .. Len(q)
                                        /\ i + 1 # 1 /\ 1 \in 1 .. Len(q)
        BY <2>1, <1>0
      <4>2. \A i \in 1 .. Len(queue') : queue'[i] # m
        BY <3>1, <4>1, <1>0 DEF Ready, QueueOf
      <4> QED
        BY <4>2, <3>1, <1>1
    <3>2. CASE m # Head(q)
      <4>1. msg'[m].phase = "queued" <=> \E i \in 1 .. Len(q) : q[i] = m
        BY <3>2, <1>1 DEF Ready, QueueOf
      <4>2. ASSUME NEW i \in 1 .. Len(q), q[i] = m
            PROVE  \E j \in 1 .. Len(queue') : queue'[j] = m
        <5>1. i # 1 /\ i - 1 \in 1 .. Len(queue') /\ queue'[i - 1] = q[i - 1 + 1]
          BY <4>2, <3>2, <2>1, <1>0
        <5> QED
          BY <5>1, <4>2, <1>0
      <4>3. ASSUME NEW j \in 1 .. Len(queue'), queue'[j] = m
            PROVE  \E i \in 1 .. Len(q) : q[i] = m
        <5>1. j + 1 \in 1 .. Len(q) /\ q[j + 1] = m
          BY <4>3, <2>1, <1>0
        <5> QED
          BY <5>1
      <4> QED
        BY <4>1, <4>2, <4>3
    <3> QED
      BY <3>1, <3>2
  <2>4. \A m \in Message : msg'[m].adopted => msg'[m].phase \in {"live", "over"}
    BY <1>1, <1>2 DEF Ready, QueueOf
  <2> QED
    BY <1>1, <2>1, <2>2, <2>3, <2>4 DEF QueueOf
<1>4. Paid(queue, msg, status)'
  <2>1. AdoptedOf(msg') = AdoptedOf(ms)
    BY <1>1 DEF AdoptedOf
  <2>2. FlushesOf(msg') \subseteq FlushesOf(ms) \cup {Head(q)}
    BY <1>1 DEF FlushesOf
  <2>3. IsFiniteSet(FlushesOf(ms) \cup {Head(q)})
        /\ Cardinality(FlushesOf(ms) \cup {Head(q)}) <= Cardinality(FlushesOf(ms)) + 1
    <3>1. IsFiniteSet(FlushesOf(ms)) /\ Cardinality(FlushesOf(ms)) \in Nat
      BY CountsAreNat
    <3>2. \A F, x : IsFiniteSet(F) =>
            /\ IsFiniteSet(F \cup {x})
            /\ Cardinality(F \cup {x}) = IF x \in F THEN Cardinality(F) ELSE Cardinality(F) + 1
      BY FS_AddElement
    <3>3. IsFiniteSet(FlushesOf(ms) \cup {Head(q)})
          /\ \/ Cardinality(FlushesOf(ms) \cup {Head(q)}) = Cardinality(FlushesOf(ms))
             \/ Cardinality(FlushesOf(ms) \cup {Head(q)}) = Cardinality(FlushesOf(ms)) + 1
      BY <3>1, <3>2, Zenon
    <3> QED
      BY <3>1, <3>3
  <2>4. Cardinality(FlushesOf(msg')) <= Cardinality(FlushesOf(ms) \cup {Head(q)})
    BY <2>2, <2>3, FS_Subset
  <2>5. Cardinality(FlushesOf(ms) \cup {Head(q)}) \in Nat
    BY <2>3, FS_CardinalityType
  <2>6. Cardinality(FlushesOf(ms)) < Cardinality(AdoptedOf(ms))
    BY DEF Ready, Paid
  <2>7. Cardinality(FlushesOf(msg')) <= Cardinality(AdoptedOf(msg'))
    BY <2>1, <2>3, <2>4, <2>5, <2>6, CountsAreNat
  <2>8. status' # "running" /\ armed' = FALSE
    BY DEF Flushed
  <2> QED
    BY <2>7, <2>8 DEF Paid
<1>5. TypedIn(msg, active)'
  BY <1>1, <1>0 DEF TypedIn, Ready
<1> QED
  BY <1>3, <1>4, <1>5 DEF QueueInv

\* The effects make the invariants of the queue out of any pair that is Ready.
LEMMA EffectKeepsTheQueue ==
  ASSUME NEW q, NEW ms, Ready(q, ms), QueueEffect(q, ms), armed \in BOOLEAN
  PROVE  QueueInv' /\ armed' \in BOOLEAN
<1>1. CASE LeavesChat
  BY <1>1, LeavingKeepsTheQueue DEF QueueEffect
<1>2. CASE ~LeavesChat /\ status' = "running"
  <2>1. queue' = q /\ msg' = ms /\ armed' = TRUE /\ conv' = active' /\ conv \in {None, active'}
    BY <1>2 DEF QueueEffect, LeavesChat
  <2> QED
    BY <2>1, <1>2 DEF QueueInv, Ready, TypedIn, Paid
<1>3. CASE ~LeavesChat /\ status' # "running" /\ CanFlush' /\ armed /\ q # << >>
  BY <1>3, FlushingKeepsTheQueue DEF QueueEffect, LeavesChat, Flushed
<1>4. CASE ~LeavesChat /\ status' # "running" /\ ~(CanFlush' /\ armed /\ q # << >>)
  <2>1. queue' = q /\ msg' = ms /\ armed' = armed /\ conv' = active' /\ conv \in {None, active'}
    BY <1>4 DEF QueueEffect, LeavesChat
  <2> QED
    BY <2>1, <1>4 DEF QueueInv, Ready, TypedIn, Paid
<1> QED
  BY <1>1, <1>2, <1>3, <1>4

-----------------------------------------------------------------------------
\* What the events hand over.

LEMMA SmallerIsSmaller ==
  ASSUME NEW S, NEW T, IsFiniteSet(T), S \subseteq T
  PROVE  Cardinality(S) <= Cardinality(T) /\ Cardinality(S) \in Nat
         /\ Cardinality(T) \in Nat /\ (S # T => Cardinality(S) < Cardinality(T))
<1>1. IsFiniteSet(S) /\ Cardinality(S) <= Cardinality(T)
      /\ (Cardinality(T) = Cardinality(S) => S = T)
  BY FS_Subset
<1>2. Cardinality(S) \in Nat /\ Cardinality(T) \in Nat
  BY <1>1, FS_CardinalityType
<1> QED
  BY <1>1, <1>2

\* Only a message that is not queued changes, and it does not become queued.
LEMMA ReplacedStaysQueued ==
  ASSUME QueueInv, NEW m \in Message, NEW x \in MessageState,
         msg[m].phase \notin {"queued", "dropped"}, x.phase # "queued",
         x.queued => msg[m].queued, msg[m].adopted => x.adopted,
         x.adopted => x.phase \in {"live", "over"},
         NEW ms, ms = [msg EXCEPT ![m] = x]
  PROVE  /\ QueueOf(queue, ms) /\ TypedIn(ms, conv)
         /\ FlushesOf(ms) \subseteq FlushesOf(msg)
         /\ AdoptedOf(msg) \subseteq AdoptedOf(ms)
<1>1. /\ ms \in [Message -> MessageState]
      /\ ms[m] = x
      /\ \A n \in Message \ {m} : ms[n] = msg[n]
  BY DEF QueueInv, QueueOf
<1>2. \A n \in Message : ms[n].phase = "queued" <=> msg[n].phase = "queued"
  BY <1>1
<1>3. \A n \in Message : ms[n].adopted => ms[n].phase \in {"live", "over"}
  BY <1>1 DEF QueueInv, QueueOf
<1>4. QueueOf(queue, ms)
  BY <1>1, <1>2, <1>3 DEF QueueInv, QueueOf
<1>5. TypedIn(ms, conv)
  BY <1>1 DEF QueueInv, TypedIn
<1>6. FlushesOf(ms) \subseteq FlushesOf(msg) /\ AdoptedOf(msg) \subseteq AdoptedOf(ms)
  BY <1>1 DEF FlushesOf, AdoptedOf
<1> QED
  BY <1>4, <1>5, <1>6

LEMMA ReplacedIsReady ==
  ASSUME QueueInv, NEW m \in Message, NEW x \in MessageState,
         msg[m].phase \notin {"queued", "dropped"}, x.phase # "queued",
         x.queued => msg[m].queued, msg[m].adopted => x.adopted,
         x.adopted => x.phase \in {"live", "over"},
         status' = "running" => status = "running",
         NEW ms, ms = [msg EXCEPT ![m] = x]
  PROVE  Ready(queue, ms)
<1>1. /\ QueueOf(queue, ms) /\ TypedIn(ms, conv)
      /\ FlushesOf(ms) \subseteq FlushesOf(msg)
      /\ AdoptedOf(msg) \subseteq AdoptedOf(ms)
  BY ReplacedStaysQueued
<1>2. Cardinality(FlushesOf(ms)) <= Cardinality(FlushesOf(msg))
      /\ Cardinality(AdoptedOf(msg)) <= Cardinality(AdoptedOf(ms))
  BY <1>1, CountsAreNat, SmallerIsSmaller
<1>3. /\ Cardinality(FlushesOf(ms)) \in Nat /\ Cardinality(FlushesOf(msg)) \in Nat
      /\ Cardinality(AdoptedOf(ms)) \in Nat /\ Cardinality(AdoptedOf(msg)) \in Nat
  BY CountsAreNat
<1>4. Paid(queue, msg, status)
  BY DEF QueueInv
<1>5. Paid(queue, ms, status')
  BY <1>2, <1>3, <1>4 DEF Paid
<1> QED
  BY <1>1, <1>5 DEF Ready

\* The tab adopts the run of m: one more run has been in flight.
LEMMA AdoptedIsReady ==
  ASSUME QueueInv, NEW m \in Message, NEW x \in MessageState,
         msg[m].phase = "sent", x.phase = "live", x.queued => msg[m].queued, x.adopted,
         NEW ms, ms = [msg EXCEPT ![m] = x]
  PROVE  Ready(queue, ms)
<1>1. /\ QueueOf(queue, ms) /\ TypedIn(ms, conv)
      /\ FlushesOf(ms) \subseteq FlushesOf(msg)
      /\ AdoptedOf(msg) \subseteq AdoptedOf(ms)
  BY ReplacedStaysQueued
<1>2. m \in AdoptedOf(ms) /\ m \notin AdoptedOf(msg)
  BY DEF AdoptedOf, QueueInv, QueueOf
<1>3. Cardinality(FlushesOf(ms)) <= Cardinality(FlushesOf(msg))
  BY <1>1, CountsAreNat, SmallerIsSmaller
<1>4. Cardinality(AdoptedOf(msg)) < Cardinality(AdoptedOf(ms))
  BY <1>1, <1>2, CountsAreNat, SmallerIsSmaller
<1>5. /\ Cardinality(FlushesOf(ms)) \in Nat /\ Cardinality(FlushesOf(msg)) \in Nat
      /\ Cardinality(AdoptedOf(ms)) \in Nat /\ Cardinality(AdoptedOf(msg)) \in Nat
  BY CountsAreNat
<1>6. Cardinality(FlushesOf(msg)) <= Cardinality(AdoptedOf(msg))
  BY DEF QueueInv, Paid
<1>7. Paid(queue, ms, status')
  BY <1>3, <1>4, <1>5, <1>6 DEF Paid
<1> QED
  BY <1>1, <1>7 DEF Ready

LEMMA SameIsReady ==
  ASSUME QueueInv, status' = "running" => status = "running"
  PROVE  Ready(queue, msg)
BY DEF QueueInv, Ready, Paid

\* A message joins the queue while a run is in flight.
LEMMA AppendedIsReady ==
  ASSUME QueueInv, status = "running", NEW m \in Message, NEW x \in MessageState,
         msg[m].phase = "new", x.phase = "queued", x.typed \in {None, conv}, ~x.adopted,
         NEW ms, ms = [msg EXCEPT ![m] = x]
  PROVE  Ready(Append(queue, m), ms)
<1> DEFINE q == Append(queue, m)
<1>1. /\ ms \in [Message -> MessageState]
      /\ ms[m] = x
      /\ \A n \in Message \ {m} : ms[n] = msg[n]
  BY DEF QueueInv, QueueOf
<1>2. /\ queue \in Seq(Message) /\ q \in Seq(Message) /\ Len(q) = Len(queue) + 1
      /\ Len(queue) \in Nat
      /\ q[Len(q)] = m /\ \A i \in 1 .. Len(queue) : q[i] = queue[i]
  BY DEF QueueInv, QueueOf
<1>3. \A i \in 1 .. Len(queue) : queue[i] # m
  BY DEF QueueInv, QueueOf
<1>4. \A n \in Message : ms[n].phase = "queued" <=> \E i \in 1 .. Len(q) : q[i] = n
  <2>1. ASSUME NEW n \in Message \ {m}
        PROVE  (\E i \in 1 .. Len(q) : q[i] = n) <=> (\E i \in 1 .. Len(queue) : queue[i] = n)
    <3>1. ASSUME NEW i \in 1 .. Len(q), q[i] = n
          PROVE  i \in 1 .. Len(queue) /\ queue[i] = n
      BY <3>1, <1>2
    <3>2. \A i \in 1 .. Len(queue) : i \in 1 .. Len(q) /\ q[i] = queue[i]
      BY <1>2
    <3> QED
      BY <3>1, <3>2
  <2>2. \E i \in 1 .. Len(q) : q[i] = m
    BY <1>2
  <2>3. ASSUME NEW n \in Message \ {m}
        PROVE  ms[n].phase = "queued" <=> \E i \in 1 .. Len(queue) : queue[i] = n
    BY <1>1 DEF QueueInv, QueueOf
  <2> QED
    BY <2>1, <2>2, <2>3, <1>1
<1>5. \A i, j \in 1 .. Len(q) : q[i] = q[j] => i = j
  <2> SUFFICES ASSUME NEW i \in 1 .. Len(q), NEW j \in 1 .. Len(q), q[i] = q[j]
               PROVE  i = j
    OBVIOUS
  <2>1. CASE i = Len(q) \/ j = Len(q)
    BY <2>1, <1>2, <1>3
  <2>2. CASE i # Len(q) /\ j # Len(q)
    <3>1. i \in 1 .. Len(queue) /\ j \in 1 .. Len(queue) /\ queue[i] = queue[j]
      BY <2>2, <1>2
    <3> QED
      BY <3>1 DEF QueueInv, QueueOf
  <2> QED
    BY <2>1, <2>2
<1>6. \A n \in Message : ms[n].adopted => ms[n].phase \in {"live", "over"}
  BY <1>1 DEF QueueInv, QueueOf
<1>7. QueueOf(q, ms)
  BY <1>1, <1>2, <1>4, <1>5, <1>6 DEF QueueOf
<1>8. TypedIn(ms, conv)
  BY <1>1 DEF QueueInv, TypedIn
<1>9. FlushesOf(ms) \subseteq FlushesOf(msg) /\ AdoptedOf(ms) = AdoptedOf(msg)
  <2>1. ~msg[m].adopted
    BY DEF QueueInv, QueueOf
  <2> QED
    BY <1>1, <2>1 DEF FlushesOf, AdoptedOf
<1>10. Cardinality(FlushesOf(ms)) <= Cardinality(FlushesOf(msg))
  BY <1>9, CountsAreNat, SmallerIsSmaller
<1>11. /\ Cardinality(FlushesOf(ms)) \in Nat /\ Cardinality(FlushesOf(msg)) \in Nat
       /\ Cardinality(AdoptedOf(msg)) \in Nat
  BY CountsAreNat
<1>12. Cardinality(FlushesOf(msg)) < Cardinality(AdoptedOf(msg))
  BY DEF QueueInv, Paid
<1>13. Paid(q, ms, status')
  BY <1>9, <1>10, <1>11, <1>12 DEF Paid
<1> QED
  BY <1>7, <1>8, <1>13 DEF Ready

\* Removing a position keeps the others, in their order.
LEMMA RemoveAtKeeps ==
  ASSUME NEW q \in Seq(Message), NEW k \in 1 .. Len(q)
  PROVE  /\ RemoveAt(q, k) \in Seq(Message)
         /\ Len(RemoveAt(q, k)) = Len(q) - 1
         /\ \A i \in 1 .. Len(q) - 1 :
              RemoveAt(q, k)[i] = IF i < k THEN q[i] ELSE q[i + 1]
<1> DEFINE l == SubSeq(q, 1, k - 1)
           r == SubSeq(q, k + 1, Len(q))
<1>1. Len(q) \in Nat /\ k \in Nat /\ \A i \in 1 .. Len(q) : q[i] \in Message
  BY LenProperties, ElementOfSeq
<1>2. /\ l \in Seq(Message) /\ Len(l) = k - 1
      /\ \A i \in 1 .. k - 1 : l[i] = q[i]
  BY <1>1
<1>3. /\ r \in Seq(Message) /\ Len(r) = Len(q) - k
      /\ \A i \in 1 .. Len(q) - k : r[i] = q[k + i]
  BY <1>1
<1> HIDE DEF l, r
<1>4. /\ l \o r \in Seq(Message) /\ Len(l \o r) = Len(q) - 1
      /\ \A i \in 1 .. Len(q) - 1 :
           (l \o r)[i] = IF i <= k - 1 THEN l[i] ELSE r[i - (k - 1)]
  BY <1>1, <1>2, <1>3, ConcatProperties
<1>5. \A i \in 1 .. Len(q) - 1 : (l \o r)[i] = IF i < k THEN q[i] ELSE q[i + 1]
  <2> SUFFICES ASSUME NEW i \in 1 .. Len(q) - 1
               PROVE  (l \o r)[i] = IF i < k THEN q[i] ELSE q[i + 1]
    OBVIOUS
  <2>1. CASE i < k
    BY <2>1, <1>1, <1>2, <1>4
  <2>2. CASE ~(i < k)
    <3>1. i - (k - 1) \in 1 .. Len(q) - k /\ k + (i - (k - 1)) = i + 1
      BY <2>2, <1>1
    <3>2. ~(i <= k - 1)
      BY <2>2, <1>1
    <3> QED
      BY <3>1, <3>2, <2>2, <1>3, <1>4
  <2> QED
    BY <2>1, <2>2
<1>6. RemoveAt(q, k) = l \o r
  BY DEF RemoveAt, l, r
<1> QED
  BY <1>4, <1>5, <1>6

\* The user takes a message out of the queue.
LEMMA RemovedIsReady ==
  ASSUME QueueInv, status' = status, NEW k \in 1 .. Len(queue),
         NEW m \in Message, queue[k] = m,
         NEW ms, ms = [msg EXCEPT ![m] = Past(msg[m], "dropped")]
  PROVE  Ready(RemoveAt(queue, k), ms)
<1> DEFINE q == RemoveAt(queue, k)
<1>0. queue \in Seq(Message) /\ Len(queue) \in Nat /\ msg \in [Message -> MessageState]
  BY LenProperties DEF QueueInv, QueueOf
<1>1. /\ q \in Seq(Message) /\ Len(q) = Len(queue) - 1
      /\ \A i \in 1 .. Len(q) :
           q[i] = IF i < k THEN queue[i] ELSE queue[i + 1]
  BY <1>0, RemoveAtKeeps
<1> HIDE DEF q
<1>2. Past(msg[m], "dropped") \in MessageState
      /\ Past(msg[m], "dropped").phase = "dropped"
      /\ Past(msg[m], "dropped").adopted = msg[m].adopted
  BY <1>0, PastIsMessage
<1>3. /\ ms \in [Message -> MessageState]
      /\ ms[m].phase = "dropped" /\ ms[m].adopted = msg[m].adopted
      /\ \A n \in Message \ {m} : ms[n] = msg[n]
  BY <1>0, <1>2
<1>4. \A i \in 1 .. Len(q) : \E j \in 1 .. Len(queue) \ {k} :
        q[i] = queue[j] /\ j = IF i < k THEN i ELSE i + 1
  BY <1>0, <1>1
<1>5. \A j \in 1 .. Len(queue) \ {k} : \E i \in 1 .. Len(q) : q[i] = queue[j]
  <2> SUFFICES ASSUME NEW j \in 1 .. Len(queue) \ {k}
               PROVE  \E i \in 1 .. Len(q) : q[i] = queue[j]
    OBVIOUS
  <2>1. CASE j < k
    BY <2>1, <1>0, <1>1
  <2>2. CASE ~(j < k)
    <3>1. j - 1 \in 1 .. Len(q) /\ ~(j - 1 < k) /\ j - 1 + 1 = j
      BY <2>2, <1>0, <1>1
    <3> QED
      BY <3>1, <1>1
  <2> QED
    BY <2>1, <2>2
<1>6. \A i, j \in 1 .. Len(queue) : queue[i] = queue[j] => i = j
  BY DEF QueueInv, QueueOf
<1>7. \A i, j \in 1 .. Len(q) : q[i] = q[j] => i = j
  <2> SUFFICES ASSUME NEW i \in 1 .. Len(q), NEW j \in 1 .. Len(q), q[i] = q[j]
               PROVE  i = j
    OBVIOUS
  <2> DEFINE a == IF i < k THEN i ELSE i + 1
             b == IF j < k THEN j ELSE j + 1
  <2>1. a \in 1 .. Len(queue) /\ b \in 1 .. Len(queue) /\ queue[a] = queue[b]
    BY <1>0, <1>1
  <2>2. a = b
    BY <2>1, <1>6
  <2> QED
    BY <2>2, <1>0, <1>1
<1>8. \A n \in Message : ms[n].phase = "queued" <=> \E i \in 1 .. Len(q) : q[i] = n
  <2> SUFFICES ASSUME NEW n \in Message
               PROVE  ms[n].phase = "queued" <=> \E i \in 1 .. Len(q) : q[i] = n
    OBVIOUS
  <2>1. msg[n].phase = "queued" <=> \E j \in 1 .. Len(queue) : queue[j] = n
    BY DEF QueueInv, QueueOf
  <2>2. CASE n = m
    <3>1. \A i \in 1 .. Len(q) : q[i] # m
      BY <1>4, <1>6
    <3> QED
      BY <3>1, <2>2, <1>3
  <2>3. CASE n # m
    <3>1. (\E j \in 1 .. Len(queue) : queue[j] = n) <=>
          (\E j \in 1 .. Len(queue) \ {k} : queue[j] = n)
      BY <2>3
    <3>2. (\E j \in 1 .. Len(queue) \ {k} : queue[j] = n) <=>
          (\E i \in 1 .. Len(q) : q[i] = n)
      BY <1>4, <1>5
    <3> QED
      BY <3>1, <3>2, <2>1, <2>3, <1>3
  <2> QED
    BY <2>2, <2>3
<1>9. QueueOf(q, ms)
  <2>1. \A n \in Message : ms[n].adopted => ms[n].phase \in {"live", "over"}
    <3>1. ~msg[m].adopted
      BY DEF QueueInv, QueueOf
    <3> QED
      BY <3>1, <1>3 DEF QueueInv, QueueOf
  <2> QED
    BY <2>1, <1>1, <1>3, <1>7, <1>8 DEF QueueOf
<1>10. TypedIn(ms, conv)
  BY <1>3 DEF QueueInv, TypedIn
<1>11. FlushesOf(ms) = FlushesOf(msg) /\ AdoptedOf(ms) = AdoptedOf(msg)
  <2>1. msg[m].phase = "queued"
    BY DEF QueueInv, QueueOf
  <2> QED
    BY <2>1, <1>3 DEF FlushesOf, AdoptedOf
<1>12. queue # << >>
  BY <1>0
<1>13. Paid(q, ms, status')
  BY <1>11, <1>12 DEF QueueInv, Paid
<1> QED
  BY <1>9, <1>10, <1>13 DEF Ready, q

-----------------------------------------------------------------------------
\* Each action keeps the invariant.

LEMMA InitIsConv == Init => ConvInv
<1> SUFFICES ASSUME Init PROVE ConvInv
  OBVIOUS
<1>1. /\ NewMessage \in MessageState /\ NewMessage.phase = "new"
      /\ ~NewMessage.adopted /\ ~NewMessage.queued
  BY DEF NewMessage, MessageState
<1>2. /\ msg \in [Message -> MessageState] /\ \A m \in Message : msg[m] = NewMessage
      /\ queue = << >> /\ Len(queue) = 0
  BY <1>1 DEF Init
<1>3. QueueOf(queue, msg) /\ TypedIn(msg, active)
  BY <1>1, <1>2 DEF QueueOf, TypedIn
<1>4. FlushesOf(msg) = {} /\ AdoptedOf(msg) = {}
  BY <1>1, <1>2 DEF FlushesOf, AdoptedOf
<1>5. Paid(queue, msg, status)
  <2>1. Cardinality(FlushesOf(msg)) \in Nat
    BY CountsAreNat
  <2>2. status # "running" /\ queue = << >>
    BY DEF Init
  <2> QED
    BY <1>4, <2>1, <2>2 DEF Paid
<1>6. QueueInv
  BY <1>3, <1>5 DEF QueueInv, Init
<1>7. ChatType
  BY DEF Init, ChatType
<1>8. RouteType /\ LoadsAreMoves
  <2>1. 0 \in 0 .. MaxMoves
    BY ConversationAssumption
  <2> QED
    BY <2>1 DEF Init, RouteType, LoadsAreMoves
<1>9. UrlIsConsumed /\ ShownOrLoading /\ ChoiceIsConsumed
  BY DEF Init, UrlIsConsumed, ShownOrLoading, ChoiceIsConsumed
<1> QED
  BY <1>6, <1>7, <1>8, <1>9 DEF ConvInv, RouteInv

LEMMA RouteStays ==
  ASSUME ConvInv, UrlEffect(url, consumed, choice),
         UNCHANGED <<active, loads, moves, astray>>
  PROVE  RouteInv'
BY DEF ConvInv, RouteInv, UrlEffect, RouteType, LoadsAreMoves, UrlIsConsumed,
   ShownOrLoading, ChoiceIsConsumed

LEMMA SubmitKeeps ==
  ASSUME ConvInv, NEW m \in Message, Submit(m)
  PROVE  ConvInv'
<1>1. RouteInv'
  BY RouteStays DEF Submit, Effects, chatVars, boundVars
<1> DEFINE h == [[NewMessage EXCEPT !.typed = active] EXCEPT !.phase = "held"]
           w == [[NewMessage EXCEPT !.typed = active]
                   EXCEPT !.phase = "queued", !.queued = TRUE]
<1>2. /\ h \in MessageState /\ h.phase = "held" /\ ~h.queued /\ ~h.adopted
      /\ w \in MessageState /\ w.phase = "queued" /\ w.typed = active /\ ~w.adopted
  BY DEF NewMessage, MessageState, ConvInv, ChatType
<1> HIDE DEF h, w
<1>3. msg[m].phase = "new" /\ ~msg[m].adopted
  BY DEF Submit, In, ConvInv, QueueInv, QueueOf
<1>4. ASSUME status = "running"
      PROVE  QueueInv' /\ armed' \in BOOLEAN
  <2>1. QueueEffect(Append(queue, m), [msg EXCEPT ![m] = w])
    BY <1>4 DEF Submit, Effects, w
  <2>2. Ready(Append(queue, m), [msg EXCEPT ![m] = w])
    BY <1>2, <1>3, <1>4, AppendedIsReady DEF ConvInv, QueueInv
  <2> QED
    BY <2>1, <2>2, EffectKeepsTheQueue DEF ConvInv, ChatType
<1>5. ASSUME status # "running"
      PROVE  QueueInv' /\ armed' \in BOOLEAN
  <2>1. QueueEffect(queue, [msg EXCEPT ![m] = h])
    BY <1>5 DEF Submit, Effects, h
  <2>2. Ready(queue, [msg EXCEPT ![m] = h])
    BY <1>2, <1>3, <1>5, ReplacedIsReady DEF ConvInv, Submit, chatVars
  <2> QED
    BY <2>1, <2>2, EffectKeepsTheQueue DEF ConvInv, ChatType
<1>6. QueueInv' /\ armed' \in BOOLEAN
  BY <1>4, <1>5
<1>7. ChatType'
  BY <1>6 DEF Submit, chatVars, boundVars, ConvInv, ChatType
<1> QED
  BY <1>1, <1>6, <1>7 DEF ConvInv

LEMMA CancelKeeps ==
  ASSUME ConvInv, NEW m \in Message, Cancel(m)
  PROVE  ConvInv'
<1>1. PICK k \in DOMAIN queue :
        /\ queue[k] = m
        /\ Effects(RemoveAt(queue, k), [msg EXCEPT ![m] = Past(@, "dropped")])
  BY DEF Cancel
<1>2. k \in 1 .. Len(queue)
  BY LenProperties DEF ConvInv, QueueInv, QueueOf
<1>3. Ready(RemoveAt(queue, k), [msg EXCEPT ![m] = Past(msg[m], "dropped")])
  BY <1>1, <1>2, RemovedIsReady DEF ConvInv, Cancel, chatVars
<1>4. QueueInv' /\ armed' \in BOOLEAN
  BY <1>1, <1>3, EffectKeepsTheQueue DEF Effects, ConvInv, ChatType
<1>5. RouteInv'
  BY <1>1, RouteStays DEF Cancel, Effects, chatVars, boundVars
<1>6. ChatType'
  BY <1>4 DEF Cancel, chatVars, boundVars, ConvInv, ChatType
<1> QED
  BY <1>4, <1>5, <1>6 DEF ConvInv

LEMMA IssueKeeps ==
  ASSUME ConvInv, NEW m \in Message, Issue(m)
  PROVE  ConvInv'
<1> DEFINE x == [[msg[m] EXCEPT !.phase = "sent"] EXCEPT !.session = active]
<1>0. msg \in [Message -> MessageState] /\ active \in Session \cup {None}
  BY DEF ConvInv, QueueInv, QueueOf, ChatType
<1>1. /\ x \in MessageState /\ x.phase = "sent"
      /\ x.queued = msg[m].queued /\ x.adopted = msg[m].adopted
  BY <1>0 DEF MessageState
<1>2. [msg EXCEPT ![m].phase = "sent", ![m].session = active] = [msg EXCEPT ![m] = x]
  BY <1>0
<1> HIDE DEF x
<1>3. msg[m].phase = "held" /\ ~msg[m].adopted
  BY DEF Issue, In, ConvInv, QueueInv, QueueOf
<1>4. Ready(queue, [msg EXCEPT ![m] = x])
  BY <1>1, <1>3, ReplacedIsReady DEF ConvInv, Issue
<1>5. QueueInv' /\ armed' \in BOOLEAN
  BY <1>2, <1>4, EffectKeepsTheQueue DEF Issue, Effects, ConvInv, ChatType
<1>6. RouteInv'
  BY RouteStays DEF Issue, Effects, boundVars
<1>7. ChatType'
  BY <1>5 DEF Issue, boundVars, ConvInv, ChatType
<1> QED
  BY <1>5, <1>6, <1>7 DEF ConvInv

LEMMA RefusedKeeps ==
  ASSUME ConvInv, NEW m \in Message, Refused(m)
  PROVE  ConvInv'
<1>0. msg \in [Message -> MessageState] /\ msg[m].phase = "sent" /\ ~msg[m].adopted
  BY DEF Refused, In, ConvInv, QueueInv, QueueOf
<1>1. Ready(queue, [msg EXCEPT ![m] = Past(msg[m], "over")])
  BY <1>0, PastIsMessage, ReplacedIsReady DEF ConvInv, Refused
<1>2. QueueInv' /\ armed' \in BOOLEAN
  BY <1>1, EffectKeepsTheQueue DEF Refused, Effects, ConvInv, ChatType
<1>3. RouteInv'
  BY RouteStays DEF Refused, Effects, boundVars
<1>4. ChatType'
  BY <1>2 DEF Refused, boundVars, ConvInv, ChatType
<1> QED
  BY <1>2, <1>3, <1>4 DEF ConvInv

LEMMA EndsWithKeeps ==
  ASSUME ConvInv, NEW m \in Message, NEW e \in BOOLEAN, NEW c \in BOOLEAN, EndsWith(m, e, c)
  PROVE  ConvInv'
<1>0. msg \in [Message -> MessageState] /\ msg[m].phase = "live"
  BY DEF EndsWith, In, ConvInv, QueueInv, QueueOf
<1>1. status' = "running" => status = "running"
  BY DEF EndsWith, chatVars
<1>2. Ready(queue, [msg EXCEPT ![m] = Past(msg[m], "over")])
  BY <1>0, <1>1, PastIsMessage, ReplacedIsReady DEF ConvInv
<1>3. QueueInv' /\ armed' \in BOOLEAN
  BY <1>2, EffectKeepsTheQueue DEF EndsWith, Effects, ConvInv, ChatType
<1>4. RouteInv'
  BY RouteStays DEF EndsWith, Effects, chatVars
<1>5. ChatType'
  BY <1>3 DEF EndsWith, chatVars, ConvInv, ChatType
<1> QED
  BY <1>3, <1>4, <1>5 DEF ConvInv

LEMMA EndsKeeps ==
  ASSUME ConvInv, NEW m \in Message, Ends(m)
  PROVE  ConvInv'
<1>1. error \in BOOLEAN
  BY DEF ConvInv, ChatType
<1> QED
  BY <1>1, EndsWithKeeps DEF Ends, Completed, Failed, Cancelled

\* A run that begins a session takes the URL along, unless a transcript is under way.
LEMMA StartedKeeps ==
  ASSUME ConvInv, NEW m \in Message, Started(m)
  PROVE  ConvInv'
<1> DEFINE x == [Past(msg[m], "live") EXCEPT !.adopted = expecting]
<1>0. msg \in [Message -> MessageState] /\ msg[m].phase = "sent" /\ ~msg[m].adopted
  BY DEF Started, In, ConvInv, QueueInv, QueueOf
<1>1. /\ x \in MessageState /\ x.phase = "live"
      /\ x.queued = msg[m].queued /\ x.adopted = expecting
  <2>1. Past(msg[m], "live") \in MessageState /\ Past(msg[m], "live").phase = "live"
        /\ Past(msg[m], "live").queued = msg[m].queued
    BY <1>0, PastIsMessage
  <2> QED
    BY <2>1 DEF MessageState, ConvInv, ChatType
<1>2. QueueEffect(queue, [msg EXCEPT ![m] = x]) /\ UrlEffect(url, consumed, choice)
  BY DEF Started, Effects
<1> HIDE DEF x
<1>3. Ready(queue, [msg EXCEPT ![m] = x])
  <2>1. CASE expecting
    BY <2>1, <1>0, <1>1, AdoptedIsReady DEF ConvInv
  <2>2. CASE ~expecting
    BY <2>2, <1>0, <1>1, ReplacedIsReady DEF ConvInv, Started, chatVars
  <2> QED
    BY <2>1, <2>2
<1>4. QueueInv' /\ armed' \in BOOLEAN
  BY <1>2, <1>3, EffectKeepsTheQueue DEF ConvInv, ChatType
<1>5. active' \in Session \cup {None} /\ (~astray' => ~astray /\ active \in {None, active'})
  BY <1>0 DEF Started, chatVars, Session, MessageState, ConvInv, ChatType
<1>6. UNCHANGED <<loads, moves, reshown>>
  BY DEF Started
<1>7. RouteInv'
  <2>1. RouteType' /\ LoadsAreMoves'
    BY <1>2, <1>5, <1>6 DEF ConvInv, RouteInv, RouteType, LoadsAreMoves, UrlEffect
  <2>2. UrlIsConsumed' /\ ChoiceIsConsumed'
    BY <1>2 DEF ConvInv, RouteInv, UrlIsConsumed, ChoiceIsConsumed, UrlEffect
  <2>3. ShownOrLoading'
    BY <1>2, <1>5, <1>6 DEF ConvInv, RouteInv, UrlIsConsumed, ShownOrLoading, UrlEffect
  <2> QED
    BY <2>1, <2>2, <2>3 DEF RouteInv
<1>8. ChatType'
  BY <1>4, <1>5, <1>6 DEF Started, chatVars, ConvInv, ChatType
<1> QED
  BY <1>4, <1>7, <1>8 DEF ConvInv

LEMMA ToggleKeeps ==
  ASSUME ConvInv, Toggle
  PROVE  ConvInv'
<1>1. QueueInv' /\ armed' \in BOOLEAN
  BY SameIsReady, EffectKeepsTheQueue DEF Toggle, Effects, ConvInv, ChatType
<1>2. RouteInv'
  BY RouteStays DEF Toggle, Effects, boundVars
<1>3. ChatType'
  BY <1>1 DEF Toggle, boundVars, ConvInv, ChatType
<1> QED
  BY <1>1, <1>2, <1>3 DEF ConvInv

LEMMA ShownKeepsTheQueue ==
  ASSUME ConvInv, NEW s \in Session \cup {None}, NEW e \in BOOLEAN, Show(s, e),
         QueueEffect(queue, msg), astray' \in BOOLEAN
  PROVE  QueueInv' /\ ChatType'
<1>1. QueueInv' /\ armed' \in BOOLEAN
  BY SameIsReady, EffectKeepsTheQueue DEF Show, ConvInv, ChatType
<1> QED
  BY <1>1 DEF Show, ConvInv, ChatType

LEMMA NewChatKeeps ==
  ASSUME ConvInv, NewChat
  PROVE  ConvInv'
<1>1. QueueInv' /\ ChatType'
  BY ShownKeepsTheQueue DEF NewChat
<1>2. RouteInv'
  BY ConversationAssumption DEF NewChat, Show, Moved, UrlEffect, ConvInv, RouteInv, RouteType, LoadsAreMoves,
     UrlIsConsumed, ShownOrLoading, ChoiceIsConsumed
<1> QED
  BY <1>1, <1>2 DEF ConvInv

LEMMA ClearChatKeeps ==
  ASSUME ConvInv, ClearChat
  PROVE  ConvInv'
<1>1. QueueInv' /\ ChatType'
  BY ShownKeepsTheQueue DEF ClearChat, Effects
<1>2. RouteInv'
  BY ConversationAssumption DEF ClearChat, Effects, Show, Moved, UrlEffect, ConvInv, RouteInv, RouteType,
     LoadsAreMoves, UrlIsConsumed, ShownOrLoading, ChoiceIsConsumed
<1> QED
  BY <1>1, <1>2 DEF ConvInv

LEMMA PickKeeps ==
  ASSUME ConvInv, NEW s \in Session, Pick(s)
  PROVE  ConvInv'
<1>1. QueueInv' /\ ChatType'
  BY DEF Pick, chatVars, queueVars, ConvInv, ChatType, QueueInv, Paid
<1>2. RouteType' /\ LoadsAreMoves'
  BY ConversationAssumption
     DEF Pick, Moved, ConvInv, RouteInv, RouteType, LoadsAreMoves
<1>3. s # None
  BY ConversationAssumption DEF Session
<1>4. ShownOrLoading'
  <2>1. CASE consumed = s
    BY <2>1, <1>3 DEF Pick, chatVars, ConvInv, RouteInv, ShownOrLoading, UrlIsConsumed
  <2>2. CASE consumed # s
    BY <2>2, <1>3 DEF Pick, ShownOrLoading, ConvInv, RouteInv, RouteType
  <2> QED
    BY <2>1, <2>2
<1>5. UrlIsConsumed' /\ ChoiceIsConsumed'
  BY <1>3 DEF Pick, UrlIsConsumed, ChoiceIsConsumed
<1> QED
  BY <1>1, <1>2, <1>4, <1>5 DEF ConvInv, RouteInv

LEMMA GoBackKeeps ==
  ASSUME ConvInv, GoBack
  PROVE  ConvInv'
<1>1. QueueInv' /\ armed' \in BOOLEAN
  BY SameIsReady, EffectKeepsTheQueue DEF GoBack, chatVars, ConvInv, ChatType
<1>2. ChatType'
  BY <1>1 DEF GoBack, chatVars, boundVars, ConvInv, ChatType
<1>3. RouteInv'
  BY DEF GoBack, chatVars, boundVars, UrlEffect, ConvInv, ChatType, RouteInv, RouteType,
     LoadsAreMoves, UrlIsConsumed, ShownOrLoading, ChoiceIsConsumed
<1> QED
  BY <1>1, <1>2, <1>3 DEF ConvInv

LEMMA LoadedKeeps ==
  ASSUME ConvInv, NEW s \in Session, Loaded(s)
  PROVE  ConvInv'
<1>0. /\ loads' \in [Session -> 0 .. MaxMoves] /\ LoadsAreMoves' /\ moves' = moves
      /\ \A r \in Session \ {s} : loads'[r] = loads[r]
  BY ConversationAssumption DEF Loaded, ConvInv, RouteInv, RouteType, LoadsAreMoves
<1>1. RouteType' /\ QueueInv' /\ ChatType'
  <2>1. CASE StillWanted(s)
    <3>1. PICK e \in BOOLEAN : Show(s, e)
      BY <2>1 DEF Loaded
    <3>2. QueueInv' /\ ChatType'
      BY <3>1, <2>1, ShownKeepsTheQueue DEF Loaded, Effects
    <3>3. active' \in Session \cup {None}
      BY <3>1 DEF Show
    <3> QED
      BY <1>0, <3>2, <3>3 DEF Loaded, Effects, UrlEffect, ConvInv, RouteInv, RouteType
  <2>2. CASE ~StillWanted(s)
    <3>1. QueueInv' /\ armed' \in BOOLEAN
      BY <2>2, SameIsReady, EffectKeepsTheQueue
         DEF Loaded, Effects, chatVars, ConvInv, ChatType
    <3>2. ChatType'
      BY <2>2, <3>1 DEF Loaded, chatVars, ConvInv, ChatType
    <3> QED
      BY <1>0, <3>1, <3>2 DEF Loaded, Effects, UrlEffect, ConvInv, RouteInv, RouteType,
         ChatType
  <2> QED
    BY <2>1, <2>2
<1>2. UrlIsConsumed' /\ ChoiceIsConsumed' /\ ShownOrLoading'
  <2>1. CASE StillWanted(s)
    <3>1. active' = s /\ consumed = s
      BY <2>1 DEF Loaded, Show, StillWanted
    <3> QED
      BY <3>1 DEF Loaded, Effects, UrlEffect, ConvInv, RouteInv, UrlIsConsumed,
         ShownOrLoading, ChoiceIsConsumed
  <2>2. CASE ~StillWanted(s)
    <3>1. active' = active /\ astray' = astray /\ consumed # s
      BY <2>2 DEF Loaded, StillWanted, chatVars
    <3> QED
      BY <1>0, <3>1 DEF Loaded, Effects, UrlEffect, ConvInv, RouteInv, RouteType,
         UrlIsConsumed, ShownOrLoading, ChoiceIsConsumed
  <2> QED
    BY <2>1, <2>2
<1> QED
  BY <1>0, <1>1, <1>2 DEF ConvInv, RouteInv

LEMMA NextKeeps == ConvInv /\ [Next]_vars => ConvInv'
<1> SUFFICES ASSUME ConvInv, [Next]_vars PROVE ConvInv'
  OBVIOUS
<1>1. ASSUME NEW m \in Message,
             Submit(m) \/ Cancel(m) \/ Issue(m) \/ Refused(m) \/ Started(m) \/ Ends(m)
      PROVE  ConvInv'
  BY <1>1, SubmitKeeps, CancelKeeps, IssueKeeps, RefusedKeeps, StartedKeeps, EndsKeeps
<1>2. ASSUME NEW s \in Session, Pick(s) \/ Loaded(s)
      PROVE  ConvInv'
  BY <1>2, PickKeeps, LoadedKeeps
<1>3. ASSUME Toggle \/ NewChat \/ ClearChat \/ GoBack
      PROVE  ConvInv'
  BY <1>3, ToggleKeeps, NewChatKeeps, ClearChatKeeps, GoBackKeeps
<1>4. CASE UNCHANGED vars
  BY <1>4 DEF vars, routeVars, chatVars, queueVars, boundVars, ConvInv, ChatType,
     RouteInv, RouteType, LoadsAreMoves, UrlIsConsumed, ShownOrLoading, ChoiceIsConsumed,
     QueueInv, Paid
<1> QED
  BY <1>1, <1>2, <1>3, <1>4 DEF Next

(* The conjunction holds in every reachable state: the tab is idle and armed   *)
(* with a queue only if a run has paid, and what was asked for is shown or    *)
(* under way.  The theorems on the runs' properties rest on it.                *)
THEOREM ConversationInvariant == Spec => []ConvInv
BY InitIsConv, NextKeeps, PTL DEF Spec

-----------------------------------------------------------------------------
(* The queue and the messages agree, and every variable has its type, for any *)
(* number of sessions, messages and moves (messageQueue.ts, useChatRun.ts).   *)
THEOREM ConversationTypeCorrect == Spec => []ConversationTypeOK
<1>1. ASSUME ConvInv PROVE ConversationTypeOK
  <2>1. DOMAIN queue = 1 .. Len(queue)
    BY <1>1, LenProperties DEF ConvInv, QueueInv, QueueOf
  <2>2. \A m \in Message :
          In(m, "queued") <=> \E i \in DOMAIN queue : queue[i] = m
    BY <1>1, <2>1 DEF In, ConvInv, QueueInv, QueueOf
  <2>3. msg \in [Message -> MessageState] /\ queue \in Seq(Message)
        /\ conv \in Session \cup {None}
    BY <1>1 DEF ConvInv, ChatType, QueueInv, QueueOf
  <2>4. ChatType /\ RouteType
    BY <1>1 DEF ConvInv, RouteInv
  <2> QED
    BY <2>2, <2>3, <2>4 DEF ConversationTypeOK, ChatType, RouteType
<1> QED
  BY <1>1, ConversationInvariant, PTL

(* The queue never gives up more messages than runs have been in flight       *)
(* (messageQueue.ts 124-128, 172-181): a flush is paid for by the run that    *)
(* armed the queue.                                                           *)
THEOREM OneFlush == Spec => []OneFlushPerRun
<1>1. ASSUME ConvInv PROVE OneFlushPerRun
  <2>1. Flushes = FlushesOf(msg) /\ AdoptedRuns = AdoptedOf(msg)
    BY DEF Flushes, FlushesOf, AdoptedRuns, AdoptedOf, In
  <2> QED
    BY <1>1, <2>1 DEF OneFlushPerRun, ConvInv, QueueInv, Paid
<1> QED
  BY <1>1, ConversationInvariant, PTL

(* At rest the URL names the conversation on screen, unless that was cleared  *)
(* in place or replaced by a late run (App.tsx 336-348).                      *)
THEOREM UrlIsTheChat == Spec => []UrlNamesTheChat
<1>1. ConvInv => UrlNamesTheChat
  BY DEF UrlNamesTheChat, ConvInv, RouteInv, RouteType, UrlIsConsumed, ShownOrLoading
<1> QED
  BY <1>1, ConversationInvariant, PTL

\* The effects let go of a message only in the chat that the queue belongs to.
LEMMA HeldInTheChat ==
  ASSUME NEW q, NEW ms, QueueEffect(q, ms), NEW m \in Message, ms[m] \in MessageState,
         ms[m].phase # "held", msg'[m].phase = "held"
  PROVE  conv \in {None, active'}
<1>1. CASE LeavesChat
  <2>1. msg'[m] = IF ms[m].phase = "queued" THEN Past(ms[m], "dropped") ELSE ms[m]
    BY <1>1 DEF QueueEffect, Dropped
  <2> QED
    BY <2>1, PastIsMessage
<1>2. CASE ~LeavesChat
  BY <1>2 DEF LeavesChat
<1> QED
  BY <1>1, <1>2

(* A message that was queued in a conversation with an id leaves the queue in *)
(* that one only (messageQueue.ts 105-112, 149-158), whatever the user does.  *)
THEOREM FlushStays == Spec => FlushStaysInTheChat
<1>1. ASSUME ConvInv, [Next]_vars, NEW m \in Message,
             In(m, "queued"), msg'[m].phase = "held"
      PROVE  conv \in {None, active'}
  <2>0. msg \in [Message -> MessageState] /\ msg[m].phase = "queued"
        /\ msg[m] \in MessageState
    BY <1>1 DEF In, ConvInv, QueueInv, QueueOf
  <2>1. ASSUME NEW n \in Message, Submit(n) PROVE conv \in {None, active'}
    <3>1. n # m
      BY <2>0, <2>1 DEF Submit, In
    <3>2. \A x : [msg EXCEPT ![n] = x][m] = msg[m]
      BY <2>0, <3>1
    <3>3. PICK q, x : QueueEffect(q, [msg EXCEPT ![n] = x])
      BY <2>1 DEF Submit, Effects
    <3> QED
      BY <1>1, <2>0, <3>2, <3>3, HeldInTheChat
  <2>2. ASSUME NEW n \in Message, Cancel(n) PROVE conv \in {None, active'}
    <3>1. PICK q : QueueEffect(q, [msg EXCEPT ![n] = Past(msg[n], "dropped")])
      BY <2>2 DEF Cancel, Effects
    <3>2. [msg EXCEPT ![n] = Past(msg[n], "dropped")][m]
            \in {msg[m], Past(msg[m], "dropped")}
      BY <2>0
    <3> DEFINE ms == [msg EXCEPT ![n] = Past(msg[n], "dropped")]
    <3>3. ms[m] \in MessageState /\ ms[m].phase # "held"
      BY <2>0, <3>2, PastIsMessage
    <3> HIDE DEF ms
    <3>4. QueueEffect(q, ms)
      BY <3>1 DEF ms
    <3> QED
      BY <1>1, <3>3, <3>4, HeldInTheChat
  <2>3. ASSUME NEW n \in Message, Issue(n) \/ Refused(n) \/ Started(n) \/ Ends(n)
        PROVE  conv \in {None, active'}
    <3>1. n # m
      BY <2>0, <2>3 DEF Issue, Refused, Started, Ends, Completed, Failed, Cancelled, EndsWith, In
    <3>2. \A x : [msg EXCEPT ![n] = x][m] = msg[m]
      BY <2>0, <3>1
    <3>3. CASE Issue(n)
      <4>1. QueueEffect(queue, [msg EXCEPT ![n].phase = "sent", ![n].session = active])
        BY <3>3 DEF Issue, Effects
      <4>2. [msg EXCEPT ![n].phase = "sent", ![n].session = active][m] = msg[m]
        BY <2>0, <3>1
      <4> QED
        BY <4>1, <4>2, <1>1, <2>0, HeldInTheChat
    <3>4. CASE Refused(n) \/ Started(n) \/ Ends(n)
      <4>1. PICK x : QueueEffect(queue, [msg EXCEPT ![n] = x])
        BY <3>4 DEF Refused, Started, Ends, Completed, Failed, Cancelled, EndsWith, Effects
      <4> QED
        BY <4>1, <3>2, <1>1, <2>0, HeldInTheChat
    <3> QED
      BY <2>3, <3>3, <3>4
  <2>4. ASSUME NEW s \in Session, Pick(s) \/ Loaded(s) PROVE conv \in {None, active'}
    <3>1. msg' = msg \/ QueueEffect(queue, msg)
      BY <2>4 DEF Pick, Loaded, Effects, queueVars
    <3> QED
      BY <1>1, <2>0, <3>1, HeldInTheChat
  <2>5. ASSUME Toggle \/ NewChat \/ ClearChat \/ GoBack PROVE conv \in {None, active'}
    <3>1. QueueEffect(queue, msg)
      BY <2>5 DEF Toggle, NewChat, ClearChat, GoBack, Effects
    <3> QED
      BY <1>1, <2>0, <3>1, HeldInTheChat
  <2>6. ASSUME UNCHANGED vars PROVE conv \in {None, active'}
    BY <1>1, <2>0, <2>6 DEF vars, queueVars
  <2> QED
    BY <1>1, <2>1, <2>2, <2>3, <2>4, <2>5, <2>6 DEF Next
<1>2. ASSUME ConvInv, [Next]_vars
      PROVE  \A m \in Message :
               In(m, "queued") /\ msg'[m].phase = "held" /\ msg[m].typed # None
                 => active' = msg[m].typed
  <2> SUFFICES ASSUME NEW m \in Message, In(m, "queued"), msg'[m].phase = "held",
                      msg[m].typed # None
               PROVE  active' = msg[m].typed
    OBVIOUS
  <2>1. conv \in {None, active'}
    BY <1>1, <1>2
  <2>2. msg[m].typed = conv
    BY <1>2 DEF In, ConvInv, QueueInv, TypedIn
  <2> QED
    BY <2>1, <2>2
<1> QED
  BY <1>2, ConversationInvariant, PTL DEF Spec, FlushStaysInTheChat

(* A transcript that has loaded is shown only if its session is the choice of *)
(* the moment (App.tsx 285-330): the guard of the loads is the choice.        *)
THEOREM OnlyChoice == Spec => OnlyTheChoiceIsShown
<1>1. ASSUME ConvInv, [Next]_vars
      PROVE  \A s \in Session :
               loads'[s] < loads[s] /\ chatVars' # chatVars => s = choice
  <2> SUFFICES ASSUME NEW s \in Session, loads'[s] < loads[s], chatVars' # chatVars
               PROVE  s = choice
    OBVIOUS
  <2>0. loads \in [Session -> 0 .. MaxMoves] /\ loads[s] \in Int /\ loads' # loads
    BY <1>1, ConversationAssumption DEF ConvInv, RouteInv, RouteType
  <2>1. PICK r \in Session : Pick(r) \/ Loaded(r)
    BY <1>1, <2>0 DEF Next, Submit, Cancel, Issue, Refused, Started, Ends, Completed, Failed,
       Cancelled, EndsWith, Toggle, NewChat, ClearChat, GoBack, vars, routeVars, boundVars
  <2>2. Loaded(r)
    BY <2>1 DEF Pick
  <2>3. r = s
    BY <2>0, <2>2 DEF Loaded
  <2>4. consumed = s
    BY <2>2, <2>3 DEF Loaded, StillWanted
  <2> QED
    BY <1>1, <2>4 DEF ConvInv, RouteInv, ChoiceIsConsumed
<1> QED
  BY <1>1, ConversationInvariant, PTL DEF Spec, OnlyTheChoiceIsShown
=============================================================================
