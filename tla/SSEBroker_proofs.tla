---------------------------- MODULE SSEBroker_proofs ----------------------------
(***************************************************************************)
(* Theorems about SSEBroker, for any number of publishers and streams and  *)
(* any sizes of the buffer and the channels.                               *)
(***************************************************************************)
EXTENDS SSEBroker, FiniteSets, FiniteSetTheorems, SequenceTheorems,
        WellFoundedInduction, TLAPS

USE DEF sseVars

-----------------------------------------------------------------------------
(* The inductive invariant *)

HandlesOK ==
  /\ clients \in [CorrelationIds -> Streams \cup {NoStream}]
  /\ stream \in [Streams -> {"idle", "queried", "open", "ended"}]
  /\ correlation \in [Streams -> CorrelationIds \cup {NoStream}]
  /\ isClosed \in [Streams -> BOOLEAN]
  /\ \A s \in Streams : stream[s] # "idle" => correlation[s] \in CorrelationIds

(* A channel is registered for what its stream asked for, and for no other *)
(* correlation id: closing it there removes the one place it is sent on.   *)
RegisteredWhereAsked ==
  \A id \in CorrelationIds :
    clients[id] # NoStream =>
      correlation[clients[id]] = id /\ stream[clients[id]] \in {"open", "ended"}

(* A channel is not closed before it is registered.                        *)
ClosedWasOpened ==
  \A s \in Streams : isClosed[s] => stream[s] \in {"open", "ended"}

RegisteredInv == HandlesOK /\ RegisteredWhereAsked /\ ClosedWasOpened /\ RegisteredIsOpen

-----------------------------------------------------------------------------
(* Every action keeps the invariant *)

(* A stream that asks is in nobody's place yet.                            *)
LEMMA QueryKeeps ==
  ASSUME RegisteredInv, NEW s \in Streams, NEW id \in CorrelationIds, NEW lastID, Query(s, id, lastID)
  PROVE  RegisteredInv'
  <1>1. /\ stream[s] = "idle" /\ stream'[s] = "queried" /\ correlation'[s] = id
        /\ \A t \in Streams \ {s} : stream'[t] = stream[t] /\ correlation'[t] = correlation[t]
        /\ clients' = clients /\ isClosed' = isClosed
    BY DEF Query, RegisteredInv, HandlesOK
  <1>2. HandlesOK'
    BY <1>1 DEF Query, RegisteredInv, HandlesOK
  <1>3. RegisteredWhereAsked'
    BY <1>1 DEF RegisteredInv, HandlesOK, RegisteredWhereAsked
  <1>4. ClosedWasOpened' /\ RegisteredIsOpen'
    BY <1>1 DEF RegisteredInv, HandlesOK, ClosedWasOpened, RegisteredIsOpen
  <1>5. QED
    BY <1>2, <1>3, <1>4 DEF RegisteredInv

(* A channel that takes another's place is open.                           *)
LEMMA SubscribeKeeps ==
  ASSUME RegisteredInv, NEW s \in Streams, Subscribe(s)
  PROVE  RegisteredInv'
  <1> DEFINE id == correlation[s]
  <1>1. /\ stream[s] = "queried" /\ stream'[s] = "open" /\ id \in CorrelationIds
        /\ \A t \in Streams \ {s} : stream'[t] = stream[t]
        /\ clients'[id] = s
        /\ \A other \in CorrelationIds \ {id} : clients'[other] = clients[other]
        /\ correlation' = correlation /\ isClosed' = isClosed
    BY DEF Subscribe, RegisteredInv, HandlesOK
  <1>2. HandlesOK'
    BY <1>1 DEF Subscribe, RegisteredInv, HandlesOK
  <1>3. \A other \in CorrelationIds : clients[other] # s
    BY <1>1, StreamAssumption DEF RegisteredInv, HandlesOK, RegisteredWhereAsked
  <1>4. RegisteredWhereAsked'
    BY <1>1, <1>3 DEF RegisteredInv, HandlesOK, RegisteredWhereAsked
  <1>5. ClosedWasOpened' /\ RegisteredIsOpen'
    BY <1>1, <1>3 DEF RegisteredInv, HandlesOK, ClosedWasOpened, RegisteredIsOpen
  <1>6. QED
    BY <1>2, <1>4, <1>5 DEF RegisteredInv

(* A stream that ends closes whichever channel has its place, and clears   *)
(* the place.                                                              *)
LEMMA EndKeeps ==
  ASSUME RegisteredInv, NEW s \in Streams, stream[s] = "open", End(s), correlation' = correlation
  PROVE  RegisteredInv'
  <1> DEFINE id == correlation[s]
  <1>1. /\ id \in CorrelationIds /\ stream'[s] = "ended"
        /\ \A t \in Streams \ {s} : stream'[t] = stream[t]
    BY DEF End, RegisteredInv, HandlesOK
  <1>2. CASE clients[id] = NoStream
    <2>1. clients' = clients /\ isClosed' = isClosed
      BY <1>2 DEF End, Unsubscribe
    <2>2. HandlesOK'
      BY <1>1, <2>1 DEF End, RegisteredInv, HandlesOK
    <2>3. RegisteredWhereAsked' /\ ClosedWasOpened' /\ RegisteredIsOpen'
      BY <1>1, <2>1
         DEF RegisteredInv, HandlesOK, RegisteredWhereAsked, ClosedWasOpened, RegisteredIsOpen
    <2>4. QED
      BY <2>2, <2>3 DEF RegisteredInv
  <1>3. CASE clients[id] # NoStream
    <2>1. /\ clients[id] \in Streams /\ clients'[id] = NoStream
          /\ \A other \in CorrelationIds \ {id} : clients'[other] = clients[other]
          /\ \A t \in Streams \ {clients[id]} : isClosed'[t] = isClosed[t]
          /\ clients' \in [CorrelationIds -> Streams \cup {NoStream}]
          /\ isClosed' \in [Streams -> BOOLEAN]
      BY <1>1, <1>3 DEF End, Unsubscribe, RegisteredInv, HandlesOK
    <2>2. HandlesOK'
      BY <1>1, <2>1 DEF End, RegisteredInv, HandlesOK
    <2>3. \A other \in CorrelationIds \ {id} :
            clients[other] # NoStream => clients[other] # clients[id]
      BY <1>1, <1>3 DEF RegisteredInv, RegisteredWhereAsked
    <2>4. RegisteredWhereAsked'
      BY <1>1, <2>1 DEF RegisteredInv, HandlesOK, RegisteredWhereAsked
    <2>5. ClosedWasOpened'
      BY <1>1, <1>3, <2>1 DEF RegisteredInv, HandlesOK, RegisteredWhereAsked, ClosedWasOpened
    <2>6. RegisteredIsOpen'
      BY <1>1, <2>1, <2>3 DEF RegisteredInv, HandlesOK, RegisteredIsOpen
    <2>7. QED
      BY <2>2, <2>4, <2>5, <2>6 DEF RegisteredInv
  <1>4. QED
    BY <1>2, <1>3

LEMMA HandlesKept ==
  ASSUME RegisteredInv, [SSENext]_sseVars
  PROVE  RegisteredInv'
  <1>1. ASSUME UNCHANGED <<clients, stream, correlation, isClosed>>
        PROVE  RegisteredInv'
    BY <1>1
       DEF RegisteredInv, HandlesOK, RegisteredWhereAsked, ClosedWasOpened, RegisteredIsOpen
  <1>2. ASSUME NEW p \in Publishers, DrawID(p)
        PROVE  RegisteredInv'
    BY <1>1, <1>2 DEF DrawID
  <1>3. ASSUME NEW p \in Publishers, NEW id \in CorrelationIds, Publish(p, id)
        PROVE  RegisteredInv'
    BY <1>1, <1>3 DEF Publish
  <1>4. ASSUME NEW s \in Streams, NEW id \in CorrelationIds, NEW lastID \in 0..MaxEvents,
               Query(s, id, lastID)
        PROVE  RegisteredInv'
    BY <1>4, QueryKeeps
  <1>5. ASSUME NEW s \in Streams, Write(s)
        PROVE  RegisteredInv'
    <2>1. CASE Subscribe(s)
      BY <1>5, <2>1, SubscribeKeeps
    <2>2. CASE Replay(s) \/ Follow(s)
      BY <1>1, <2>2 DEF Replay, Follow
    <2>3. CASE ChannelEnds(s)
      BY <1>5, <2>3, EndKeeps DEF ChannelEnds
    <2>4. QED
      BY <1>5, <2>1, <2>2, <2>3 DEF Write
  <1>6. ASSUME NEW s \in Streams, StreamFails(s)
        PROVE  RegisteredInv'
    BY <1>6, EndKeeps DEF StreamFails
  <1>7. CASE UNCHANGED sseVars
    BY <1>1, <1>7
  <1>8. QED
    BY <1>2, <1>3, <1>4, <1>5, <1>6, <1>7 DEF SSENext

-----------------------------------------------------------------------------
(* No event is sent on a closed channel: whichever stream's end closed it, *)
(* it is not registered any more, under its correlation id or another.     *)
(* (sse.go, Unsubscribe and Publish)                                       *)
THEOREM RegisteredStaysOpen == SSESpec => []RegisteredIsOpen
  <1>1. SSEInit => RegisteredInv
    BY DEF SSEInit, RegisteredInv, HandlesOK, RegisteredWhereAsked, ClosedWasOpened, RegisteredIsOpen
  <1>2. RegisteredInv => RegisteredIsOpen
    BY DEF RegisteredInv
  <1>3. QED
    BY <1>1, <1>2, HandlesKept, PTL DEF SSESpec

-----------------------------------------------------------------------------
(* EventsSince: induction over the length of the buffer, as a search for   *)
(* the least length for which a claim fails.                               *)

(* A set of naturals that is not empty has a least member.                 *)
LEMMA LeastOf ==
  ASSUME NEW S, S \subseteq Nat, S # {}
  PROVE  \E i \in S : \A j \in S : i <= j
<1>1. IsWellFoundedOn(OpToRel(<, Nat), Nat)  BY NatLessThanWellFounded
<1>2. PICK i \in S : \A j \in S : ~(<<j, i>> \in OpToRel(<, Nat))
  BY <1>1, WFMin
<1>3. ASSUME NEW j \in S PROVE i <= j
  <2>1. ~(<<j, i>> \in OpToRel(<, Nat))  BY <1>2
  <2>2. i \in Nat /\ j \in Nat          OBVIOUS
  <2>3. ~(j < i)                         BY <2>1, <2>2 DEF OpToRel
  <2>. QED  BY <2>2, <2>3
<1>. QED  BY <1>3

(* What the equation of since says of its value for n.                     *)
SinceStep(lastID, f, n) ==
  IF n = 0 THEN <<>>
  ELSE IF buffer[n].id > lastID THEN Append(f[n - 1], buffer[n])
  ELSE f[n - 1]

SolvesSince(lastID, f, m) == f = [n \in 0..m |-> SinceStep(lastID, f, n)]

(* The equation has a solution, for a buffer of any length.                *)
LEMMA SinceHasSolution ==
  ASSUME NEW lastID, NEW m \in Nat
  PROVE  \E f : SolvesSince(lastID, f, m)
<1> DEFINE Without == {n \in Nat : ~\E f : SolvesSince(lastID, f, n)}
<1>1. SUFFICES ASSUME Without # {} PROVE FALSE
  OBVIOUS
<1>2. PICK least \in Without : \A j \in Without : least <= j
  BY <1>1, LeastOf
<1>3. CASE least = 0
  <2> DEFINE g == [n \in 0..0 |-> <<>>]
  <2>1. \A n \in 0..0 : SinceStep(lastID, g, n) = <<>>
    BY DEF SinceStep
  <2>2. SolvesSince(lastID, g, 0)
    BY <2>1 DEF SolvesSince
  <2>. QED  BY <1>2, <1>3, <2>2
<1>4. CASE least # 0
  <2>1. least - 1 \in Nat /\ least - 1 \notin Without
    BY <1>2, <1>4
  <2>2. PICK f : SolvesSince(lastID, f, least - 1)
    BY <2>1
  <2> DEFINE g == [n \in 0..least |-> SinceStep(lastID, f, n)]
  <2>3. ASSUME NEW n \in 0..least
        PROVE  SinceStep(lastID, g, n) = SinceStep(lastID, f, n)
    <3>1. CASE n = 0
      BY <3>1 DEF SinceStep
    <3>2. CASE n # 0
      <4>1. n - 1 \in 0..least /\ n - 1 \in 0..least - 1
        BY <2>1, <3>2
      <4>2. g[n - 1] = SinceStep(lastID, f, n - 1)
        BY <4>1
      <4>3. f[n - 1] = SinceStep(lastID, f, n - 1)
        BY <2>2, <4>1 DEF SolvesSince
      <4>4. g[n - 1] = f[n - 1]
        BY <4>2, <4>3
      <4> HIDE DEF g
      <4>. QED  BY <4>4 DEF SinceStep
    <3>. QED  BY <3>1, <3>2
  <2>4. g = [n \in 0..least |-> SinceStep(lastID, g, n)]
    BY <2>3
  <2> HIDE DEF g
  <2>5. SolvesSince(lastID, g, least)
    BY <2>4 DEF SolvesSince
  <2>. QED  BY <1>2, <2>5
<1>. QED  BY <1>3, <1>4

(* EventsSince is the last value of a solution.                            *)
LEMMA EventsSinceSolves ==
  ASSUME NEW lastID, Len(buffer) \in Nat
  PROVE  \E f : SolvesSince(lastID, f, Len(buffer)) /\ EventsSince(lastID) = f[Len(buffer)]
<1> DEFINE f == CHOOSE f : f = [n \in 0..Len(buffer) |-> SinceStep(lastID, f, n)]
<1>1. \E g : g = [n \in 0..Len(buffer) |-> SinceStep(lastID, g, n)]
  BY SinceHasSolution DEF SolvesSince
<1>2. SolvesSince(lastID, f, Len(buffer))
  BY <1>1 DEF SolvesSince
<1>3. EventsSince(lastID) = f[Len(buffer)]
  BY DEF EventsSince, SinceStep
<1>. QED  BY <1>2, <1>3

(* The events of q are in the order in which they entered the buffer.      *)
InPlace(q) == \A i, j \in 1..Len(q) : i < j => q[i].place < q[j].place

LEMMA PlacesAreNumbers ==
  ASSUME NEW q \in Seq(Events), NEW i \in 1..Len(q)
  PROVE  q[i] \in Events /\ q[i].place \in Int
<1>1. q[i] \in Events
  BY ElementOfSeq
<1>2. \A e \in Events : e.place \in Int
  BY DEF Events
<1>. QED  BY <1>1, <1>2

(* An event that came later goes to the end.                               *)
LEMMA LaterGoesLast ==
  ASSUME NEW q \in Seq(Events), InPlace(q), NEW e \in Events,
         \A i \in 1..Len(q) : q[i].place < e.place
  PROVE  Append(q, e) \in Seq(Events) /\ InPlace(Append(q, e))
<1>1. /\ Append(q, e) \in Seq(Events) /\ Len(Append(q, e)) = Len(q) + 1
      /\ \A i \in 1..Len(q) : Append(q, e)[i] = q[i]
      /\ Append(q, e)[Len(q) + 1] = e
  BY AppendProperties
<1>2. Len(q) \in Nat
  BY LenProperties
<1>3. ASSUME NEW i \in 1..Len(q) + 1, NEW j \in 1..Len(q) + 1, i < j
      PROVE  Append(q, e)[i].place < Append(q, e)[j].place
  <2>1. i \in 1..Len(q) /\ Append(q, e)[i] = q[i]
    BY <1>1, <1>2, <1>3
  <2>2. CASE j = Len(q) + 1
    BY <1>1, <2>1, <2>2
  <2>3. CASE j # Len(q) + 1
    <3>1. j \in 1..Len(q) /\ Append(q, e)[j] = q[j]
      BY <1>1, <1>2, <2>3
    <3>. QED  BY <1>3, <2>1, <3>1 DEF InPlace
  <2>. QED  BY <2>2, <2>3
<1>. QED  BY <1>1, <1>3 DEF InPlace

(* What a buffer in order replays is in order and comes from the buffer.   *)
LEMMA ReplayIsInPlace ==
  ASSUME NEW lastID, buffer \in Seq(Events), InPlace(buffer)
  PROVE  /\ EventsSince(lastID) \in Seq(Events) /\ InPlace(EventsSince(lastID))
         /\ \A i \in 1..Len(EventsSince(lastID)) :
              \E j \in 1..Len(buffer) : EventsSince(lastID)[i] = buffer[j]
<1> DEFINE From(q, n) == \A i \in 1..Len(q) : \E j \in 1..n : q[i] = buffer[j]
           Good(q, n) == q \in Seq(Events) /\ InPlace(q) /\ From(q, n)
<1>1. Len(buffer) \in Nat /\ \A n \in 1..Len(buffer) : buffer[n] \in Events
  BY LenProperties, ElementOfSeq
<1>2. PICK f : SolvesSince(lastID, f, Len(buffer)) /\ EventsSince(lastID) = f[Len(buffer)]
  BY <1>1, EventsSinceSolves
<1>3. \A n \in 0..Len(buffer) : f[n] = SinceStep(lastID, f, n)
  BY <1>2 DEF SolvesSince
<1> DEFINE Bad == {n \in 0..Len(buffer) : ~Good(f[n], n)}
<1>4. ASSUME Bad # {} PROVE FALSE
  <2>1. Bad \subseteq Nat
    BY <1>1
  <2>2. PICK n \in Bad : \A j \in Bad : n <= j
    BY <1>4, <2>1, LeastOf
  <2>3. n \in 0..Len(buffer) /\ ~Good(f[n], n)
    BY <2>2
  <2>4. CASE n = 0
    <3>1. f[n] = <<>>
      BY <1>3, <2>3, <2>4 DEF SinceStep
    <3>2. <<>> \in Seq(Events) /\ Len(<<>>) = 0
      BY EmptySeq
    <3>3. InPlace(<<>>) /\ From(<<>>, n)
      BY <3>2 DEF InPlace
    <3>. QED  BY <2>3, <3>1, <3>2, <3>3
  <2>5. CASE n # 0
    <3> DEFINE q == f[n - 1]
    <3>1. n \in 1..Len(buffer) /\ n - 1 \in 0..Len(buffer) /\ ~(n <= n - 1)
      BY <1>1, <2>3, <2>5
    <3>2. n - 1 \notin Bad
      BY <2>2, <3>1
    <3>3. Good(q, n - 1)
      BY <3>1, <3>2
    <3>4. f[n] = Append(q, buffer[n]) \/ f[n] = q
      BY <1>3, <2>5, <3>1 DEF SinceStep
    <3>5. Good(q, n)
      BY <3>1, <3>3
    <3>6. Good(Append(q, buffer[n]), n)
      <4> HIDE DEF q
      <4>1. buffer[n] \in Events /\ Len(q) \in Nat
        BY <1>1, <3>1, <3>3, LenProperties
      <4>2. ASSUME NEW i \in 1..Len(q) PROVE q[i].place < buffer[n].place
        <5>1. PICK j \in 1..n - 1 : q[i] = buffer[j]
          BY <3>3, <4>2
        <5>2. j \in 1..Len(buffer) /\ j < n
          BY <1>1, <3>1
        <5>. QED  BY <3>1, <5>1, <5>2 DEF InPlace
      <4>3. Append(q, buffer[n]) \in Seq(Events) /\ InPlace(Append(q, buffer[n]))
        BY <3>3, <4>1, <4>2, LaterGoesLast
      <4>4. /\ Len(Append(q, buffer[n])) = Len(q) + 1
            /\ \A i \in 1..Len(q) : Append(q, buffer[n])[i] = q[i]
            /\ Append(q, buffer[n])[Len(q) + 1] = buffer[n]
        BY <3>3, <4>1, AppendProperties
      <4>5. ASSUME NEW i \in 1..Len(q) + 1
            PROVE  \E j \in 1..n : Append(q, buffer[n])[i] = buffer[j]
        <5>1. CASE i = Len(q) + 1
          BY <3>1, <4>4, <5>1
        <5>2. CASE i # Len(q) + 1
          <6>1. i \in 1..Len(q)
            BY <4>1, <5>2
          <6>. QED  BY <3>5, <4>4, <6>1
        <5>. QED  BY <5>1, <5>2
      <4>. QED  BY <4>3, <4>4, <4>5
    <3>. QED  BY <2>3, <3>4, <3>5, <3>6
  <2>. QED  BY <2>4, <2>5
<1>5. Len(buffer) \in 0..Len(buffer) /\ Len(buffer) \notin Bad
  BY <1>1, <1>4
<1>6. Good(f[Len(buffer)], Len(buffer))
  BY <1>5
<1>. QED  BY <1>2, <1>6

-----------------------------------------------------------------------------
(* The order of a stream *)

(* Publishers that hold an id: what was drawn is committed or held.        *)
Holding == {p \in Publishers : drawn[p] # 0}
HeldOrCommitted ==
  /\ IsFiniteSet(Holding)
  /\ committed \in Nat /\ nextID = committed + Cardinality(Holding)

BufferInPlace ==
  /\ InPlace(buffer)
  /\ \A i \in 1..Len(buffer) : buffer[i].place <= committed

(* What a stream wrote, has to replay and has in its channel.              *)
Pending(s) == written[s] \o replay[s] \o channel[s]

StreamInPlace ==
  \A s \in Streams :
    /\ InPlace(Pending(s))
    /\ \A i \in 1..Len(Pending(s)) : Pending(s)[i].place <= committed

(* A stream that has not asked yet has written nothing and is sent nothing.*)
NothingBeforeOpen ==
  \A s \in Streams :
    stream[s] \in {"idle", "queried"} => written[s] = <<>> /\ channel[s] = <<>>

OrderInv ==
  SSETypeOK /\ HeldOrCommitted /\ BufferInPlace /\ StreamInPlace /\ NothingBeforeOpen
   /\ RegisteredInv

(* What is pending is a sequence of events, in order when InPlace says so. *)
LEMMA PendingIsSeq ==
  ASSUME SSETypeOK, NEW s \in Streams
  PROVE  Pending(s) \in Seq(Events) /\ Len(Pending(s)) \in Nat
<1>1. written[s] \in Seq(Events) /\ replay[s] \in Seq(Events) /\ channel[s] \in Seq(Events)
  BY DEF SSETypeOK
<1>2. written[s] \o replay[s] \in Seq(Events)
  BY <1>1, ConcatProperties
<1>3. Pending(s) \in Seq(Events)
  BY <1>1, <1>2, ConcatProperties DEF Pending
<1>. QED  BY <1>3, LenProperties

(* Taking the head of r to the end of w changes nothing in w and then r.   *)
LEMMA MovingHead ==
  ASSUME NEW w \in Seq(Events), NEW r \in Seq(Events), r # <<>>
  PROVE  /\ Head(r) \in Events /\ Tail(r) \in Seq(Events) /\ Append(w, Head(r)) \in Seq(Events)
         /\ Len(Tail(r)) = Len(r) - 1 /\ Len(r) \in Nat \ {0}
         /\ Append(w, Head(r)) \o Tail(r) = w \o r
<1> DEFINE aw == Append(w, Head(r))
<1>1. /\ Head(r) \in Events /\ Tail(r) \in Seq(Events) /\ Len(Tail(r)) = Len(r) - 1
      /\ \A i \in 1..Len(Tail(r)) : Tail(r)[i] = r[i + 1]
  BY HeadTailProperties
<1>2. Head(r) = r[1]
  OBVIOUS
<1>3. /\ aw \in Seq(Events) /\ Len(aw) = Len(w) + 1
      /\ \A i \in 1..Len(w) : aw[i] = w[i]
      /\ aw[Len(w) + 1] = r[1]
  BY <1>1, <1>2, AppendProperties
<1>4. Len(w) \in Nat /\ Len(r) \in Nat \ {0}
  BY EmptySeq, LenProperties
<1> HIDE DEF aw
<1>5. /\ aw \o Tail(r) \in Seq(Events) /\ Len(aw \o Tail(r)) = Len(aw) + Len(Tail(r))
      /\ \A i \in 1..Len(aw) + Len(Tail(r)) :
           (aw \o Tail(r))[i] = IF i <= Len(aw) THEN aw[i] ELSE Tail(r)[i - Len(aw)]
  BY <1>1, <1>3, ConcatProperties
<1>6. /\ w \o r \in Seq(Events) /\ Len(w \o r) = Len(w) + Len(r)
      /\ \A i \in 1..Len(w) + Len(r) :
           (w \o r)[i] = IF i <= Len(w) THEN w[i] ELSE r[i - Len(w)]
  BY ConcatProperties
<1>7. Len(aw \o Tail(r)) = Len(w \o r)
  BY <1>1, <1>3, <1>4, <1>5, <1>6
<1>8. ASSUME NEW i \in 1..Len(w) + Len(r)
      PROVE  (aw \o Tail(r))[i] = (w \o r)[i]
  <2>1. CASE i <= Len(w)
    <3>1. i <= Len(aw) /\ i \in 1..Len(w) /\ i \in 1..Len(aw) + Len(Tail(r))
      BY <1>1, <1>3, <1>4, <2>1
    <3>. QED  BY <1>3, <1>5, <1>6, <2>1, <3>1
  <2>2. CASE i = Len(w) + 1
    <3>1. i <= Len(aw) /\ ~(i <= Len(w)) /\ i - Len(w) = 1 /\ i \in 1..Len(aw) + Len(Tail(r))
      BY <1>1, <1>3, <1>4, <2>2
    <3>. QED  BY <1>3, <1>5, <1>6, <2>2, <3>1
  <2>3. CASE i > Len(w) + 1
    <3> DEFINE k == i - Len(aw)
    <3>1. /\ ~(i <= Len(aw)) /\ ~(i <= Len(w)) /\ i \in 1..Len(aw) + Len(Tail(r))
          /\ k \in 1..Len(Tail(r)) /\ k + 1 = i - Len(w)
      BY <1>1, <1>3, <1>4, <2>3
    <3>2. Tail(r)[k] = r[i - Len(w)]
      BY <1>1, <3>1
    <3>. QED  BY <1>5, <1>6, <3>1, <3>2
  <2>4. i <= Len(w) \/ i = Len(w) + 1 \/ i > Len(w) + 1
    BY <1>4
  <2>. QED  BY <2>1, <2>2, <2>3, <2>4
<1>9. \A i \in 1..Len(aw \o Tail(r)) : (aw \o Tail(r))[i] = (w \o r)[i]
  BY <1>6, <1>7, <1>8
<1>10. aw \o Tail(r) = w \o r
  <2> DEFINE x == aw \o Tail(r)
             y == w \o r
  <2>1. x \in Seq(Events) /\ y \in Seq(Events) /\ Len(x) = Len(y) /\ \A i \in 1..Len(x) : x[i] = y[i]
    BY <1>5, <1>6, <1>7, <1>9
  <2> HIDE DEF x, y
  <2>2. x = y
    BY <2>1, SeqEqual
  <2>. QED  BY <2>2 DEF x, y
<1>. QED  BY <1>1, <1>3, <1>4, <1>10 DEF aw

(* An event at the end of c is at the end of all that is pending.          *)
LEMMA AppendingLast ==
  ASSUME NEW w \in Seq(Events), NEW c \in Seq(Events), NEW e \in Events
  PROVE  w \o Append(c, e) = Append(w \o c, e)
<1>1. <<e>> \in Seq(Events)
  OBVIOUS
<1>2. w \o c \in Seq(Events)
  BY ConcatProperties
<1>3. Append(c, e) = c \o <<e>> /\ Append(w \o c, e) = (w \o c) \o <<e>>
  BY <1>2, AppendIsConcat
<1>4. (w \o c) \o <<e>> = w \o (c \o <<e>>)
  BY <1>1, ConcatAssociative
<1>. QED  BY <1>3, <1>4

(* What enters the buffer, or leaves it at the other end, keeps its order. *)
LEMMA BufferMovesOn ==
  ASSUME SSETypeOK, BufferInPlace, committed \in Nat, NEW e \in Events, e.place = committed + 1,
         committed' = committed + 1,
         buffer' = Append(IF Len(buffer) >= BufferSize THEN Tail(buffer) ELSE buffer, e)
  PROVE  BufferInPlace' /\ buffer' \in Seq(Events) /\ Len(buffer') <= BufferSize
<1> DEFINE kept == IF Len(buffer) >= BufferSize THEN Tail(buffer) ELSE buffer
<1>1. /\ buffer \in Seq(Events) /\ Len(buffer) \in Nat /\ Len(buffer) <= BufferSize
      /\ BufferSize \in Nat \ {0}
  BY StreamAssumption, LenProperties DEF SSETypeOK
<1>2. /\ kept \in Seq(Events) /\ InPlace(kept)
      /\ \A i \in 1..Len(kept) : kept[i].place <= committed
      /\ Len(kept) < BufferSize
  <2>1. CASE Len(buffer) >= BufferSize
    <3>1. Len(buffer) # 0
      BY <1>1, <2>1
    <3>2. buffer # <<>>
      BY <3>1
    <3>3. /\ Tail(buffer) \in Seq(Events) /\ Len(Tail(buffer)) = Len(buffer) - 1
          /\ \A i \in 1..Len(Tail(buffer)) : Tail(buffer)[i] = buffer[i + 1]
      BY <1>1, <3>2, HeadTailProperties
    <3>4. kept = Tail(buffer) /\ Len(Tail(buffer)) < BufferSize
      BY <1>1, <2>1, <3>3
    <3>5. ASSUME NEW i \in 1..Len(Tail(buffer))
          PROVE  i + 1 \in 1..Len(buffer) /\ Tail(buffer)[i] = buffer[i + 1]
      BY <1>1, <3>3
    <3>6. \A i \in 1..Len(Tail(buffer)) : Tail(buffer)[i].place <= committed
      BY <3>5 DEF BufferInPlace
    <3>7. ASSUME NEW i \in 1..Len(Tail(buffer)), NEW j \in 1..Len(Tail(buffer)), i < j
          PROVE  Tail(buffer)[i].place < Tail(buffer)[j].place
      <4>1. i + 1 < j + 1
        BY <3>7
      <4>2. buffer[i + 1].place < buffer[j + 1].place
        BY <3>5, <4>1 DEF BufferInPlace, InPlace
      <4>. QED  BY <3>5, <4>2
    <3>8. InPlace(Tail(buffer))
      BY <3>7 DEF InPlace
    <3> HIDE DEF kept
    <3>. QED  BY <3>3, <3>4, <3>6, <3>8
  <2>2. CASE ~(Len(buffer) >= BufferSize)
    <3>1. kept = buffer /\ Len(buffer) < BufferSize
      BY <1>1, <2>2
    <3> HIDE DEF kept
    <3>. QED  BY <1>1, <3>1 DEF BufferInPlace
  <2>. QED  BY <2>1, <2>2
<1>3. buffer' = Append(kept, e)
  OBVIOUS
<1> HIDE DEF kept
<1>4. /\ Append(kept, e) \in Seq(Events) /\ Len(Append(kept, e)) = Len(kept) + 1
      /\ \A i \in 1..Len(kept) : Append(kept, e)[i] = kept[i]
      /\ Append(kept, e)[Len(kept) + 1] = e
      /\ Len(kept) \in Nat
  BY <1>2, AppendProperties, LenProperties
<1>5. \A i \in 1..Len(kept) : kept[i].place < e.place
  <2>1. \A i \in 1..Len(kept) : kept[i].place \in Int
    BY <1>2, PlacesAreNumbers
  <2>. QED  BY <1>2, <2>1
<1>6. InPlace(buffer')
  BY <1>2, <1>3, <1>5, LaterGoesLast
<1>7. ASSUME NEW i \in 1..Len(buffer') PROVE buffer'[i].place <= committed'
  <2>1. CASE i = Len(kept) + 1
    BY <1>3, <1>4, <2>1
  <2>2. CASE i # Len(kept) + 1
    <3>1. i \in 1..Len(kept)
      BY <1>3, <1>4, <2>2
    <3>2. buffer'[i].place < e.place
      BY <1>3, <1>4, <1>5, <3>1
    <3>3. buffer'[i].place \in Int
      BY <1>2, <1>3, <1>4, <3>1, PlacesAreNumbers
    <3>. QED  BY <3>2, <3>3
  <2>. QED  BY <2>1, <2>2
<1>8. Len(buffer') <= BufferSize
  BY <1>1, <1>2, <1>3, <1>4
<1>. QED  BY <1>3, <1>4, <1>6, <1>7, <1>8 DEF BufferInPlace

(* A drawn id that is committed leaves one publisher less with an id.      *)
LEMMA CommittingHeld ==
  ASSUME SSETypeOK, HeldOrCommitted, NEW p \in Publishers, drawn[p] # 0,
         drawn' = [drawn EXCEPT ![p] = 0], committed' = committed + 1, nextID' = nextID
  PROVE  HeldOrCommitted' /\ committed + 1 \in 1..nextID /\ nextID \in 0..MaxEvents
<1>1. drawn \in [Publishers -> 0..MaxEvents] /\ nextID \in 0..MaxEvents /\ MaxEvents \in Nat
  BY StreamAssumption DEF SSETypeOK
<1>2. Holding' = Holding \ {p} /\ p \in Holding
  BY <1>1 DEF Holding
<1>3. /\ IsFiniteSet(Holding \ {p}) /\ Cardinality(Holding \ {p}) = Cardinality(Holding) - 1
      /\ Cardinality(Holding) \in Nat /\ Cardinality(Holding \ {p}) \in Nat
  BY <1>2, FS_RemoveElement, FS_CardinalityType DEF HeldOrCommitted
<1>. QED  BY <1>1, <1>2, <1>3 DEF HeldOrCommitted

LEMMA DrawingHeld ==
  ASSUME SSETypeOK, HeldOrCommitted, NEW p \in Publishers, DrawID(p)
  PROVE  HeldOrCommitted'
<1>1. /\ drawn \in [Publishers -> 0..MaxEvents] /\ nextID \in Nat /\ drawn[p] = 0
      /\ drawn' = [drawn EXCEPT ![p] = nextID + 1] /\ nextID' = nextID + 1
      /\ committed' = committed
  BY StreamAssumption DEF SSETypeOK, DrawID
<1>2. Holding' = Holding \cup {p} /\ p \notin Holding
  BY <1>1 DEF Holding
<1>3. /\ IsFiniteSet(Holding \cup {p}) /\ Cardinality(Holding \cup {p}) = Cardinality(Holding) + 1
      /\ Cardinality(Holding) \in Nat
  BY <1>2, FS_AddElement, FS_CardinalityType DEF HeldOrCommitted
<1>. QED  BY <1>1, <1>2, <1>3 DEF HeldOrCommitted

(* What is pending of one stream moves on in order when nothing is added,  *)
(* or one event that has just entered the buffer.                          *)
LEMMA PendingGrows ==
  ASSUME SSETypeOK, StreamInPlace, committed \in Nat, NEW e \in Events, NEW s \in Streams,
         e.place = committed + 1, committed' = committed + 1,
         Pending(s)' \in {Pending(s), Append(Pending(s), e)}
  PROVE  /\ InPlace(Pending(s)')
         /\ \A i \in 1..Len(Pending(s)') : Pending(s)'[i].place <= committed'
<1> DEFINE q == Pending(s)
<1>1. /\ q \in Seq(Events) /\ Len(q) \in Nat /\ InPlace(q)
      /\ \A i \in 1..Len(q) : q[i].place <= committed
  BY PendingIsSeq DEF StreamInPlace
<1>2. Pending(s)' = q \/ Pending(s)' = Append(q, e)
  OBVIOUS
<1> HIDE DEF q
<1>3. \A i \in 1..Len(q) : q[i].place \in Int
  BY <1>1, PlacesAreNumbers
<1>4. \A i \in 1..Len(q) : q[i].place < e.place
  BY <1>1, <1>3
<1>5. InPlace(q) /\ InPlace(Append(q, e))
  BY <1>1, <1>4, LaterGoesLast
<1>6. \A i \in 1..Len(q) : q[i].place <= committed + 1
  BY <1>1, <1>3
<1>7. /\ Len(Append(q, e)) = Len(q) + 1
      /\ \A i \in 1..Len(q) : Append(q, e)[i] = q[i]
      /\ Append(q, e)[Len(q) + 1] = e
  BY <1>1, AppendProperties
<1>8. ASSUME NEW i \in 1..Len(q) + 1 PROVE Append(q, e)[i].place <= committed + 1
  <2>1. CASE i = Len(q) + 1
    BY <1>7, <2>1
  <2>2. CASE i # Len(q) + 1
    <3>1. i \in 1..Len(q)
      BY <1>1, <2>2
    <3>. QED  BY <1>6, <1>7, <3>1
  <2>. QED  BY <2>1, <2>2
<1>9. \A i \in 1..Len(Append(q, e)) : Append(q, e)[i].place <= committed + 1
  BY <1>7, <1>8
<1>. QED  BY <1>2, <1>5, <1>6, <1>9

(* An event that is published goes to the end of the buffer and of the one *)
(* registered channel, if that has room.                                   *)
LEMMA PublishKeepsOrder ==
  ASSUME OrderInv, NEW p \in Publishers, NEW id \in CorrelationIds, Publish(p, id)
  PROVE  /\ SSETypeOK' /\ HeldOrCommitted' /\ BufferInPlace' /\ StreamInPlace'
         /\ NothingBeforeOpen'
<1> DEFINE e == [id |-> drawn[p], place |-> committed + 1, to |-> id]
           t == clients[id]
<1>1. /\ SSETypeOK /\ HeldOrCommitted /\ BufferInPlace /\ StreamInPlace /\ NothingBeforeOpen
      /\ RegisteredWhereAsked /\ committed \in Nat
  BY DEF OrderInv, RegisteredInv, HeldOrCommitted
<1>2. /\ drawn[p] # 0 /\ drawn' = [drawn EXCEPT ![p] = 0] /\ committed' = committed + 1
      /\ buffer' = Append(IF Len(buffer) >= BufferSize THEN Tail(buffer) ELSE buffer, e)
      /\ channel' = IF t = NoStream \/ Len(channel[t]) >= ChannelSize THEN channel
                    ELSE [channel EXCEPT ![t] = Append(@, e)]
      /\ UNCHANGED <<nextID, clients, stream, correlation, replay, isClosed, written>>
  BY DEF Publish
<1>3. HeldOrCommitted' /\ committed + 1 \in 1..nextID /\ nextID \in 0..MaxEvents
  BY <1>1, <1>2, CommittingHeld
<1>4. e \in Events /\ e.place = committed + 1
  <2>1. drawn[p] \in 1..MaxEvents
    <3>1. drawn[p] \in 0..MaxEvents /\ MaxEvents \in Nat
      BY <1>1, StreamAssumption DEF SSETypeOK
    <3>. QED  BY <1>2, <3>1
  <2>2. committed + 1 \in 1..MaxEvents
    BY <1>1, <1>3, StreamAssumption
  <2>. QED  BY <2>1, <2>2 DEF Events
<1> HIDE DEF e
<1>5. BufferInPlace' /\ buffer' \in Seq(Events) /\ Len(buffer') <= BufferSize
  BY <1>1, <1>2, <1>4, BufferMovesOn
<1>6. ASSUME channel' \in [Streams -> Seq(Events)],
             \A s \in Streams : Len(channel'[s]) <= ChannelSize
      PROVE  SSETypeOK'
  <2>1. drawn' \in [Publishers -> 0..MaxEvents]
    <3>1. drawn \in [Publishers -> 0..MaxEvents] /\ 0 \in 0..MaxEvents
      BY <1>1, StreamAssumption DEF SSETypeOK
    <3>. QED  BY <1>2, <3>1
  <2>2. nextID' \in 0..MaxEvents /\ committed' \in 0..nextID'
    BY <1>2, <1>3
  <2>3. UNCHANGED <<clients, stream, correlation, replay, isClosed, written>>
    BY <1>2
  <2>. QED  BY <1>1, <1>5, <1>6, <2>1, <2>2, <2>3 DEF SSETypeOK
<1>7. CASE channel' = channel
  <2>1. SSETypeOK'
    BY <1>1, <1>6, <1>7 DEF SSETypeOK
  <2>2. ASSUME NEW s \in Streams
        PROVE  /\ InPlace(Pending(s)')
               /\ \A i \in 1..Len(Pending(s)') : Pending(s)'[i].place <= committed'
    <3>1. Pending(s)' = Pending(s)
      BY <1>2, <1>7 DEF Pending
    <3>. QED  BY <1>1, <1>2, <1>4, <3>1, PendingGrows
  <2>3. StreamInPlace'
    BY <2>2 DEF StreamInPlace
  <2>4. NothingBeforeOpen'
    BY <1>1, <1>2, <1>7 DEF NothingBeforeOpen
  <2>. QED  BY <1>3, <1>5, <2>1, <2>3, <2>4
<1>8. CASE channel' # channel
  <2>1. /\ t # NoStream /\ t \in Streams /\ ~(Len(channel[t]) >= ChannelSize)
        /\ channel' = [channel EXCEPT ![t] = Append(@, e)]
    BY <1>1, <1>2, <1>8 DEF SSETypeOK
  <2>2. /\ channel \in [Streams -> Seq(Events)] /\ ChannelSize \in Nat
        /\ channel[t] \in Seq(Events) /\ Len(channel[t]) \in Nat
    BY <1>1, <2>1, StreamAssumption, LenProperties DEF SSETypeOK
  <2>3. /\ Append(channel[t], e) \in Seq(Events)
        /\ Len(Append(channel[t], e)) <= ChannelSize
    <3>1. Len(Append(channel[t], e)) = Len(channel[t]) + 1
      BY <1>4, <2>2, AppendProperties
    <3>2. Append(channel[t], e) \in Seq(Events)
      BY <1>4, <2>2, AppendProperties
    <3>. QED  BY <2>1, <2>2, <3>1, <3>2
  <2>4. /\ channel' \in [Streams -> Seq(Events)] /\ channel'[t] = Append(channel[t], e)
        /\ \A s \in Streams \ {t} : channel'[s] = channel[s]
    BY <2>1, <2>2, <2>3
  <2>5. \A s \in Streams : Len(channel'[s]) <= ChannelSize
    BY <1>1, <2>3, <2>4 DEF SSETypeOK
  <2>6. SSETypeOK'
    BY <1>6, <2>4, <2>5
  <2>7. ASSUME NEW s \in Streams
        PROVE  /\ InPlace(Pending(s)')
               /\ \A i \in 1..Len(Pending(s)') : Pending(s)'[i].place <= committed'
    <3>1. CASE s # t
      <4>1. Pending(s)' = Pending(s)
        BY <1>2, <2>4, <3>1 DEF Pending
      <4>. QED  BY <1>1, <1>2, <1>4, <4>1, PendingGrows
    <3>2. CASE s = t
      <4>1. written[t] \in Seq(Events) /\ replay[t] \in Seq(Events)
        BY <1>1, <2>1 DEF SSETypeOK
      <4>2. written[t] \o replay[t] \in Seq(Events)
        BY <4>1, ConcatProperties
      <4>3. Pending(t)' = (written[t] \o replay[t]) \o Append(channel[t], e)
        BY <1>2, <2>4 DEF Pending
      <4>4. \A w \in Seq(Events) : w \o Append(channel[t], e) = Append(w \o channel[t], e)
        BY <1>4, <2>2, AppendingLast
      <4>5. Pending(t)' = Append(Pending(t), e)
        BY <4>2, <4>3, <4>4 DEF Pending
      <4>. QED  BY <1>1, <1>2, <1>4, <2>1, <3>2, <4>5, PendingGrows
    <3>. QED  BY <3>1, <3>2
  <2>8. StreamInPlace'
    BY <2>7 DEF StreamInPlace
  <2>9. stream[t] \in {"open", "ended"}
    BY <1>1, <2>1 DEF RegisteredWhereAsked
  <2>10. NothingBeforeOpen'
    BY <1>1, <1>2, <2>4, <2>9 DEF NothingBeforeOpen
  <2>. QED  BY <1>3, <1>5, <2>6, <2>8, <2>10
<1>. QED  BY <1>7, <1>8

(* A stream that asks has the replay before it, and nothing else.          *)
LEMMA QueryKeepsOrder ==
  ASSUME OrderInv, NEW s \in Streams, NEW id \in CorrelationIds, NEW lastID, Query(s, id, lastID)
  PROVE  SSETypeOK' /\ StreamInPlace' /\ NothingBeforeOpen'
<1>1. /\ SSETypeOK /\ BufferInPlace /\ StreamInPlace /\ NothingBeforeOpen
  BY DEF OrderInv
<1> DEFINE q == EventsSince(lastID)
<1>2. /\ stream[s] = "idle" /\ stream' = [stream EXCEPT ![s] = "queried"]
      /\ correlation' = [correlation EXCEPT ![s] = id] /\ replay' = [replay EXCEPT ![s] = q]
      /\ UNCHANGED <<nextID, buffer, clients, drawn, committed, channel, isClosed, written>>
  BY DEF Query
<1>3. /\ q \in Seq(Events) /\ InPlace(q)
      /\ \A i \in 1..Len(q) : \E j \in 1..Len(buffer) : q[i] = buffer[j]
  BY <1>1, ReplayIsInPlace DEF SSETypeOK, BufferInPlace
<1> HIDE DEF q
<1>4. /\ replay' \in [Streams -> Seq(Events)] /\ replay'[s] = q
      /\ \A t \in Streams \ {s} : replay'[t] = replay[t]
  BY <1>1, <1>2, <1>3 DEF SSETypeOK
<1>5. SSETypeOK'
  <2>1. stream' \in [Streams -> {"idle", "queried", "open", "ended"}]
    BY <1>1, <1>2 DEF SSETypeOK
  <2>2. correlation' \in [Streams -> CorrelationIds \cup {NoStream}]
    BY <1>1, <1>2 DEF SSETypeOK
  <2>. QED  BY <1>1, <1>2, <1>4, <2>1, <2>2 DEF SSETypeOK
<1>6. written[s] = <<>> /\ channel[s] = <<>>
  BY <1>1, <1>2 DEF NothingBeforeOpen
<1>7. ASSUME NEW t \in Streams
      PROVE  /\ InPlace(Pending(t)')
             /\ \A i \in 1..Len(Pending(t)') : Pending(t)'[i].place <= committed'
  <2>1. CASE t # s
    <3>1. Pending(t)' = Pending(t)
      BY <1>2, <1>4, <2>1 DEF Pending
    <3>. QED  BY <1>1, <1>2, <3>1 DEF StreamInPlace
  <2>2. CASE t = s
    <3>1. <<>> \o q = q /\ q \o <<>> = q
      BY <1>3, ConcatEmptySeq
    <3>2. Pending(s)' = q
      BY <1>2, <1>4, <1>6, <3>1 DEF Pending
    <3>3. \A i \in 1..Len(q) : q[i].place <= committed
      BY <1>1, <1>3 DEF BufferInPlace
    <3>. QED  BY <1>2, <1>3, <2>2, <3>2, <3>3
  <2>. QED  BY <2>1, <2>2
<1>8. StreamInPlace'
  BY <1>7 DEF StreamInPlace
<1>9. NothingBeforeOpen'
  BY <1>1, <1>2 DEF NothingBeforeOpen, SSETypeOK
<1>. QED  BY <1>5, <1>8, <1>9

(* The writer takes from the front of the replay, or of the channel once   *)
(* the replay is empty, what it puts at the end of what it wrote.          *)
LEMMA WritingKeepsOrder ==
  ASSUME OrderInv, NEW s \in Streams, Replay(s) \/ Follow(s)
  PROVE  SSETypeOK' /\ StreamInPlace' /\ NothingBeforeOpen'
<1>1. /\ SSETypeOK /\ StreamInPlace /\ NothingBeforeOpen
  BY DEF OrderInv
<1>2. /\ written \in [Streams -> Seq(Events)] /\ replay \in [Streams -> Seq(Events)]
      /\ channel \in [Streams -> Seq(Events)]
      /\ \A t \in Streams : Len(channel[t]) <= ChannelSize
  BY <1>1 DEF SSETypeOK
<1>3. /\ stream[s] = "open"
      /\ UNCHANGED <<nextID, buffer, clients, drawn, committed, stream, correlation, isClosed>>
  BY DEF Replay, Follow
<1>4. /\ written' \in [Streams -> Seq(Events)] /\ replay' \in [Streams -> Seq(Events)]
      /\ channel' \in [Streams -> Seq(Events)]
      /\ \A t \in Streams : Len(channel'[t]) <= ChannelSize
      /\ \A t \in Streams \ {s} :
           written'[t] = written[t] /\ replay'[t] = replay[t] /\ channel'[t] = channel[t]
      /\ (written'[s] \o replay'[s]) \o channel'[s] = (written[s] \o replay[s]) \o channel[s]
  <2>1. CASE Replay(s)
    <3>1. /\ replay[s] # <<>> /\ channel' = channel
          /\ written' = [written EXCEPT ![s] = Append(@, Head(replay[s]))]
          /\ replay' = [replay EXCEPT ![s] = Tail(@)]
      BY <2>1 DEF Replay
    <3>2. /\ Append(written[s], Head(replay[s])) \in Seq(Events)
          /\ Tail(replay[s]) \in Seq(Events)
          /\ Append(written[s], Head(replay[s])) \o Tail(replay[s]) = written[s] \o replay[s]
      <4>1. written[s] \in Seq(Events) /\ replay[s] \in Seq(Events)
        BY <1>2
      <4>. QED  BY <3>1, <4>1, MovingHead
    <3>3. /\ written' \in [Streams -> Seq(Events)] /\ replay' \in [Streams -> Seq(Events)]
          /\ written'[s] = Append(written[s], Head(replay[s]))
          /\ replay'[s] = Tail(replay[s])
          /\ \A t \in Streams \ {s} : written'[t] = written[t] /\ replay'[t] = replay[t]
      BY <1>2, <3>1, <3>2
    <3>. QED  BY <1>2, <3>1, <3>2, <3>3
  <2>2. CASE Follow(s)
    <3>1. /\ replay[s] = <<>> /\ channel[s] # <<>> /\ replay' = replay
          /\ written' = [written EXCEPT ![s] = Append(@, Head(channel[s]))]
          /\ channel' = [channel EXCEPT ![s] = Tail(@)]
      BY <2>2 DEF Follow
    <3>2. /\ Append(written[s], Head(channel[s])) \in Seq(Events)
          /\ Tail(channel[s]) \in Seq(Events)
          /\ Len(Tail(channel[s])) = Len(channel[s]) - 1 /\ Len(channel[s]) \in Nat
          /\ Append(written[s], Head(channel[s])) \o Tail(channel[s]) = written[s] \o channel[s]
      <4>1. written[s] \in Seq(Events) /\ channel[s] \in Seq(Events)
        BY <1>2
      <4>. QED  BY <3>1, <4>1, MovingHead
    <3>3. /\ written' \in [Streams -> Seq(Events)] /\ channel' \in [Streams -> Seq(Events)]
          /\ written'[s] = Append(written[s], Head(channel[s]))
          /\ channel'[s] = Tail(channel[s])
          /\ \A t \in Streams \ {s} : written'[t] = written[t] /\ channel'[t] = channel[t]
      BY <1>2, <3>1, <3>2
    <3>4. ASSUME NEW t \in Streams PROVE Len(channel'[t]) <= ChannelSize
      <4>1. CASE t = s
        <5>1. Len(channel[s]) <= ChannelSize /\ ChannelSize \in Nat
          BY <1>2, StreamAssumption
        <5>. QED  BY <3>2, <3>3, <4>1, <5>1
      <4>2. CASE t # s
        BY <1>2, <3>3, <4>2
      <4>. QED  BY <4>1, <4>2
    <3>5. written[s] \o <<>> = written[s] /\ written'[s] \o <<>> = written'[s]
      BY <1>2, <3>3, ConcatEmptySeq
    <3>6. (written'[s] \o replay'[s]) \o channel'[s] = (written[s] \o replay[s]) \o channel[s]
      BY <3>1, <3>2, <3>3, <3>5
    <3>. QED  BY <1>2, <3>1, <3>3, <3>4, <3>6
  <2>. QED  BY <2>1, <2>2
<1>5. SSETypeOK'
  BY <1>1, <1>3, <1>4 DEF SSETypeOK
<1>6. ASSUME NEW t \in Streams PROVE Pending(t)' = Pending(t)
  BY <1>4 DEF Pending
<1>7. StreamInPlace'
  BY <1>1, <1>3, <1>6 DEF StreamInPlace
<1>8. NothingBeforeOpen'
  BY <1>1, <1>3, <1>4 DEF NothingBeforeOpen
<1>. QED  BY <1>5, <1>7, <1>8

(* What opens a stream or ends it touches no event.                        *)
LEMMA HandlesKeepOrder ==
  ASSUME OrderInv, NEW s \in Streams, HandlesOK',
         stream' = [stream EXCEPT ![s] = "open"] \/ stream' = [stream EXCEPT ![s] = "ended"],
         UNCHANGED <<nextID, buffer, drawn, committed, correlation, replay, channel, written>>
  PROVE  SSETypeOK' /\ StreamInPlace' /\ NothingBeforeOpen'
<1>1. /\ SSETypeOK /\ StreamInPlace /\ NothingBeforeOpen
  BY DEF OrderInv
<1>2. SSETypeOK'
  BY <1>1 DEF SSETypeOK, HandlesOK
<1>3. \A t \in Streams : Pending(t)' = Pending(t)
  BY DEF Pending
<1>4. StreamInPlace'
  BY <1>1, <1>3 DEF StreamInPlace
<1>5. \A t \in Streams : stream'[t] \in {"idle", "queried"} => stream[t] = stream'[t]
  BY <1>1 DEF SSETypeOK
<1>6. NothingBeforeOpen'
  BY <1>1, <1>5 DEF NothingBeforeOpen
<1>. QED  BY <1>2, <1>4, <1>6

LEMMA OrderKept ==
  ASSUME OrderInv, [SSENext]_sseVars
  PROVE  OrderInv'
<1>1. RegisteredInv'
  BY HandlesKept DEF OrderInv
<1>2. SUFFICES /\ SSETypeOK' /\ HeldOrCommitted' /\ BufferInPlace' /\ StreamInPlace'
               /\ NothingBeforeOpen'
  BY <1>1 DEF OrderInv
<1>3. ASSUME UNCHANGED <<nextID, drawn, committed>> PROVE HeldOrCommitted'
  BY <1>3 DEF OrderInv, HeldOrCommitted, Holding
<1>4. ASSUME UNCHANGED <<buffer, committed>> PROVE BufferInPlace'
  BY <1>4 DEF OrderInv, BufferInPlace, InPlace
<1>5. ASSUME NEW p \in Publishers, DrawID(p)
      PROVE  /\ SSETypeOK' /\ HeldOrCommitted' /\ BufferInPlace' /\ StreamInPlace'
             /\ NothingBeforeOpen'
  <2>1. /\ drawn[p] = 0 /\ nextID < MaxEvents /\ nextID' = nextID + 1
        /\ drawn' = [drawn EXCEPT ![p] = nextID + 1]
        /\ UNCHANGED <<buffer, clients, committed, stream, correlation, replay, channel,
                      isClosed, written>>
    BY <1>5 DEF DrawID
  <2>2. HeldOrCommitted'
    BY <1>5, DrawingHeld DEF OrderInv
  <2>3. SSETypeOK'
    <3>1. /\ nextID \in 0..MaxEvents /\ committed \in 0..nextID /\ MaxEvents \in Nat
          /\ drawn \in [Publishers -> 0..MaxEvents]
      BY StreamAssumption DEF OrderInv, SSETypeOK
    <3>2. nextID' \in 0..MaxEvents /\ committed' \in 0..nextID'
      BY <2>1, <3>1
    <3>3. drawn' \in [Publishers -> 0..MaxEvents]
      BY <2>1, <3>1
    <3>. QED  BY <2>1, <3>2, <3>3 DEF OrderInv, SSETypeOK
  <2>4. StreamInPlace' /\ NothingBeforeOpen'
    <3>1. \A t \in Streams : Pending(t)' = Pending(t)
      BY <2>1 DEF Pending
    <3>. QED  BY <2>1, <3>1 DEF OrderInv, StreamInPlace, NothingBeforeOpen
  <2>. QED  BY <1>4, <2>1, <2>2, <2>3, <2>4
<1>6. ASSUME NEW p \in Publishers, NEW id \in CorrelationIds, Publish(p, id)
      PROVE  /\ SSETypeOK' /\ HeldOrCommitted' /\ BufferInPlace' /\ StreamInPlace'
             /\ NothingBeforeOpen'
  BY <1>6, PublishKeepsOrder
<1>7. ASSUME NEW s \in Streams, NEW id \in CorrelationIds, NEW lastID \in 0..MaxEvents,
             Query(s, id, lastID)
      PROVE  /\ SSETypeOK' /\ HeldOrCommitted' /\ BufferInPlace' /\ StreamInPlace'
             /\ NothingBeforeOpen'
  BY <1>3, <1>4, <1>7, QueryKeepsOrder DEF Query
<1>8. ASSUME NEW s \in Streams, Subscribe(s) \/ ChannelEnds(s) \/ StreamFails(s)
      PROVE  /\ SSETypeOK' /\ HeldOrCommitted' /\ BufferInPlace' /\ StreamInPlace'
             /\ NothingBeforeOpen'
  <2>1. /\ stream' = [stream EXCEPT ![s] = "open"] \/ stream' = [stream EXCEPT ![s] = "ended"]
        /\ UNCHANGED <<nextID, buffer, drawn, committed, correlation, replay, channel, written>>
    BY <1>8 DEF Subscribe, ChannelEnds, StreamFails, End
  <2>2. HandlesOK'
    BY <1>1 DEF RegisteredInv
  <2>. QED  BY <1>3, <1>4, <2>1, <2>2, HandlesKeepOrder
<1>9. ASSUME NEW s \in Streams, Replay(s) \/ Follow(s)
      PROVE  /\ SSETypeOK' /\ HeldOrCommitted' /\ BufferInPlace' /\ StreamInPlace'
             /\ NothingBeforeOpen'
  <2>1. UNCHANGED <<nextID, buffer, drawn, committed>>
    BY <1>9 DEF Replay, Follow
  <2>. QED  BY <1>3, <1>4, <1>9, <2>1, WritingKeepsOrder
<1>10. CASE UNCHANGED sseVars
  <2>1. SSETypeOK' /\ StreamInPlace' /\ NothingBeforeOpen'
    <3>1. \A t \in Streams : Pending(t)' = Pending(t)
      BY <1>10 DEF Pending
    <3>. QED  BY <1>10, <3>1 DEF OrderInv, SSETypeOK, StreamInPlace, NothingBeforeOpen
  <2>. QED  BY <1>3, <1>4, <1>10, <2>1
<1>. QED
  BY <1>5, <1>6, <1>7, <1>8, <1>9, <1>10 DEF SSENext, Write

LEMMA OrderInitially == SSEInit => OrderInv
<1> SUFFICES ASSUME SSEInit PROVE OrderInv
  OBVIOUS
<1>1. <<>> \in Seq(Events) /\ Len(<<>>) = 0
  BY EmptySeq
<1>2. SSETypeOK
  BY <1>1, StreamAssumption DEF SSEInit, SSETypeOK
<1>3. HeldOrCommitted
  <2>1. Holding = {}
    BY DEF SSEInit, Holding
  <2>. QED  BY <2>1, FS_EmptySet DEF SSEInit, HeldOrCommitted
<1>4. BufferInPlace
  BY <1>1 DEF SSEInit, BufferInPlace, InPlace
<1>5. StreamInPlace
  <2>1. ASSUME NEW s \in Streams PROVE Pending(s) = <<>>
    <3>1. <<>> \o <<>> = <<>>
      BY <1>1, ConcatEmptySeq
    <3>2. written[s] = <<>> /\ replay[s] = <<>> /\ channel[s] = <<>>
      BY DEF SSEInit
    <3>. QED  BY <3>1, <3>2 DEF Pending
  <2>. QED  BY <1>1, <2>1 DEF StreamInPlace, InPlace
<1>6. NothingBeforeOpen /\ RegisteredInv
  BY DEF SSEInit, NothingBeforeOpen, RegisteredInv, HandlesOK, RegisteredWhereAsked, ClosedWasOpened,
         RegisteredIsOpen
<1>. QED  BY <1>2, <1>3, <1>4, <1>5, <1>6 DEF OrderInv

-----------------------------------------------------------------------------
(* The state is typed: among the rest, no channel and no buffer outgrows   *)
(* its size, and what entered the buffer had an id drawn for it.           *)
(* (sse.go, Publish)                                                       *)
THEOREM StreamsAreTyped == SSESpec => []SSETypeOK
<1>1. OrderInv => SSETypeOK
  BY DEF OrderInv
<1>. QED  BY <1>1, OrderInitially, OrderKept, PTL DEF SSESpec

(* No stream repeats an event or goes back in the order in which events    *)
(* entered the buffer, whatever ids they have, however many publishers     *)
(* race between the drawing of an id and the buffer, and whatever the      *)
(* buffer had dropped when the stream asked for what it missed.            *)
(* (sse.go, HandleSSE)                                                     *)
THEOREM StreamsKeepOrder == SSESpec => []InBufferOrder
<1>1. OrderInv => InBufferOrder
  BY DEF OrderInv, StreamInPlace, InPlace, Pending, InBufferOrder
<1>. QED  BY <1>1, OrderInitially, OrderKept, PTL DEF SSESpec
=============================================================================
