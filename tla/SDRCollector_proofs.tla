--------------------------- MODULE SDRCollector_proofs ---------------------------
(***************************************************************************)
(* Theorems about SDRCollector, for any number of callers, any capacity of *)
(* the queue and any batch and save interval.                              *)
(***************************************************************************)
EXTENDS SDRCollector, SequenceTheorems, FiniteSetTheorems, TLAPS

USE DEF chainVars, spoolVars, exportVars, histVars, vars

-----------------------------------------------------------------------------
(* The queue hands its records on without losing the order.                *)

(* What is appended to the last of two sequences is appended to both. *)
LEMMA AppendToSecond ==
  ASSUME NEW S, NEW s \in Seq(S), NEW t \in Seq(S), NEW e \in S
  PROVE  s \o Append(t, e) = Append(s \o t, e)
  <1>1. /\ Append(t, e) \in Seq(S)
        /\ s \o t \in Seq(S)
        /\ Append(s \o t, e) \in Seq(S)
        /\ s \o Append(t, e) \in Seq(S)
    BY ConcatProperties
  <1>2. Len(s \o Append(t, e)) = Len(Append(s \o t, e))
    BY <1>1, ConcatProperties
  <1>3. ASSUME NEW i \in 1..Len(s \o Append(t, e))
        PROVE  (s \o Append(t, e))[i] = Append(s \o t, e)[i]
    <2>1. /\ Len(s) \in Nat /\ Len(t) \in Nat
          /\ Len(Append(t, e)) = Len(t) + 1
          /\ Len(s \o t) = Len(s) + Len(t)
          /\ i \in 1..(Len(s) + Len(t) + 1)
      BY <1>1, ConcatProperties
    <2>2. (s \o Append(t, e))[i] =
            IF i <= Len(s) THEN s[i] ELSE Append(t, e)[i - Len(s)]
      <3>1. i \in 1..(Len(s) + Len(Append(t, e)))
        BY <2>1
      <3>2. QED
        BY <1>1, <3>1, ConcatProperties, Zenon
    <2>3. CASE i = Len(s) + Len(t) + 1
      BY <1>1, <2>1, <2>2, <2>3
    <2>4. CASE i \in 1..(Len(s) + Len(t))
      <3>1. (s \o t)[i] = IF i <= Len(s) THEN s[i] ELSE t[i - Len(s)]
        BY <2>1, <2>4, ConcatProperties
      <3>2. Append(s \o t, e)[i] = (s \o t)[i]
        BY <1>1, <2>1, <2>4
      <3>3. i > Len(s) => Append(t, e)[i - Len(s)] = t[i - Len(s)]
        BY <2>1, <2>4
      <3>4. QED
        BY <2>1, <2>2, <2>4, <3>1, <3>2, <3>3
    <2>5. QED
      BY <2>1, <2>3, <2>4
  <1>4. QED
    BY <1>1, <1>2, <1>3, SeqEqual

(* The first record of a queue may as well be the last of the batch. *)
LEMMA MoveFirst ==
  ASSUME NEW S, NEW s \in Seq(S), NEW t \in Seq(S), t # <<>>
  PROVE  /\ Head(t) \in S
         /\ Tail(t) \in Seq(S)
         /\ Append(s, Head(t)) \in Seq(S)
         /\ s \o t = Append(s, Head(t)) \o Tail(t)
  <1>1. /\ Head(t) \in S
        /\ Tail(t) \in Seq(S)
        /\ Len(Tail(t)) = Len(t) - 1
        /\ \A i \in 1..Len(Tail(t)) : Tail(t)[i] = t[i+1]
    BY HeadTailProperties
  <1>2. Append(s, Head(t)) \in Seq(S) /\ Len(t) \in Nat \ {0}
    BY <1>1, EmptySeq
  <1>3. Append(s, Head(t)) \o Tail(t) \in Seq(S) /\ s \o t \in Seq(S)
    BY <1>1, <1>2, ConcatProperties
  <1>4. Len(s \o t) = Len(Append(s, Head(t)) \o Tail(t))
    BY <1>1, <1>2, ConcatProperties
  <1>5. Head(t) = t[1]
    OBVIOUS
  <1>6. ASSUME NEW i \in 1..Len(s \o t)
        PROVE  (s \o t)[i] = (Append(s, Head(t)) \o Tail(t))[i]
    <2>1. Len(s \o t) = Len(s) + Len(t) /\ Len(s) \in Nat
      BY ConcatProperties
    <2>2. CASE i <= Len(s) + 1
      BY <1>1, <1>2, <1>5, <2>1, <2>2, ConcatProperties
    <2>3. CASE i > Len(s) + 1
      <3>1. (s \o t)[i] = t[i - Len(s)]
        BY <2>1, <2>3, ConcatProperties
      <3>2. (Append(s, Head(t)) \o Tail(t))[i] = Tail(t)[i - (Len(s) + 1)]
        BY <1>1, <1>2, <2>1, <2>3, ConcatProperties
      <3>3. i - (Len(s) + 1) \in 1..Len(Tail(t))
        BY <1>1, <1>2, <2>1, <2>3
      <3>4. QED
        BY <1>1, <2>1, <3>1, <3>2, <3>3
    <2>4. QED
      BY <2>1, <2>2, <2>3
  <1>7. QED
    BY <1>1, <1>2, <1>3, <1>4, <1>6, SeqEqual

(* What a failed write leaves and what it loses are what it was given.     *)
LEMMA CutInTwo ==
  ASSUME NEW S, NEW s \in Seq(S), NEW k \in 0..Len(s) - 1
  PROVE  /\ SubSeq(s, 1, k) \in Seq(S)
         /\ SubSeq(s, k + 1, Len(s)) \in Seq(S)
         /\ SubSeq(s, 1, k) \o SubSeq(s, k + 1, Len(s)) = s
  <1>1. /\ Len(s) \in Nat /\ k \in Int /\ 1 \in Int /\ k + 1 \in Int
        /\ 1 <= k + 1 /\ k <= Len(s)
        /\ \A i \in 1..Len(s) : s[i] \in S
    BY ElementOfSeq, LenProperties
  <1>2. SubSeq(s, 1, k) \in Seq(S) /\ SubSeq(s, k + 1, Len(s)) \in Seq(S)
    <2>1. (\A i \in 1..k : s[i] \in S) /\ (\A i \in k + 1..Len(s) : s[i] \in S)
      BY <1>1
    <2>2. QED
      BY <1>1, <2>1, SubSeqProperties
  <1>3. SubSeq(s, 1, k) \o SubSeq(s, k + 1, Len(s)) = SubSeq(s, 1, Len(s))
    BY <1>1, ConcatAdjacentSubSeq
  <1>4. SubSeq(s, 1, Len(s)) = s
    BY SubSeqFull
  <1>5. QED
    BY <1>2, <1>3, <1>4

(* ConcatAssociative for sequences of records, quantified for Zenon. *)
LEMMA RecordsAssociate ==
  \A r, s, t \in Seq(Records) : (r \o s) \o t = r \o (s \o t)
  BY ConcatAssociative

(* An export, failing or not, takes what it is given once and in order.    *)
Written == spool \o lost

LEMMA ExportTakes ==
  ASSUME NEW records \in Seq(Records), Export(records),
         spool \in Seq(Records), lost \in Seq(Records), broken \in BOOLEAN
  PROVE  /\ spool' \in Seq(Records) /\ lost' \in Seq(Records) /\ broken' \in BOOLEAN
         /\ broken \/ lost = <<>> =>
              /\ broken' \/ lost' = <<>>
              /\ Written' = Written \o records
  <1>0. /\ <<>> \in Seq(Records)
        /\ \A t \in Seq(Records) : t \o <<>> = t /\ <<>> \o t = t
    BY ConcatEmptySeq
  <1>1. CASE /\ ~broken
             /\ spool' = spool \o records
             /\ UNCHANGED <<broken, lost>>
    <2>1. spool' \in Seq(Records)
      BY <1>1, ConcatProperties
    <2>2. CASE lost = <<>>
      <3>1. Written' = spool \o records /\ Written = spool
        BY <1>0, <1>1, <2>1, <2>2 DEF Written
      <3>2. QED
        BY <1>1, <2>1, <2>2, <3>1
    <2>3. QED
      BY <1>1, <2>1, <2>2
  <1>2. ASSUME ~broken, broken' = TRUE, NEW k \in 0..Len(records) - 1,
               spool' = spool \o SubSeq(records, 1, k),
               lost' = lost \o SubSeq(records, k + 1, Len(records))
        PROVE  /\ spool' \in Seq(Records) /\ lost' \in Seq(Records) /\ broken' \in BOOLEAN
               /\ lost = <<>> => Written' = Written \o records
    <2> DEFINE kept == SubSeq(records, 1, k)
               gone == SubSeq(records, k + 1, Len(records))
    <2>1. kept \in Seq(Records) /\ gone \in Seq(Records) /\ kept \o gone = records
      BY CutInTwo
    <2>2. spool' = spool \o kept /\ lost' = lost \o gone
      BY <1>2
    <2> HIDE DEF kept, gone
    <2>3. spool' \in Seq(Records) /\ lost' \in Seq(Records)
      BY <2>1, <2>2, ConcatProperties
    <2>4. (spool \o kept) \o gone = spool \o (kept \o gone)
      <3>1. spool \in Seq(Records) /\ kept \in Seq(Records) /\ gone \in Seq(Records)
        BY <2>1
      <3>2. QED
        BY ONLY <3>1, RecordsAssociate, ZenonT(30)
    <2>5. CASE lost = <<>>
      <3>1. lost' = gone /\ Written = spool
        BY <1>0, <2>1, <2>2, <2>5 DEF Written
      <3>2. Written' = spool \o (kept \o gone)
        BY <2>2, <2>4, <3>1 DEF Written
      <3>3. QED
        BY <1>2, <2>1, <2>3, <3>1, <3>2
    <2>6. QED
      BY <1>2, <2>3, <2>5
  <1>3. CASE /\ broken
             /\ lost' = lost \o records
             /\ UNCHANGED <<spool, broken>>
    <2>1. lost' \in Seq(Records)
      BY <1>3, ConcatProperties
    <2>2. (spool \o lost) \o records = spool \o (lost \o records)
      BY RecordsAssociate, ZenonT(30)
    <2>3. QED
      BY <1>3, <2>1, <2>2 DEF Written
  <1>4. QED
    BY <1>1, <1>2, <1>3 DEF Export

-----------------------------------------------------------------------------
(* Every variable keeps its type; the queue stays within its capacity and  *)
(* the batch below its size.                                               *)
THEOREM TypeCorrect == Spec => []TypeOK
  <1>1. Init => TypeOK
    <2> SUFFICES ASSUME Init PROVE TypeOK
      OBVIOUS
    <2>1. caller \in [Callers -> Calls]
      BY DEF Init, Hashes, Genesis, Calls, Idle
    <2>2. chain \in Heads /\ disk \in Heads
      BY DEF Init, Heads, Hashes, Genesis
    <2>3. /\ <<>> \in Seq(Records) /\ Len(<<>>) = 0
          /\ 0 <= QueueSize /\ 0 < BatchSize
      BY CollectorAssumption
    <2>4. QED
      BY <2>1, <2>2, <2>3 DEF Init, TypeOK
  <1>2. TypeOK /\ [Next]_vars => TypeOK'
    <2> SUFFICES ASSUME TypeOK, [Next]_vars PROVE TypeOK'
      OBVIOUS
    <2> USE DEF TypeOK
    <2>1. ASSUME NEW c \in Callers, Link(c) PROVE TypeOK'
      <3>1. [at |-> "linked", prev |-> chain.head] \in Calls
        BY DEF Calls, Heads
      <3>2. QED
        BY <2>1, <3>1 DEF Link
    <2>2. ASSUME NEW c \in Callers, Advance(c) PROVE TypeOK'
      <3>1. [at |-> "built", rec |-> [hash |-> made + 1, prev |-> caller[c].prev]] \in Calls
        <4>1. caller[c] \in Calls /\ caller[c].at = "linked"
          BY <2>2 DEF Advance
        <4>2. caller[c].prev \in Hashes
          BY <4>1 DEF Calls
        <4>3. made + 1 \in Hashes
          BY DEF Hashes
        <4>4. QED
          BY <4>2, <4>3 DEF Calls, Records
      <3>2. chain' \in Heads
        <4>1. chain' = [head |-> made + 1, seq |-> chain.seq + 1]
          BY <2>2 DEF Advance
        <4>2. made + 1 \in Nat /\ chain.seq + 1 \in Nat
          BY DEF Heads
        <4> HIDE DEF TypeOK
        <4>3. QED
          BY <4>1, <4>2 DEF Heads, Hashes
      <3>3. disk' \in Heads /\ dirty' \in Nat /\ failed' \in Nat
        <4>1. \/ disk' = chain' /\ dirty' = 0 /\ failed' = 0
              \/ disk' = disk /\ dirty' = dirty + 1 /\ failed' \in {failed, failed + 1}
          BY <2>2 DEF Advance, Save
        <4>2. disk \in Heads /\ dirty \in Nat /\ failed \in Nat
          OBVIOUS
        <4> HIDE DEF TypeOK
        <4>3. QED
          BY <3>2, <4>1, <4>2
      <3>4. caller' \in [Callers -> Calls] /\ made' \in Nat
        BY <2>2, <3>1 DEF Advance
      <3>5. UNCHANGED <<exportVars, sent, life, main, count>>
        BY <2>2 DEF Advance
      <3>6. QED
        BY <3>2, <3>3, <3>4, <3>5
    <2>3. ASSUME NEW c \in Callers, Enqueue(c) PROVE TypeOK'
      <3>1. caller[c].rec \in Records
        BY <2>3 DEF Enqueue, Calls
      <3>2. caller' \in [Callers -> Calls]
        BY <2>3 DEF Enqueue, Calls, Idle, Hashes, Genesis
      <3>3. count' \in [recorded: Nat, dropped: Nat, panicked: Nat]
        <4>1. \/ count' = [count EXCEPT !.panicked = @ + 1]
              \/ count' = [count EXCEPT !.recorded = @ + 1]
              \/ count' = [count EXCEPT !.dropped = @ + 1]
          BY <2>3 DEF Enqueue
        <4>2. count \in [recorded: Nat, dropped: Nat, panicked: Nat]
          OBVIOUS
        <4> HIDE DEF TypeOK
        <4>3. QED
          BY <4>1, <4>2
      <3>4. /\ queue' \in Seq(Records)
            /\ Len(queue') <= QueueSize
            /\ sent' \in Seq(Records)
        <4>1. CASE UNCHANGED <<queue, sent>>
          BY <4>1
        <4>2. CASE /\ Len(queue) < QueueSize
                   /\ queue' = Append(queue, caller[c].rec)
                   /\ sent' = Append(sent, caller[c].rec)
          BY <3>1, <4>2, CollectorAssumption
        <4>3. QED
          BY <2>3, <4>1, <4>2 DEF Enqueue
      <3>5. QED
        BY <2>3, <3>2, <3>3, <3>4 DEF Enqueue
    <2>4. CASE Receive
      <3>1. /\ Tail(queue) \in Seq(Records)
            /\ Len(Tail(queue)) <= QueueSize
            /\ Append(batch, Head(queue)) \in Seq(Records)
        <4>1. queue # <<>> /\ Len(queue) \in Nat
          BY <2>4 DEF Receive
        <4>2. /\ Head(queue) \in Records
              /\ Tail(queue) \in Seq(Records)
              /\ Len(Tail(queue)) = Len(queue) - 1
          BY <4>1, HeadTailProperties
        <4>3. QED
          BY <4>1, <4>2, CollectorAssumption
      <3>2. /\ batch' \in Seq(Records) /\ Len(batch') < BatchSize
            /\ spool' \in Seq(Records) /\ lost' \in Seq(Records) /\ broken' \in BOOLEAN
        <4> DEFINE full == Append(batch, Head(queue))
        <4>1. full \in Seq(Records) /\ Len(full) \in Nat
          BY <3>1
        <4>2. \/ Export(full) /\ batch' = <<>>
              \/ Len(full) < BatchSize /\ batch' = full /\ UNCHANGED spoolVars
          BY <2>4 DEF Receive
        <4> HIDE DEF full
        <4>3. CASE Export(full) /\ batch' = <<>>
          <5>1. spool' \in Seq(Records) /\ lost' \in Seq(Records) /\ broken' \in BOOLEAN
            BY <4>1, <4>3, ExportTakes
          <5>2. QED
            BY <4>3, <5>1, CollectorAssumption
        <4>4. CASE Len(full) < BatchSize /\ batch' = full /\ UNCHANGED spoolVars
          BY <4>1, <4>4
        <4>5. QED
          BY <4>2, <4>3, <4>4
      <3>3. QED
        BY <2>4, <3>1, <3>2 DEF Receive
    <2>5. CASE Tick
      <3>1. spool' \in Seq(Records) /\ lost' \in Seq(Records) /\ broken' \in BOOLEAN
        BY <2>5, ExportTakes DEF Tick
      <3>2. QED
        BY <2>5, <3>1, CollectorAssumption DEF Tick
    <2>6. CASE CloseQueue
      BY <2>6 DEF CloseQueue
    <2>7. CASE Drain
      <3>1. batch \o queue \in Seq(Records) /\ Export(batch \o queue)
        BY <2>7, ConcatProperties DEF Drain
      <3>2. spool' \in Seq(Records) /\ lost' \in Seq(Records) /\ broken' \in BOOLEAN
        BY <3>1, ExportTakes
      <3>3. QED
        BY <2>7, <3>2, CollectorAssumption DEF Drain
    <2>8. CASE Signal
      BY <2>8 DEF Signal
    <2>9. CASE CloseCollector
      BY <2>9 DEF CloseCollector, Save
    <2>10. CASE Restart
      <3>1. caller' \in [Callers -> Calls]
        BY <2>10 DEF Restart, Calls, Idle, Hashes, Genesis
      <3>2. chain' \in Heads /\ chain'.seq \in Nat
        <4>1. chain' = disk \/ chain' = [head |-> Genesis, seq |-> 0]
          BY <2>10 DEF Restart
        <4>2. disk \in Heads
          OBVIOUS
        <4> HIDE DEF TypeOK
        <4>3. QED
          BY <4>1, <4>2 DEF Heads, Hashes, Genesis
      <3>3. life' \in [restarts: Nat, seq: Nat, made: Nat]
        BY <2>10, <3>2 DEF Restart
      <3>4. /\ <<>> \in Seq(Records) /\ Len(<<>>) = 0
            /\ 0 <= QueueSize /\ 0 < BatchSize
        BY CollectorAssumption
      <3>5. QED
        BY <2>10, <3>1, <3>2, <3>3, <3>4 DEF Restart
    <2>11. CASE UNCHANGED vars
      BY <2>11
    <2>12. QED
      BY <2>1, <2>2, <2>3, <2>4, <2>5, <2>6, <2>7, <2>8, <2>9, <2>10, <2>11
         DEF Next, ExportStep
  <1>3. QED
    BY <1>1, <1>2, PTL DEF Spec

-----------------------------------------------------------------------------
(* Spool, failed exports, batch and queue together are the records the     *)
(* queue has taken, in the order it took them: exportLoop neither repeats  *)
(* nor reorders one, and loses none but those a failed writer does not     *)
(* write, which are the last ones taken by then.                           *)
Pending == batch \o queue

(* A step that exports the first of the pending records, or none. *)
LEMMA PendingIsExported ==
  ASSUME TypeOK, SpoolInOrder, UNCHANGED sent,
         NEW records \in Seq(Records), NEW rest \in Seq(Records),
         Export(records), Pending = records \o rest, Pending' = rest
  PROVE  SpoolInOrder'
  <1>1. /\ spool \in Seq(Records) /\ lost \in Seq(Records) /\ broken \in BOOLEAN
        /\ batch \in Seq(Records) /\ queue \in Seq(Records)
    BY DEF TypeOK
  <1>2. /\ spool' \in Seq(Records) /\ lost' \in Seq(Records)
        /\ broken' \/ lost' = <<>>
        /\ Written' = Written \o records
    BY <1>1, ExportTakes DEF SpoolInOrder
  <1>3. /\ Written \in Seq(Records) /\ records \o rest \in Seq(Records)
        /\ Written = spool \o lost /\ Written' = spool' \o lost'
    BY <1>1, ConcatProperties DEF Written
  <1> DEFINE all == records \o rest
  <1>4. (spool \o lost) \o all = sent
    <2>1. spool \in Seq(Records) /\ lost \in Seq(Records) /\ all \in Seq(Records)
      BY <1>1, <1>3
    <2>2. spool \o (lost \o all) = sent
      BY DEF SpoolInOrder, Pending
    <2> HIDE DEF all
    <2>3. (spool \o lost) \o all = spool \o (lost \o all)
      BY ONLY <2>1, RecordsAssociate, ZenonT(30)
    <2>4. QED
      BY <2>2, <2>3
  <1>5. (Written \o records) \o rest = Written \o (records \o rest)
    <2>1. Written \in Seq(Records) /\ records \in Seq(Records) /\ rest \in Seq(Records)
      BY <1>3
    <2>2. QED
      BY ONLY <2>1, RecordsAssociate, ZenonT(30)
  <1>6. (spool' \o lost') \o rest = sent'
    BY <1>2, <1>3, <1>4, <1>5
  <1>7. (spool' \o lost') \o rest = spool' \o (lost' \o rest)
    <2>1. spool' \in Seq(Records) /\ lost' \in Seq(Records) /\ rest \in Seq(Records)
      BY <1>2
    <2>2. QED
      BY ONLY <2>1, RecordsAssociate, ZenonT(30)
  <1>8. QED
    BY <1>2, <1>6, <1>7 DEF SpoolInOrder, Pending

THEOREM OrderIsKept == Spec => []SpoolInOrder
  <1>1. Init => SpoolInOrder
    BY DEF Init, SpoolInOrder
  <1>2. TypeOK /\ SpoolInOrder /\ [Next]_vars => SpoolInOrder'
    <2> SUFFICES ASSUME TypeOK, SpoolInOrder, [Next]_vars PROVE SpoolInOrder'
      OBVIOUS
    <2>1. /\ spool \in Seq(Records) /\ lost \in Seq(Records)
          /\ batch \in Seq(Records) /\ queue \in Seq(Records)
          /\ <<>> \in Seq(Records)
          /\ batch \o queue \in Seq(Records)
          /\ lost \o (batch \o queue) \in Seq(Records)
      BY ConcatProperties DEF TypeOK
    <2>2. ASSUME NEW c \in Callers, Enqueue(c) PROVE SpoolInOrder'
      <3>1. CASE queue' = queue /\ sent' = sent
        BY <2>2, <3>1 DEF Enqueue, SpoolInOrder
      <3>2. CASE /\ queue' = Append(queue, caller[c].rec)
                 /\ sent' = Append(sent, caller[c].rec)
        <4>1. caller[c].rec \in Records
          BY <2>2 DEF Enqueue, TypeOK, Calls
        <4>2. batch \o Append(queue, caller[c].rec) = Append(batch \o queue, caller[c].rec)
          BY <2>1, <4>1, AppendToSecond
        <4>3. lost \o Append(batch \o queue, caller[c].rec) =
                Append(lost \o (batch \o queue), caller[c].rec)
          BY <2>1, <4>1, AppendToSecond
        <4>4. spool \o Append(lost \o (batch \o queue), caller[c].rec) =
                Append(spool \o (lost \o (batch \o queue)), caller[c].rec)
          BY <2>1, <4>1, AppendToSecond
        <4>5. QED
          BY <2>2, <3>2, <4>2, <4>3, <4>4 DEF Enqueue, SpoolInOrder
      <3>3. QED
        BY <2>2, <3>1, <3>2 DEF Enqueue
    <2>3. CASE Receive
      <3> DEFINE full == Append(batch, Head(queue))
                 rest == Tail(queue)
      <3>1. rest \in Seq(Records) /\ full \in Seq(Records) /\ batch \o queue = full \o rest
        BY <2>1, <2>3, MoveFirst DEF Receive
      <3>2. /\ queue' = rest /\ sent' = sent
            /\ \/ Export(full) /\ batch' = <<>>
               \/ batch' = full /\ UNCHANGED spoolVars
        BY <2>3 DEF Receive
      <3> HIDE DEF full, rest
      <3>3. CASE Export(full) /\ batch' = <<>>
        <4>1. <<>> \o rest = rest
          BY <3>1, ConcatEmptySeq
        <4>2. Pending = full \o rest /\ Pending' = rest
          BY <3>1, <3>2, <3>3, <4>1 DEF Pending
        <4>3. QED
          BY <3>1, <3>2, <3>3, <4>2, PendingIsExported
      <3>4. CASE batch' = full /\ UNCHANGED spoolVars
        BY <3>1, <3>2, <3>4 DEF SpoolInOrder
      <3>5. QED
        BY <3>2, <3>3, <3>4
    <2>4. CASE Tick
      <3>1. <<>> \o queue = queue
        BY <2>1, ConcatEmptySeq
      <3>2. Pending = batch \o queue /\ Pending' = queue /\ Export(batch) /\ sent' = sent
        BY <2>4, <3>1 DEF Tick, Pending
      <3>3. QED
        BY <2>1, <3>2, PendingIsExported
    <2>5. CASE Drain
      <3> DEFINE all == batch \o queue
      <3>1. all \in Seq(Records) /\ Export(all) /\ sent' = sent /\ Pending = all
        BY <2>1, <2>5 DEF Drain, Pending
      <3>2. Pending' = <<>>
        BY <2>1, <2>5, ConcatEmptySeq DEF Drain, Pending
      <3> HIDE DEF all
      <3>3. all = all \o <<>>
        BY <3>1, ConcatEmptySeq
      <3>4. QED
        BY <2>1, <3>1, <3>2, <3>3, PendingIsExported
    <2>6. CASE Restart
      <3>1. spool \o (<<>> \o (<<>> \o <<>>)) = spool
        BY <2>1, ConcatEmptySeq
      <3>2. QED
        BY <2>6, <3>1 DEF Restart, SpoolInOrder
    <2>7. ASSUME NEW c \in Callers, Link(c) \/ Advance(c) PROVE SpoolInOrder'
      BY <2>7 DEF Link, Advance, SpoolInOrder
    <2>8. CASE CloseQueue \/ Signal \/ CloseCollector \/ UNCHANGED vars
      BY <2>8 DEF CloseQueue, Signal, CloseCollector, SpoolInOrder
    <2>9. QED
      BY <2>2, <2>3, <2>4, <2>5, <2>6, <2>7, <2>8 DEF Next, ExportStep
  <1>3. QED
    BY <1>1, <1>2, TypeCorrect, PTL DEF Spec

(* Until the loop is done the queue is being read, after it the queue is   *)
(* closed and nothing is left to export; main is past Close only then.     *)
Drained ==
  /\ loop = "run" <=> open
  /\ loop # "run" => main # "serving"
  /\ loop = "done" => batch = <<>> /\ queue = <<>>
  /\ main = "closed" => loop = "done"

LEMMA DrainedAlways == Spec => []Drained
  <1>1. Init => Drained
    BY DEF Init, Drained
  <1>2. TypeOK /\ Drained /\ [Next]_vars => Drained'
    <2> SUFFICES ASSUME TypeOK, Drained, [Next]_vars PROVE Drained'
      OBVIOUS
    <2> USE DEF Drained
    <2>1. ASSUME NEW c \in Callers, Link(c) \/ Advance(c) PROVE Drained'
      BY <2>1 DEF Link, Advance
    <2>2. ASSUME NEW c \in Callers, Enqueue(c) PROVE Drained'
      <3>1. open \/ queue' = queue
        BY <2>2 DEF Enqueue
      <3>2. QED
        BY <2>2, <3>1 DEF Enqueue
    <2>3. CASE Receive
      BY <2>3 DEF Receive
    <2>4. CASE Tick
      BY <2>4 DEF Tick
    <2>5. CASE CloseQueue
      BY <2>5 DEF CloseQueue
    <2>6. CASE Drain
      BY <2>6 DEF Drain
    <2>7. CASE Signal
      BY <2>7 DEF Signal
    <2>8. CASE CloseCollector
      BY <2>8 DEF CloseCollector
    <2>9. CASE Restart
      BY <2>9 DEF Restart
    <2>10. QED
      BY <2>1, <2>2, <2>3, <2>4, <2>5, <2>6, <2>7, <2>8, <2>9
         DEF Next, ExportStep
  <1>3. QED
    BY <1>1, <1>2, TypeCorrect, PTL DEF Spec

(* When Collector.Close has returned every record taken is in the spool,   *)
(* or lost to a writer that has failed, though the callers were never      *)
(* stopped.                                                                *)
THEOREM CloseLosesNothing == Spec => []CloseExportsAll
  <1>1. TypeOK /\ Drained /\ SpoolInOrder => CloseExportsAll
    <2> SUFFICES ASSUME TypeOK, Drained, SpoolInOrder, main = "closed"
                 PROVE  spool \o lost = sent /\ (broken \/ spool = sent)
      BY DEF CloseExportsAll
    <2>1. batch = <<>> /\ queue = <<>>
      BY DEF Drained
    <2>2. /\ spool \in Seq(Records) /\ lost \in Seq(Records) /\ <<>> \in Seq(Records)
      BY DEF TypeOK
    <2>3. lost \o (<<>> \o <<>>) = lost /\ spool \o <<>> = spool
      BY <2>2, ConcatEmptySeq
    <2>4. QED
      BY <2>1, <2>3 DEF SpoolInOrder
  <1>2. QED
    BY <1>1, TypeCorrect, DrainedAlways, OrderIsKept, PTL DEF Spec

-----------------------------------------------------------------------------
(* A restart that can read its file takes the chain back by the records    *)
(* since the last save: fewer than FsyncInterval, and one more for each    *)
(* save that has failed since.                                             *)
THEOREM DiskFollowsChain == Spec => []DiskLag
  <1>1. Init => DiskLag
    BY CollectorAssumption DEF Init, DiskLag
  <1>2. TypeOK /\ DiskLag /\ [Next]_vars => DiskLag'
    <2> SUFFICES ASSUME TypeOK, DiskLag, [Next]_vars PROVE DiskLag'
      OBVIOUS
    <2>1. chain.seq \in Nat /\ disk.seq \in Nat /\ dirty \in Nat /\ failed \in Nat
      BY DEF TypeOK, Heads
    <2> USE DEF DiskLag
    <2>2. ASSUME NEW c \in Callers, Advance(c) PROVE DiskLag'
      BY <2>1, <2>2, CollectorAssumption DEF Advance, Save
    <2>3. CASE CloseCollector
      BY <2>1, <2>3, CollectorAssumption DEF CloseCollector, Save
    <2>4. CASE Restart
      BY <2>1, <2>4, CollectorAssumption DEF Restart
    <2>5. ASSUME NEW c \in Callers, Link(c) \/ Enqueue(c) PROVE DiskLag'
      BY <2>5 DEF Link, Enqueue
    <2>6. CASE ExportStep \/ Signal \/ UNCHANGED vars
      BY <2>6 DEF ExportStep, Receive, Tick, CloseQueue, Drain, Signal
    <2>7. QED
      BY <2>2, <2>3, <2>4, <2>5, <2>6 DEF Next
  <1>3. QED
    BY <1>1, <1>2, TypeCorrect, PTL DEF Spec

-----------------------------------------------------------------------------
(* The callers that have a record in hand.                                 *)
Building == {c \in Callers : caller[c].at = "built"}

LEMMA CallersAreFinite ==
  ASSUME NEW S, S \subseteq Callers
  PROVE  IsFiniteSet(S) /\ Cardinality(S) \in Nat /\ Cardinality(S) <= Cardinality(Callers)
  BY CollectorAssumption, FS_Subset, FS_CardinalityType

(* No record the chain advanced over is forgotten: it was queued, dropped, *)
(* failed on the closed queue, or is still in the hands of its caller.     *)
(* (collector.go, RecordWithParent and its counters)                       *)
THEOREM RecordsAreAccounted == Spec => []EveryRecordIsAccounted
  <1>1. Init => EveryRecordIsAccounted
    <2> SUFFICES ASSUME Init PROVE EveryRecordIsAccounted
      OBVIOUS
    <2>1. {c \in Callers : caller[c].at = "built"} = {}
      BY DEF Init, Idle
    <2>2. /\ chain.seq = 0 /\ life.seq = 0
          /\ count.recorded = 0 /\ count.dropped = 0 /\ count.panicked = 0
      BY DEF Init
    <2>3. QED
      BY <2>1, <2>2, FS_EmptySet DEF EveryRecordIsAccounted
  <1>2. TypeOK /\ EveryRecordIsAccounted /\ [Next]_vars => EveryRecordIsAccounted'
    <2> SUFFICES ASSUME TypeOK, EveryRecordIsAccounted, [Next]_vars
                 PROVE  EveryRecordIsAccounted'
      OBVIOUS
    <2>1. /\ chain.seq \in Nat /\ life.seq \in Nat /\ disk.seq \in Nat
          /\ count.recorded \in Nat /\ count.dropped \in Nat /\ count.panicked \in Nat
          /\ caller \in [Callers -> Calls]
          /\ Building \subseteq Callers
      BY DEF TypeOK, Heads, Building
    <2>2. IsFiniteSet(Building) /\ Cardinality(Building) \in Nat
      BY <2>1, CallersAreFinite
    <2>3. chain.seq - life.seq =
            count.recorded + count.dropped + count.panicked + Cardinality(Building)
      BY DEF EveryRecordIsAccounted, Building
    <2> DEFINE Balanced ==
          chain'.seq - life'.seq =
            count'.recorded + count'.dropped + count'.panicked + Cardinality(Building')
    <2>4. SUFFICES Balanced
      BY DEF EveryRecordIsAccounted, Building
    <2>5. ASSUME NEW c \in Callers, Link(c) PROVE Balanced
      <3>1. Building' = Building
        BY <2>1, <2>5 DEF Link, Building
      <3>2. QED
        BY <2>3, <2>5, <3>1 DEF Link
    <2>6. ASSUME NEW c \in Callers, Advance(c) PROVE Balanced
      <3>1. Building' = Building \cup {c} /\ c \notin Building
        BY <2>1, <2>6 DEF Advance, Building
      <3>2. Cardinality(Building') = Cardinality(Building) + 1
        BY <2>2, <3>1, FS_AddElement
      <3>3. /\ chain'.seq = chain.seq + 1 /\ life'.seq = life.seq
            /\ count'.recorded = count.recorded /\ count'.dropped = count.dropped
            /\ count'.panicked = count.panicked
        BY <2>6 DEF Advance
      <3>4. QED
        BY <2>1, <2>2, <2>3, <3>2, <3>3
    <2>7. ASSUME NEW c \in Callers, Enqueue(c) PROVE Balanced
      <3>1. Building' = Building \ {c} /\ c \in Building
        BY <2>1, <2>7 DEF Enqueue, Building, Idle
      <3>2. Cardinality(Building') = Cardinality(Building) - 1
        BY <2>2, <3>1, FS_RemoveElement
      <3>3. chain' = chain /\ life' = life
        BY <2>7 DEF Enqueue
      <3>4. count \in [recorded: Nat, dropped: Nat, panicked: Nat]
        BY DEF TypeOK
      <3>5. \/ count' = [count EXCEPT !.panicked = @ + 1]
            \/ count' = [count EXCEPT !.recorded = @ + 1]
            \/ count' = [count EXCEPT !.dropped = @ + 1]
        BY <2>7 DEF Enqueue
      <3>6. count'.recorded + count'.dropped + count'.panicked =
              count.recorded + count.dropped + count.panicked + 1
        BY <2>1, <3>4, <3>5
      <3>7. QED
        BY <2>1, <2>2, <2>3, <3>2, <3>3, <3>6
    <2>8. ASSUME ExportStep \/ Signal \/ CloseCollector \/ UNCHANGED vars PROVE Balanced
      <3>1. chain' = chain /\ life' = life /\ count' = count /\ Building' = Building
        BY <2>8 DEF ExportStep, Receive, Tick, CloseQueue, Drain, Signal, CloseCollector,
                    Building
      <3>2. QED
        BY <2>3, <3>1
    <2>9. CASE Restart
      <3>1. Building' = {}
        BY <2>9 DEF Restart, Building, Idle
      <3>2. Cardinality(Building') = 0
        BY <3>1, FS_EmptySet
      <3>3. /\ chain'.seq \in {disk.seq, 0} /\ life'.seq = chain'.seq
            /\ count'.recorded = 0 /\ count'.dropped = 0 /\ count'.panicked = 0
        BY <2>9 DEF Restart
      <3>4. QED
        BY <2>1, <3>2, <3>3
    <2>10. QED
      BY <2>5, <2>6, <2>7, <2>8, <2>9 DEF Next
  <1>3. QED
    BY <1>1, <1>2, TypeCorrect, PTL DEF Spec

-----------------------------------------------------------------------------
(* The callers that have read the head h and not queued their record yet.  *)
(* A head is replaced by the first of them to advance and never comes back *)
(* in this process, so no caller joins the others: those that still hold   *)
(* it and its children together are never more than the callers.           *)
Holders(h) ==
  {c \in Callers : \/ caller[c].at = "linked" /\ caller[c].prev = h
                   \/ caller[c].at = "built" /\ caller[c].rec.prev = h}

IsMade(r) == r.hash <= made /\ r.prev <= made

HashesAreMade ==
  /\ chain.head <= made /\ disk.head <= made /\ life.made <= made
  /\ \A i \in 1..Len(sent) : IsMade(sent[i])
  /\ \A c \in Callers :
       /\ caller[c].at = "linked" => caller[c].prev <= made
       /\ caller[c].at = "built" => IsMade(caller[c].rec)

HeadIsFree ==
  /\ Children(chain.head) = {}
  /\ \A c \in Callers : caller[c].at = "built" => caller[c].rec.prev # chain.head

HoldersAreBounded ==
  \A h \in Nat : Cardinality(Children(h)) + Cardinality(Holders(h)) <= Cardinality(Callers)

ForkInv == HashesAreMade /\ HeadIsFree /\ HoldersAreBounded

LEMMA SetsAreFinite ==
  ASSUME TypeOK, NEW h
  PROVE  /\ IsFiniteSet(Children(h)) /\ Cardinality(Children(h)) \in Nat
         /\ IsFiniteSet(Holders(h)) /\ Cardinality(Holders(h)) \in Nat
         /\ Cardinality(Callers) \in Nat
         /\ Cardinality(Holders(h)) <= Cardinality(Callers)
  <1>1. IsFiniteSet(1..Len(sent)) /\ Children(h) \subseteq 1..Len(sent)
    <2>1. Len(sent) \in Nat
      BY DEF TypeOK
    <2>2. QED
      BY <2>1, FS_Interval DEF Children
  <1>2. Holders(h) \subseteq Callers
    BY DEF Holders
  <1>3. QED
    BY <1>1, <1>2, FS_Subset, FS_CardinalityType, CallersAreFinite

(* A step that moves no caller and adds no record.                         *)
LEMMA ForksStay ==
  ASSUME ForkInv, chain'.head = chain.head, disk'.head \in {disk.head, chain.head},
         UNCHANGED <<made, sent, life, caller>>
  PROVE  ForkInv'
  <1>1. \A h : Children(h)' = Children(h) /\ Holders(h)' = Holders(h)
    BY DEF Children, Holders
  <1>2. HashesAreMade'
    BY DEF ForkInv, HashesAreMade, IsMade
  <1>3. HeadIsFree'
    BY <1>1 DEF ForkInv, HeadIsFree
  <1>4. HoldersAreBounded'
    BY <1>1 DEF ForkInv, HoldersAreBounded
  <1>5. QED
    BY <1>2, <1>3, <1>4 DEF ForkInv

(* Nobody has a child of the head, so one more caller may hold it.         *)
LEMMA LinkForks ==
  ASSUME TypeOK, ForkInv, NEW c \in Callers, Link(c)
  PROVE  ForkInv'
  <1>1. /\ caller' = [caller EXCEPT ![c] = [at |-> "linked", prev |-> chain.head]]
        /\ caller[c].at = "idle" /\ caller \in [Callers -> Calls]
        /\ UNCHANGED <<chain, disk, made, sent, life>>
    BY DEF Link, TypeOK
  <1>2. chain.head \in Nat
    BY DEF TypeOK, Heads, Hashes
  <1>3. \A h : Children(h)' = Children(h)
    BY <1>1 DEF Children
  <1>4. \A h : h # chain.head => Holders(h)' = Holders(h)
    BY <1>1 DEF Holders
  <1>5. HashesAreMade'
    BY <1>1, <1>2 DEF ForkInv, HashesAreMade, IsMade
  <1>6. HeadIsFree'
    BY <1>1, <1>3 DEF ForkInv, HeadIsFree
  <1>7. HoldersAreBounded'
    <2> SUFFICES ASSUME NEW h \in Nat
                 PROVE  Cardinality(Children(h)') + Cardinality(Holders(h)') <= Cardinality(Callers)
      BY DEF HoldersAreBounded
    <2>1. CASE h = chain.head
      <3>1. Cardinality(Children(h)') = 0
        BY <1>3, <2>1, FS_EmptySet DEF ForkInv, HeadIsFree
      <3>2. Holders(h)' \subseteq Callers
        BY DEF Holders
      <3>3. QED
        BY <3>1, <3>2, CallersAreFinite
    <2>2. CASE h # chain.head
      BY <1>3, <1>4, <2>2 DEF ForkInv, HoldersAreBounded
    <2>3. QED
      BY <2>1, <2>2
  <1>8. QED
    BY <1>5, <1>6, <1>7 DEF ForkInv

(* A caller that advances holds on to what it has read, and the new head   *)
(* is a hash nobody has seen.                                              *)
LEMMA AdvanceForks ==
  ASSUME TypeOK, ForkInv, NEW c \in Callers, Advance(c)
  PROVE  ForkInv'
  <1> DEFINE rec == [hash |-> made + 1, prev |-> caller[c].prev]
  <1>1. /\ caller' = [caller EXCEPT ![c] = [at |-> "built", rec |-> rec]]
        /\ caller[c].at = "linked" /\ caller \in [Callers -> Calls]
        /\ made' = made + 1 /\ chain'.head = made + 1
        /\ disk'.head \in {disk.head, made + 1}
        /\ UNCHANGED <<sent, life>>
    BY DEF Advance, Save, TypeOK
  <1>2. /\ made \in Nat /\ life.made \in Nat /\ chain.head \in Nat /\ disk.head \in Nat
        /\ sent \in Seq(Records)
    BY DEF TypeOK, Heads, Hashes
  <1>3. caller[c].prev \in Nat /\ caller[c].prev <= made
    BY <1>1 DEF Calls, Hashes, ForkInv, HashesAreMade
  <1>4. \A h : Children(h)' = Children(h) /\ Holders(h)' = Holders(h)
    <2>1. \A h : Children(h)' = Children(h)
      BY <1>1 DEF Children
    <2>2. \A h : Holders(h)' = Holders(h)
      BY <1>1 DEF Holders
    <2>3. QED
      BY <2>1, <2>2
  <1>5. \A r \in Records : IsMade(r) => IsMade(r)' /\ r.prev # made + 1
    BY <1>1, <1>2 DEF IsMade, Records, Hashes
  <1>6. \A d \in Callers : caller[d].at = "built" => caller[d].rec \in Records
    BY <1>1 DEF Calls
  <1>7. \A i \in 1..Len(sent) : sent[i] \in Records /\ IsMade(sent[i])
    BY <1>2 DEF ForkInv, HashesAreMade
  <1>8. HashesAreMade'
    <2>1. chain'.head <= made' /\ disk'.head <= made' /\ life'.made <= made'
      BY <1>1, <1>2 DEF ForkInv, HashesAreMade
    <2>2. \A i \in 1..Len(sent') : IsMade(sent[i])'
      BY <1>1, <1>5, <1>7
    <2>3. ASSUME NEW d \in Callers
          PROVE  /\ caller'[d].at = "linked" => caller'[d].prev <= made'
                 /\ caller'[d].at = "built" => IsMade(caller[d].rec)'
      <3>1. CASE d = c
        BY <1>1, <1>2, <1>3, <3>1 DEF IsMade
      <3>2. CASE d # c
        <4>1. caller'[d] = caller[d] /\ caller[d] \in Calls
          BY <1>1, <3>2
        <4>2. caller[d].at = "linked" => caller[d].prev \in Nat /\ caller[d].prev <= made
          BY <4>1 DEF Calls, Hashes, ForkInv, HashesAreMade
        <4>3. caller[d].at = "built" => IsMade(caller[d].rec)'
          BY <1>5, <1>6, <4>1 DEF ForkInv, HashesAreMade, IsMade
        <4>4. QED
          BY <1>1, <1>2, <4>1, <4>2, <4>3 DEF IsMade
      <3>3. QED
        BY <3>1, <3>2
    <2>4. QED
      BY <2>1, <2>2, <2>3 DEF HashesAreMade, IsMade
  <1>9. HeadIsFree'
    <2>1. Children(made + 1) = {}
      BY <1>5, <1>7 DEF Children
    <2>2. \A d \in Callers : caller'[d].at = "built" => caller'[d].rec.prev # made + 1
      BY <1>1, <1>2, <1>3, <1>5, <1>6 DEF ForkInv, HashesAreMade
    <2>3. QED
      BY <1>1, <1>4, <2>1, <2>2 DEF HeadIsFree
  <1>10. HoldersAreBounded'
    BY <1>4 DEF ForkInv, HoldersAreBounded
  <1>11. QED
    BY <1>8, <1>9, <1>10 DEF ForkInv

(* A record that is queued takes its caller's place; one that is not       *)
(* leaves it free.                                                         *)
LEMMA EnqueueForks ==
  ASSUME TypeOK, ForkInv, NEW c \in Callers, Enqueue(c)
  PROVE  ForkInv'
  <1> DEFINE rec == caller[c].rec
  <1>1. /\ caller' = [caller EXCEPT ![c] = Idle]
        /\ caller[c].at = "built" /\ caller \in [Callers -> Calls]
        /\ UNCHANGED <<chain, disk, made, life>>
        /\ sent' = sent \/ sent' = Append(sent, rec)
    BY DEF Enqueue, TypeOK
  <1>2. /\ sent \in Seq(Records) /\ Len(sent) \in Nat /\ rec \in Records
        /\ rec.prev \in Nat
    <2>1. caller[c] \in Calls
      BY <1>1
    <2>2. rec \in Records
      BY <1>1, <2>1 DEF Calls
    <2>3. QED
      BY <2>2 DEF TypeOK, Records, Hashes
  <1>3. IsMade(rec) /\ rec.prev # chain.head
    BY <1>1 DEF ForkInv, HashesAreMade, HeadIsFree
  <1>4. /\ Len(sent') \in {Len(sent), Len(sent) + 1}
        /\ \A i \in 1..Len(sent) : sent'[i] = sent[i]
        /\ \A i \in 1..Len(sent') : i \notin 1..Len(sent) => i = Len(sent) + 1 /\ sent'[i] = rec
    BY <1>1, <1>2
  <1>5. \A h : \/ Children(h)' = Children(h)
               \/ h = rec.prev /\ Children(h)' = Children(h) \cup {Len(sent) + 1}
    BY <1>1, <1>2, <1>4 DEF Children
  <1>6. \A h : Holders(h)' = Holders(h) \ {c}
    BY <1>1 DEF Holders, Idle
  <1>7. c \in Holders(rec.prev)
    BY <1>1 DEF Holders
  <1>8. HashesAreMade'
    BY <1>1, <1>2, <1>3, <1>4 DEF ForkInv, HashesAreMade, IsMade, Idle
  <1>9. HeadIsFree'
    BY <1>1, <1>3, <1>5 DEF ForkInv, HeadIsFree, Idle
  <1>10. HoldersAreBounded'
    <2> SUFFICES ASSUME NEW h \in Nat
                 PROVE  Cardinality(Children(h)') + Cardinality(Holders(h)') <= Cardinality(Callers)
      BY DEF HoldersAreBounded
    <2>1. /\ IsFiniteSet(Children(h)) /\ Cardinality(Children(h)) \in Nat
          /\ IsFiniteSet(Holders(h)) /\ Cardinality(Holders(h)) \in Nat
          /\ Cardinality(Callers) \in Nat
          /\ Cardinality(Children(h)) + Cardinality(Holders(h)) <= Cardinality(Callers)
      BY SetsAreFinite DEF ForkInv, HoldersAreBounded
    <2>2. Cardinality(Holders(h)') =
            Cardinality(Holders(h)) - (IF c \in Holders(h) THEN 1 ELSE 0)
      BY <1>6, <2>1, FS_RemoveElement
    <2>3. CASE Children(h)' = Children(h)
      BY <2>1, <2>2, <2>3
    <2>4. CASE h = rec.prev /\ Children(h)' = Children(h) \cup {Len(sent) + 1}
      <3>1. Cardinality(Children(h)') \in {Cardinality(Children(h)), Cardinality(Children(h)) + 1}
        <4>1. CASE Len(sent) + 1 \in Children(h)
          <5>1. Children(h) \cup {Len(sent) + 1} = Children(h)
            BY <4>1
          <5>2. QED
            BY <2>4, <5>1
        <4>2. CASE Len(sent) + 1 \notin Children(h)
          <5>1. Cardinality(Children(h) \cup {Len(sent) + 1}) = Cardinality(Children(h)) + 1
            BY <2>1, <4>2, FS_AddElement
          <5>2. QED
            BY <2>4, <5>1
        <4>3. QED
          BY <4>1, <4>2
      <3>2. QED
        BY <1>7, <2>1, <2>2, <2>4, <3>1
    <2>5. QED
      BY <1>5, <2>3, <2>4
  <1>11. QED
    BY <1>8, <1>9, <1>10 DEF ForkInv

(* A process starts with the records it finds, and none of its own.        *)
LEMMA RestartForks ==
  ASSUME TypeOK, SpoolInOrder, ForkInv, Restart
  PROVE  ForkInv'
  <1>1. /\ chain'.head \in {disk.head, Genesis} /\ disk' = disk
        /\ made' = made /\ sent' = spool
        /\ life'.made = made /\ \A c \in Callers : caller'[c] = Idle
    BY DEF Restart
  <1>2. /\ spool \in Seq(Records) /\ sent \in Seq(Records) /\ made \in Nat
        /\ lost \o (batch \o queue) \in Seq(Records)
    BY ConcatProperties DEF TypeOK
  <1>3. \A i \in 1..Len(spool) : spool[i] \in Records /\ IsMade(spool[i])
    <2>1. \A i \in 1..Len(spool) : i \in 1..Len(sent) /\ sent[i] = spool[i]
      BY <1>2, ConcatProperties DEF SpoolInOrder
    <2>2. QED
      BY <1>2, <2>1 DEF ForkInv, HashesAreMade
  <1>4. \A h : Children(h)' = {} /\ Holders(h)' = {}
    <2>1. \A h : Children(h)' = {}
      BY <1>1, <1>2, <1>3 DEF Children, IsMade, Records, Hashes
    <2>2. \A h : Holders(h)' = {}
      BY <1>1 DEF Holders, Idle
    <2>3. QED
      BY <2>1, <2>2
  <1>5. HashesAreMade'
    <2>1. Genesis <= made
      BY <1>2 DEF Genesis
    <2>2. QED
      BY <1>1, <1>2, <1>3, <2>1 DEF ForkInv, HashesAreMade, IsMade, Idle
  <1>6. HeadIsFree'
    BY <1>1, <1>4 DEF HeadIsFree, Idle
  <1>7. HoldersAreBounded'
    <2>1. IsFiniteSet(Callers) /\ Cardinality(Callers) \in Nat
      BY CollectorAssumption, FS_CardinalityType
    <2>2. \A h : Cardinality(Children(h)') = 0 /\ Cardinality(Holders(h)') = 0
      BY <1>4, FS_EmptySet
    <2>3. QED
      BY <2>1, <2>2 DEF HoldersAreBounded
  <1>8. QED
    BY <1>5, <1>6, <1>7 DEF ForkInv

(* The forks of the chain are as wide as there are callers, and no wider:  *)
(* with one caller the records of a process form a chain.                  *)
(* (collector.go, RecordWithParent between GetChainInfo and Advance)       *)
THEOREM ForksAreNarrow == Spec => []ForksAreBounded
  <1>1. Init => ForkInv
    <2> SUFFICES ASSUME Init PROVE ForkInv
      OBVIOUS
    <2>1. \A h : Children(h) = {} /\ Holders(h) = {}
      BY DEF Init, Children, Holders, Idle
    <2>2. Cardinality(Callers) \in Nat
      BY CollectorAssumption, FS_CardinalityType
    <2>3. HashesAreMade /\ HeadIsFree
      BY <2>1 DEF Init, HashesAreMade, HeadIsFree, Idle, Genesis
    <2>4. HoldersAreBounded
      <3>1. \A h : Cardinality(Children(h)) = 0 /\ Cardinality(Holders(h)) = 0
        BY <2>1, FS_EmptySet
      <3>2. QED
        BY <2>2, <3>1 DEF HoldersAreBounded
    <2>5. QED
      BY <2>3, <2>4 DEF ForkInv
  <1>2. TypeOK /\ SpoolInOrder /\ ForkInv /\ [Next]_vars => ForkInv'
    <2> SUFFICES ASSUME TypeOK, SpoolInOrder, ForkInv, [Next]_vars PROVE ForkInv'
      OBVIOUS
    <2>1. CASE ExportStep \/ Signal \/ CloseCollector \/ UNCHANGED vars
      <3>1. /\ chain'.head = chain.head /\ disk'.head \in {disk.head, chain.head}
            /\ UNCHANGED <<made, sent, life, caller>>
        BY <2>1 DEF ExportStep, Receive, Tick, CloseQueue, Drain, Signal, CloseCollector, Save
      <3>2. QED
        BY <3>1, ForksStay
    <2>2. QED
      BY <2>1, LinkForks, AdvanceForks, EnqueueForks, RestartForks DEF Next
  <1>3. TypeOK /\ ForkInv => ForksAreBounded
    <2> SUFFICES ASSUME TypeOK, ForkInv, NEW i \in 1..Len(sent)
                 PROVE  Cardinality(Children(sent[i].prev)) <= Cardinality(Callers)
      BY DEF ForksAreBounded
    <2> DEFINE h == sent[i].prev
    <2>1. h \in Nat
      <3>1. sent \in Seq(Records)
        BY DEF TypeOK
      <3>2. sent[i] \in Records
        BY <3>1
      <3>3. QED
        BY <3>2 DEF Records, Hashes
    <2>2. Cardinality(Children(h)) + Cardinality(Holders(h)) <= Cardinality(Callers)
      BY <2>1 DEF ForkInv, HoldersAreBounded
    <2>3. /\ Cardinality(Children(h)) \in Nat /\ Cardinality(Holders(h)) \in Nat
          /\ Cardinality(Callers) \in Nat
      BY SetsAreFinite
    <2>4. QED
      BY <2>2, <2>3
  <1>4. QED
    BY <1>1, <1>2, <1>3, TypeCorrect, OrderIsKept, PTL DEF Spec

-----------------------------------------------------------------------------
(***************************************************************************)
(* What takes a fork or a late call.  The spool may be no valid chain and  *)
(* Record may fail (SDRCollector_fork, SDRCollector_latecall); these two   *)
(* theorems say that it takes a second caller, a dropped record or a       *)
(* restart for the one and a signal for the other.                         *)
(***************************************************************************)
LastHash == IF sent = <<>> THEN Genesis ELSE sent[Len(sent)].hash

\* One caller and nothing dropped since the first process started.
Unforked == Cardinality(Callers) = 1 /\ life.restarts = 0 /\ count.dropped = 0

\* What the caller holds continues what it has sent.
Continues(c) ==
  CASE caller[c].at = "idle"   -> chain.head = LastHash
    [] caller[c].at = "linked" -> chain.head = LastHash /\ caller[c].prev = LastHash
    [] caller[c].at = "built"  -> /\ chain.head = caller[c].rec.hash
                                  /\ caller[c].rec.prev = LastHash

ChainInv ==
  Unforked => /\ ValidChain(sent)
              /\ open => \A c \in Callers : Continues(c)

ChainIsValidUnforked == Unforked => SpoolIsValidChain
RecordReturnsServing == main = "serving" => RecordReturns

(* A record that continues the last one keeps the chain valid.             *)
LEMMA AppendKeepsChain ==
  ASSUME NEW s \in Seq(Records), NEW rec \in Records, ValidChain(s),
         rec.prev = IF s = <<>> THEN Genesis ELSE s[Len(s)].hash
  PROVE  /\ ValidChain(Append(s, rec))
         /\ Append(s, rec) # <<>>
         /\ Append(s, rec)[Len(Append(s, rec))] = rec
  <1>1. /\ Len(s) \in Nat /\ Len(Append(s, rec)) = Len(s) + 1
        /\ Append(s, rec)[Len(s) + 1] = rec
        /\ \A i \in 1..Len(s) : Append(s, rec)[i] = s[i]
        /\ Append(s, rec) \in Seq(Records)
    BY AppendProperties
  <1>2. Append(s, rec) # <<>>
    BY <1>1, EmptySeq
  <1>3. ASSUME NEW i \in 1..Len(s)
        PROVE  Append(s, rec)[i].prev = IF i = 1 THEN Genesis ELSE Append(s, rec)[i - 1].hash
    <2>1. s[i].prev = IF i = 1 THEN Genesis ELSE s[i - 1].hash
      BY DEF ValidChain
    <2>2. i # 1 => i - 1 \in 1..Len(s)
      BY <1>1
    <2>3. QED
      BY <1>1, <2>1, <2>2
  <1>4. rec.prev = IF Len(s) + 1 = 1 THEN Genesis ELSE Append(s, rec)[Len(s)].hash
    <2>1. CASE s = <<>>
      BY <2>1, EmptySeq
    <2>2. CASE s # <<>>
      <3>1. Len(s) \in 1..Len(s)
        BY <1>1, <2>2, EmptySeq
      <3>2. QED
        BY <1>1, <2>2, <3>1
    <2>3. QED
      BY <2>1, <2>2
  <1>5. ASSUME NEW i \in 1..Len(Append(s, rec))
        PROVE  Append(s, rec)[i].prev = IF i = 1 THEN Genesis ELSE Append(s, rec)[i - 1].hash
    <2>1. CASE i \in 1..Len(s)
      BY <1>3, <2>1
    <2>2. CASE i = Len(s) + 1
      <3>1. i - 1 = Len(s)
        BY <1>1, <2>2
      <3>2. QED
        BY <1>1, <1>4, <2>2, <3>1
    <2>3. QED
      BY <1>1, <2>1, <2>2
  <1>6. QED
    BY <1>1, <1>2, <1>5 DEF ValidChain

(* The one caller links, advances and sends, each time to its last record. *)
LEMMA CallerContinues ==
  ASSUME TypeOK, Drained, ChainInv, Unforked', NEW c \in Callers,
         Link(c) \/ Advance(c) \/ Enqueue(c)
  PROVE  ChainInv'
  <1>1. PICK x : Callers = {x}
    BY CollectorAssumption, FS_Singleton DEF Unforked
  <1>2. \A d \in Callers : d = c
    BY <1>1
  <1>3. caller[c] \in Calls /\ caller' \in [Callers -> {caller'[c]}] /\ sent \in Seq(Records)
    <2>1. \E v : caller' = [caller EXCEPT ![c] = v]
      BY DEF Link, Advance, Enqueue
    <2>2. QED
      BY <1>2, <2>1 DEF TypeOK
  <1>4. SUFFICES Unforked => ValidChain(sent') /\ (open' => Continues(c)')
    <2>1. Unforked
      <3>1. life' = life /\ life.restarts = 0 /\ count'.dropped = 0 /\ Cardinality(Callers) = 1
        BY DEF Unforked, Link, Advance, Enqueue
      <3>2. count'.dropped = count.dropped \/ count'.dropped = count.dropped + 1
        <4>1. \/ count' = count
              \/ count' = [count EXCEPT !.panicked = @ + 1]
              \/ count' = [count EXCEPT !.recorded = @ + 1]
              \/ count' = [count EXCEPT !.dropped = @ + 1]
          BY DEF Link, Advance, Enqueue
        <4>2. QED
          BY <4>1 DEF TypeOK
      <3>3. count.dropped = 0
        <4>1. count.dropped \in Nat
          BY DEF TypeOK
        <4>2. QED
          BY <3>1, <3>2, <4>1
      <3>4. QED
        BY <3>1, <3>3 DEF Unforked
    <2>2. QED
      BY <1>2, <1>4, <2>1 DEF ChainInv
  <1>5. SUFFICES ASSUME Unforked
                 PROVE  ValidChain(sent') /\ (open' => Continues(c)')
    OBVIOUS
  <1>6. ValidChain(sent) /\ (open => Continues(c))
    BY <1>5 DEF ChainInv
  <1>7. CASE Link(c)
    <2>1. /\ caller[c].at = "idle" /\ UNCHANGED <<sent, open, chain>>
          /\ caller'[c] = [at |-> "linked", prev |-> chain.head]
      BY <1>7 DEF Link, TypeOK
    <2>2. QED
      BY <1>6, <2>1 DEF Continues, LastHash
  <1>8. CASE Advance(c)
    <2>1. /\ caller[c].at = "linked" /\ UNCHANGED <<sent, open>>
          /\ chain'.head = made + 1
          /\ caller'[c] = [at |-> "built",
                           rec |-> [hash |-> made + 1, prev |-> caller[c].prev]]
      BY <1>8 DEF Advance, TypeOK
    <2>2. QED
      BY <1>6, <2>1 DEF Continues, LastHash
  <1>9. CASE Enqueue(c)
    <2>1. /\ caller[c].at = "built" /\ UNCHANGED <<chain, open>> /\ caller'[c] = Idle
          /\ caller[c].rec \in Records
      BY <1>3, <1>9 DEF Enqueue, TypeOK, Calls
    <2>2. CASE ~open
      BY <1>6, <1>9, <2>1, <2>2 DEF Enqueue
    <2>3. CASE open
      <3>1. sent' = Append(sent, caller[c].rec)
        <4>1. count.dropped = 0 /\ count'.dropped = 0 /\ count.dropped + 1 # 0
          BY <1>5 DEF Unforked
        <4>2. count' # [count EXCEPT !.dropped = @ + 1]
          BY <4>1 DEF TypeOK
        <4>3. QED
          BY <1>9, <2>3, <4>2 DEF Enqueue
      <3>2. Continues(c)
        BY <1>6, <2>3
      <3>3. caller[c].rec.prev = LastHash /\ chain.head = caller[c].rec.hash
        BY <2>1, <3>2 DEF Continues
      <3>4. ValidChain(sent') /\ sent' # <<>> /\ sent'[Len(sent')] = caller[c].rec
        BY <1>3, <1>6, <2>1, <3>1, <3>3, AppendKeepsChain DEF LastHash
      <3>5. LastHash' = chain'.head
        BY <2>1, <3>3, <3>4 DEF LastHash
      <3>6. QED
        BY <2>1, <3>4, <3>5 DEF Continues, Idle
    <2>4. QED
      BY <2>2, <2>3
  <1>10. QED
    BY <1>7, <1>8, <1>9

(* SpoolIsValidChain, which SDRCollector_fork refutes: one caller whose    *)
(* process has neither dropped a record nor been restarted writes a chain  *)
(* that ValidateChain accepts, whatever the batches and the shutdown do,   *)
(* and when writes fail as well: what they lose is the end of the chain.   *)
THEOREM OneCallerIsAChain == Spec => []ChainIsValidUnforked
  <1>1. Init => ChainInv
    <2> SUFFICES ASSUME Init PROVE ChainInv
      OBVIOUS
    <2>1. Len(sent) = 0 /\ sent = <<>>
      BY EmptySeq DEF Init
    <2>2. ValidChain(sent)
      BY <2>1 DEF ValidChain
    <2>3. \A c \in Callers : Continues(c)
      BY <2>1 DEF Init, Continues, LastHash, Idle
    <2>4. QED
      BY <2>2, <2>3 DEF ChainInv
  <1>2. TypeOK /\ Drained /\ ChainInv /\ [Next]_vars => ChainInv'
    <2> SUFFICES ASSUME TypeOK, Drained, ChainInv, Unforked', [Next]_vars PROVE ChainInv'
      BY DEF ChainInv
    <2>1. CASE ExportStep \/ Signal \/ CloseCollector \/ UNCHANGED vars
      <3>1. /\ chain' = chain /\ (open' => open)
            /\ UNCHANGED <<sent, life, count, caller>>
        BY <2>1 DEF ExportStep, Receive, Tick, CloseQueue, Drain, Signal, CloseCollector
      <3>2. (Unforked' <=> Unforked) /\ LastHash' = LastHash
        BY <3>1 DEF Unforked, LastHash
      <3>3. \A c \in Callers : Continues(c)' <=> Continues(c)
        BY <3>1, <3>2 DEF Continues
      <3>4. QED
        BY <3>1, <3>2, <3>3 DEF ChainInv
    <2>2. CASE Restart
      <3>1. life'.restarts = life.restarts + 1 /\ life.restarts \in Nat
        BY <2>2 DEF Restart, TypeOK
      <3>2. QED
        BY <3>1 DEF Unforked
    <2>3. QED
      BY <2>1, <2>2, CallerContinues DEF Next
  <1>3. TypeOK /\ SpoolInOrder /\ ChainInv => ChainIsValidUnforked
    <2> SUFFICES ASSUME TypeOK, SpoolInOrder, ValidChain(sent) PROVE ValidChain(spool)
      BY DEF ChainInv, ChainIsValidUnforked, SpoolIsValidChain
    <2>1. /\ spool \in Seq(Records) /\ lost \o (batch \o queue) \in Seq(Records)
      BY ConcatProperties DEF TypeOK
    <2>2. \A i \in 1..Len(spool) : i \in 1..Len(sent) /\ sent[i] = spool[i]
      BY <2>1, ConcatProperties DEF SpoolInOrder
    <2>3. ASSUME NEW i \in 1..Len(spool)
          PROVE  spool[i].prev = IF i = 1 THEN Genesis ELSE spool[i - 1].hash
      <3>1. sent[i].prev = IF i = 1 THEN Genesis ELSE sent[i - 1].hash
        BY <2>2 DEF ValidChain
      <3>2. i # 1 => i - 1 \in 1..Len(spool)
        BY <2>1, LenProperties
      <3>3. QED
        BY <2>2, <3>1, <3>2
    <2>4. QED
      BY <2>3 DEF ValidChain
  <1>4. QED
    BY <1>1, <1>2, <1>3, TypeCorrect, DrainedAlways, OrderIsKept, PTL DEF Spec

(* RecordReturns, which SDRCollector_latecall refutes: no call of Record   *)
(* fails before main has been told to stop.                                *)
THEOREM ServingCallsReturn == Spec => []RecordReturnsServing
  <1>1. Init => RecordReturnsServing
    BY DEF Init, RecordReturnsServing, RecordReturns
  <1>2. TypeOK /\ Drained /\ RecordReturnsServing /\ [Next]_vars => RecordReturnsServing'
    <2> SUFFICES ASSUME TypeOK, Drained, RecordReturnsServing, [Next]_vars, main' = "serving"
                 PROVE  count'.panicked = 0
      BY DEF RecordReturnsServing, RecordReturns
    <2>1. CASE Restart
      BY <2>1 DEF Restart
    <2>2. ASSUME NEW c \in Callers, Enqueue(c) PROVE count'.panicked = 0
      <3>1. main = "serving" /\ open
        BY <2>2 DEF Enqueue, Drained
      <3>2. count.panicked = 0
        BY <3>1 DEF RecordReturnsServing, RecordReturns
      <3>3. \/ count' = [count EXCEPT !.recorded = @ + 1]
            \/ count' = [count EXCEPT !.dropped = @ + 1]
        BY <2>2, <3>1 DEF Enqueue
      <3>4. count'.panicked = count.panicked
        BY <3>3 DEF TypeOK
      <3>5. QED
        BY <3>2, <3>4
    <2>3. ASSUME NEW c \in Callers, Link(c) \/ Advance(c) PROVE count'.panicked = 0
      BY <2>3 DEF Link, Advance, RecordReturnsServing, RecordReturns
    <2>4. CASE ExportStep \/ Signal \/ CloseCollector \/ UNCHANGED vars
      BY <2>4 DEF ExportStep, Receive, Tick, CloseQueue, Drain, Signal, CloseCollector,
         RecordReturnsServing, RecordReturns
    <2>5. QED
      BY <2>1, <2>2, <2>3, <2>4 DEF Next
  <1>3. QED
    BY <1>1, <1>2, TypeCorrect, DrainedAlways, PTL DEF Spec

=============================================================================
