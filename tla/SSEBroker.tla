-------------------------------- MODULE SSEBroker --------------------------------
(***************************************************************************)
(* Server-sent events (internal/mcp/sse.go): publishers put events into a  *)
(* bounded replay buffer and, without waiting, into the channel registered *)
(* for a correlation id; each stream replays what its client says it       *)
(* missed and then follows its channel.  The broker's lock makes Publish   *)
(* (all but the drawing of its id), Subscribe, Unsubscribe and EventsSince *)
(* a step each.                                                            *)
(*                                                                         *)
(* An event is its id, its place in the order in which events entered the  *)
(* buffer, and the correlation id it is for.                               *)
(***************************************************************************)
EXTENDS Integers, Sequences

CONSTANTS Publishers, Streams, CorrelationIds,
          BufferSize,      \* bufSize
          ChannelSize,     \* 100 in Subscribe
          MaxEvents        \* bound on the events published

NoStream == "none"

ASSUME StreamAssumption ==
  /\ BufferSize \in Nat \ {0} /\ ChannelSize \in Nat \ {0} /\ MaxEvents \in Nat
  /\ NoStream \notin Streams

VARIABLES nextID,
          buffer,
          clients,         \* correlation id -> the stream whose channel is registered, or none
          drawn,           \* drawn[p]: the id a publisher holds, 0: none
          committed,       \* how many events entered the buffer
          stream,          \* idle, queried, open, ended
          correlation,     \* correlation[s]: what the stream subscribes to
          replay,          \* replay[s]: what is left of the events to replay
          channel,         \* channel[s]: the events queued
          isClosed,        \* its channel was closed
          written          \* written[s]: the events its client was sent

sseVars == <<nextID, buffer, clients, drawn, committed, stream, correlation,
             replay, channel, isClosed, written>>

-----------------------------------------------------------------------------
(* Publish, in two steps: the id is drawn before the lock is taken.        *)
DrawID(p) ==
  /\ drawn[p] = 0 /\ nextID < MaxEvents
  /\ nextID' = nextID + 1
  /\ drawn' = [drawn EXCEPT ![p] = nextID + 1]
  /\ UNCHANGED <<buffer, clients, committed, stream, correlation, replay, channel, isClosed, written>>

\* Wrong on purpose: nobody looks whether the channel is full.
PublishUnbounded(p, id) ==
  LET e == [id |-> drawn[p], place |-> committed + 1, to |-> id]
      s == clients[id]
  IN /\ drawn[p] # 0
     /\ drawn' = [drawn EXCEPT ![p] = 0]
     /\ committed' = committed + 1
     /\ buffer' = Append(IF Len(buffer) >= BufferSize THEN Tail(buffer) ELSE buffer, e)
     /\ channel' = IF s = NoStream THEN channel ELSE [channel EXCEPT ![s] = Append(@, e)]
     /\ UNCHANGED <<nextID, clients, stream, correlation, replay, isClosed, written>>

(* The oldest event makes room in a full buffer; a full channel loses the  *)
(* new one.                                                                *)
Publish(p, id) ==
  LET e == [id |-> drawn[p], place |-> committed + 1, to |-> id]
      s == clients[id]
  IN /\ drawn[p] # 0
     /\ drawn' = [drawn EXCEPT ![p] = 0]
     /\ committed' = committed + 1
     /\ buffer' = Append(IF Len(buffer) >= BufferSize THEN Tail(buffer) ELSE buffer, e)
     /\ channel' = IF s = NoStream \/ Len(channel[s]) >= ChannelSize THEN channel
                   ELSE [channel EXCEPT ![s] = Append(@, e)]
     /\ UNCHANGED <<nextID, clients, stream, correlation, replay, isClosed, written>>

(* since[n] is what is missed of the n oldest events in the buffer.        *)
EventsSince(lastID) ==
  LET since[n \in 0..Len(buffer)] ==
        IF n = 0 THEN <<>>
        ELSE IF buffer[n].id > lastID THEN Append(since[n - 1], buffer[n])
        ELSE since[n - 1]
  IN  since[Len(buffer)]

(* HandleSSE: a client may name the last event it has seen.  What is then  *)
(* replayed is not limited to its correlation id.                          *)
Query(s, id, lastID) ==
  /\ stream[s] = "idle"
  /\ stream' = [stream EXCEPT ![s] = "queried"]
  /\ correlation' = [correlation EXCEPT ![s] = id]
  /\ replay' = [replay EXCEPT ![s] = EventsSince(lastID)]
  /\ UNCHANGED <<nextID, buffer, clients, drawn, committed, channel, isClosed, written>>

(* The channel of a stream with the same correlation id is replaced.       *)
Subscribe(s) ==
  /\ stream[s] = "queried"
  /\ stream' = [stream EXCEPT ![s] = "open"]
  /\ clients' = [clients EXCEPT ![correlation[s]] = s]
  /\ UNCHANGED <<nextID, buffer, drawn, committed, correlation, replay, channel, isClosed, written>>

\* Wrong on purpose: the channel is closed and stays registered.
UnsubscribeKept(id) ==
  /\ isClosed' = IF clients[id] = NoStream THEN isClosed
                 ELSE [isClosed EXCEPT ![clients[id]] = TRUE]
  /\ UNCHANGED clients

(* Whichever channel is registered by now is closed.                       *)
Unsubscribe(id) ==
  IF clients[id] = NoStream THEN UNCHANGED <<clients, isClosed>>
  ELSE /\ isClosed' = [isClosed EXCEPT ![clients[id]] = TRUE]
       /\ clients' = [clients EXCEPT ![id] = NoStream]

End(s) ==
  /\ stream' = [stream EXCEPT ![s] = "ended"]
  /\ Unsubscribe(correlation[s])

\* Wrong on purpose: the replay goes on with whatever the buffer holds by now.
ReplayLive(s) ==
  /\ stream[s] = "open" /\ replay[s] # <<>>
  /\ written' = [written EXCEPT ![s] = Append(@, Head(replay[s]))]
  /\ replay' = [replay EXCEPT ![s] = EventsSince(Head(@).id)]
  /\ UNCHANGED <<nextID, buffer, clients, drawn, committed, stream, correlation, channel, isClosed>>

(* The stream's writer: first the replay, then the channel.                *)
Replay(s) ==
  /\ stream[s] = "open" /\ replay[s] # <<>>
  /\ written' = [written EXCEPT ![s] = Append(@, Head(replay[s]))]
  /\ replay' = [replay EXCEPT ![s] = Tail(@)]
  /\ UNCHANGED <<nextID, buffer, clients, drawn, committed, stream, correlation, channel, isClosed>>

\* Wrong on purpose: the writer looks its channel up again, and finds another.
FollowRegistered(s) ==
  /\ stream[s] = "open" /\ replay[s] = <<>> /\ channel[s] # <<>>
  /\ clients[correlation[s]] = s
  /\ written' = [written EXCEPT ![s] = Append(@, Head(channel[s]))]
  /\ channel' = [channel EXCEPT ![s] = Tail(@)]
  /\ UNCHANGED <<nextID, buffer, clients, drawn, committed, stream, correlation, replay, isClosed>>

Follow(s) ==
  /\ stream[s] = "open" /\ replay[s] = <<>> /\ channel[s] # <<>>
  /\ written' = [written EXCEPT ![s] = Append(@, Head(channel[s]))]
  /\ channel' = [channel EXCEPT ![s] = Tail(@)]
  /\ UNCHANGED <<nextID, buffer, clients, drawn, committed, stream, correlation, replay, isClosed>>

(* A closed channel that is drained ends the stream.                       *)
ChannelEnds(s) ==
  /\ stream[s] = "open" /\ replay[s] = <<>> /\ channel[s] = <<>> /\ isClosed[s]
  /\ End(s)
  /\ UNCHANGED <<nextID, buffer, drawn, committed, correlation, replay, channel, written>>

(* So does a write that fails, of an event or of a keep-alive: the client  *)
(* has gone, or the server's write timeout is over.                        *)
StreamFails(s) ==
  /\ stream[s] = "open"
  /\ End(s)
  /\ UNCHANGED <<nextID, buffer, drawn, committed, correlation, replay, channel, written>>

-----------------------------------------------------------------------------
SSEInit ==
  /\ nextID = 0
  /\ buffer = <<>>
  /\ clients = [id \in CorrelationIds |-> NoStream]
  /\ drawn = [p \in Publishers |-> 0]
  /\ committed = 0
  /\ stream = [s \in Streams |-> "idle"]
  /\ correlation = [s \in Streams |-> NoStream]
  /\ replay = [s \in Streams |-> <<>>]
  /\ channel = [s \in Streams |-> <<>>]
  /\ isClosed = [s \in Streams |-> FALSE]
  /\ written = [s \in Streams |-> <<>>]

(* What the goroutine of a stream does by itself.                          *)
Write(s) == Subscribe(s) \/ Replay(s) \/ Follow(s) \/ ChannelEnds(s)

(* A client that names no event is one that has seen them all.             *)
SSENext ==
  \/ \E p \in Publishers : DrawID(p) \/ \E id \in CorrelationIds : Publish(p, id)
  \/ \E s \in Streams :
       \/ \E id \in CorrelationIds, lastID \in 0..MaxEvents : Query(s, id, lastID)
       \/ Write(s) \/ StreamFails(s)

(* The writer is a goroutine of its own, and a stream whose channel was    *)
(* replaced is held until a keep-alive fails.                              *)
SSEFairness == \A s \in Streams : WF_sseVars(Write(s))

SSESpec == SSEInit /\ [][SSENext]_sseVars

-----------------------------------------------------------------------------
Events == [id : 1..MaxEvents, place : 1..MaxEvents, to : CorrelationIds]

SSETypeOK ==
  /\ nextID \in 0..MaxEvents /\ committed \in 0..nextID
  /\ buffer \in Seq(Events) /\ Len(buffer) <= BufferSize
  /\ clients \in [CorrelationIds -> Streams \cup {NoStream}]
  /\ drawn \in [Publishers -> 0..MaxEvents]
  /\ stream \in [Streams -> {"idle", "queried", "open", "ended"}]
  /\ correlation \in [Streams -> CorrelationIds \cup {NoStream}]
  /\ replay \in [Streams -> Seq(Events)] /\ written \in [Streams -> Seq(Events)]
  /\ channel \in [Streams -> Seq(Events)]
  /\ \A s \in Streams : Len(channel[s]) <= ChannelSize
  /\ isClosed \in [Streams -> BOOLEAN]

(* No event is sent on a closed channel, which would take the process      *)
(* down: a channel that is registered is open, although the end of one     *)
(* stream may close the channel of another.                                *)
(* (sse.go, Unsubscribe and Publish)                                       *)
RegisteredIsOpen ==
  \A id \in CorrelationIds : clients[id] # NoStream => ~isClosed[clients[id]]

(* A stream never repeats an event and never goes back: its replay and     *)
(* then its channel, what it wrote and what it has yet to write, are in    *)
(* the order in which the events entered the buffer, whatever their ids.   *)
(* (sse.go, HandleSSE: the replay is read before the subscription)         *)
InBufferOrder ==
  \A s \in Streams :
    LET all == written[s] \o replay[s] \o channel[s] IN
      \A i, j \in 1..Len(all) : i < j => all[i].place < all[j].place

(* What a stream has to replay or in its channel is written, or the stream *)
(* ends.  (sse.go, the loop of HandleSSE)                                  *)
EventsArrive ==
  \A s \in Streams :
    (replay[s] \o channel[s] # <<>>) ~> (stream[s] = "ended" \/ replay[s] \o channel[s] = <<>>)

=============================================================================
