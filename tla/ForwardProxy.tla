------------------------------- MODULE ForwardProxy -------------------------------
(***************************************************************************)
(* The agent's way out (internal/proxy/forward.go): a proxy for plain HTTP *)
(* and for CONNECT tunnels with a filter on the target; and the WebSocket  *)
(* tunnels to the upstream (internal/proxy/proxy.go), which have the same  *)
(* pair of goroutines copying the one connection to the other.             *)
(*                                                                         *)
(* An end of a tunnel is "open", "gone" (its peer closed it, or it broke)  *)
(* or "closed" (by this program); "none" where there is no connection.     *)
(***************************************************************************)
EXTENDS EgressPolicy

CONSTANTS Conns,      \* connections to the proxy, or upgraded to WebSocket
          Asks,       \* what they may ask for: [via, url, text]
          MaxHops     \* bound: redirects net/http follows (ten)

VARIABLES listening,  \* ProxyServer.listener is open
          stage,      \* new, reading, body, dialling, exchanging, tunnel, over
          ask,        \* what the connection asks for
          events,     \* telemetry events about it, each <<type, decision>>
          hops,       \* the hosts dialled for it, redirects included
          reply,      \* the status it was answered with, 0: none; 200: the target's
          client,     \* its own end of the tunnel
          target,     \* the far end
          up, down    \* the goroutine that copies to the target, to the client:
                      \* none, reading, writing, stopped

proxyVars == <<listening, stage, ask, events, hops, reply, client, target, up, down>>
endVars == <<client, target, up, down>>

NoAsk == [via |-> "none", url |-> [valid |-> FALSE, host |-> [name |-> <<>>, port |-> ""]],
          text |-> {}]

-----------------------------------------------------------------------------
(* Managed hosts are reported whether or not the mode blocks them.         *)
ManagedBy(name) ==
  IF cfg.broker.enabled /\ cfg.broker.mode \in {"enforce", "record"} THEN Match(name) ELSE ""

\* Wrong on purpose: the mode of the egress filter stands in for the broker's.
checkManagedHostByEgress(name) == ManagedBy(name) # "" /\ cfg.egress.mode # "record"

checkManagedHost(name) == ManagedBy(name) # "" /\ cfg.broker.mode # "record"

isRecordMode == cfg.egress.mode = "record"

(* What a request is refused for, and what is reported on the way: the     *)
(* managed host first, then the target; what an HTTP request carries is    *)
(* looked at when its body has been read.                                  *)
Managed(a) == IF ManagedBy(a.url.host.name) = "" THEN {} ELSE {<<"broker_egress_block", "deny">>}
Target(a) == {<<"egress", IF CheckURL(a.url).allowed THEN "allow" ELSE "deny">>}
Content(text) == IF CheckContent(text) THEN {} ELSE {<<"egress", "deny">>}

BlockedAsManaged(a)    == checkManagedHost(a.url.host.name)
BlockedByTarget(a)     == ~BlockedAsManaged(a) /\ ~CheckURL(a.url).allowed /\ ~isRecordMode
BlockedByContent(text) == Content(text) # {} /\ ~isRecordMode

EventsOf(a) == Managed(a) \cup (IF BlockedAsManaged(a) THEN {} ELSE Target(a))

-----------------------------------------------------------------------------
Accept(k) ==
  /\ listening /\ stage[k] = "new"
  /\ stage' = [stage EXCEPT ![k] = "reading"]
  /\ client' = [client EXCEPT ![k] = "open"]
  /\ UNCHANGED <<listening, ask, events, hops, reply, target, up, down>>

(* Shutdown closes the listener; connections that are open go on.          *)
Close ==
  /\ listening
  /\ listening' = FALSE
  /\ UNCHANGED <<stage, ask, events, hops, reply, endVars>>

(* The handler returns: what it opened is closed.                          *)
CloseEnds(k) ==
  /\ stage' = [stage EXCEPT ![k] = "over"]
  /\ client' = [client EXCEPT ![k] = "closed"]
  /\ target' = [target EXCEPT ![k] = IF @ = "none" THEN @ ELSE "closed"]

Hangup(k, status) == CloseEnds(k) /\ reply' = [reply EXCEPT ![k] = status]

(* Nothing readable within 30 seconds.                                     *)
ReadFails(k) ==
  /\ stage[k] = "reading"
  /\ CloseEnds(k)
  /\ UNCHANGED <<listening, ask, events, hops, reply, up, down>>

(* The checks of a CONNECT, and the first ones of any other request.       *)
handleConnection(k, a) ==
  /\ stage[k] = "reading" /\ a.via \in {"connect", "http"}
  /\ ask' = [ask EXCEPT ![k] = a]
  /\ events' = [events EXCEPT ![k] = EventsOf(a)]
  /\ \/ /\ BlockedAsManaged(a) \/ BlockedByTarget(a)
        /\ Hangup(k, 403)
        /\ UNCHANGED hops
     \/ /\ ~BlockedAsManaged(a) /\ ~BlockedByTarget(a)
        /\ IF a.via = "connect"
           THEN /\ hops' = [hops EXCEPT ![k] = <<a.url.host>>]
                /\ stage' = [stage EXCEPT ![k] = "dialling"]
           ELSE /\ stage' = [stage EXCEPT ![k] = "body"]
                /\ UNCHANGED hops
        /\ UNCHANGED <<reply, client, target>>
  /\ UNCHANGED <<listening, up, down>>

(* A body is read without a deadline.  One that breaks off is not checked, *)
(* and a URL that cannot be parsed ends the connection without an answer.  *)
ReadBody(k) ==
  /\ stage[k] = "body"
  /\ \E text \in {ask[k].text, {}} :
       /\ events' = [events EXCEPT ![k] = @ \cup Content(text)]
       /\ \/ BlockedByContent(text) /\ Hangup(k, 403) /\ UNCHANGED hops
          \/ /\ ~BlockedByContent(text) /\ ~ask[k].url.valid
             /\ CloseEnds(k) /\ UNCHANGED <<hops, reply>>
          \/ /\ ~BlockedByContent(text) /\ ask[k].url.valid
             /\ hops' = [hops EXCEPT ![k] = <<ask[k].url.host>>]
             /\ stage' = [stage EXCEPT ![k] = "dialling"]
             /\ UNCHANGED <<reply, client, target>>
  /\ UNCHANGED <<listening, ask, up, down>>

(* An upgrade on the main listener is answered, and then taken to the      *)
(* upstream, unchecked.                                                    *)
handleWebSocket(k, a) ==
  /\ stage[k] = "new" /\ a.via = "ws"
  /\ ask' = [ask EXCEPT ![k] = a]
  /\ stage' = [stage EXCEPT ![k] = "dialling"]
  /\ client' = [client EXCEPT ![k] = "open"]
  /\ reply' = [reply EXCEPT ![k] = 101]
  /\ UNCHANGED <<listening, events, hops, target, up, down>>

(* A CONNECT without a port, or a request without a host, goes nowhere.    *)
Connected(k) ==
  /\ stage[k] = "dialling"
  /\ ask[k].via = "connect" => ask[k].url.host.port # ""
  /\ ask[k].via = "http" => ask[k].url.host.name # <<>>
  /\ target' = [target EXCEPT ![k] = "open"]
  /\ IF ask[k].via = "http"
     THEN /\ stage' = [stage EXCEPT ![k] = "exchanging"]
          /\ UNCHANGED <<up, down, reply>>
     ELSE /\ stage' = [stage EXCEPT ![k] = "tunnel"]
          /\ reply' = [reply EXCEPT ![k] = IF @ = 101 THEN @ ELSE 200]
          /\ up' = [up EXCEPT ![k] = "reading"]
          /\ down' = [down EXCEPT ![k] = "reading"]
  /\ UNCHANGED <<listening, ask, events, hops, client>>

DialFails(k) ==
  /\ stage[k] = "dialling"
  /\ Hangup(k, IF reply[k] = 101 THEN 101 ELSE 502)
  /\ UNCHANGED <<listening, ask, events, hops, up, down>>

(* net/http follows a redirect by itself: no check sees where it leads.    *)
Redirected(k, host) ==
  /\ stage[k] = "exchanging" /\ Len(hops[k]) <= MaxHops
  /\ hops' = [hops EXCEPT ![k] = Append(@, host)]
  /\ UNCHANGED <<listening, stage, ask, events, reply, endVars>>

(* The response is passed on, or the client's 60 seconds are over.  The    *)
(* write to the agent has no deadline.                                     *)
Exchanged(k) ==
  /\ stage[k] = "exchanging"
  /\ \E status \in {200, 502} : Hangup(k, status)
  /\ UNCHANGED <<listening, ask, events, hops, up, down>>

-----------------------------------------------------------------------------
(* Tunnels                                                                 *)

PeerGoes(k) ==
  /\ stage[k] = "tunnel"
  /\ \/ /\ client[k] = "open"
        /\ client' = [client EXCEPT ![k] = "gone"]
        /\ UNCHANGED target
     \/ /\ target[k] = "open"
        /\ target' = [target EXCEPT ![k] = "gone"]
        /\ UNCHANGED client
  /\ UNCHANGED <<listening, stage, ask, events, hops, reply, up, down>>

(* A goroutine copies in turns: it reads from its own end, and writes what *)
(* it has read to the other.  Neither has a deadline: a peer may be silent *)
(* or not take what is written to it for ever.  What an end had sent when  *)
(* it went counts as read before.                                          *)
MovesData(k) ==
  /\ \/ /\ \/ up[k] = "reading" /\ client[k] = "open" /\ up' = [up EXCEPT ![k] = "writing"]
           \/ /\ up[k] = "writing" /\ target[k] \in {"open", "gone"}
              /\ up' = [up EXCEPT ![k] = "reading"]
        /\ UNCHANGED down
     \/ /\ \/ down[k] = "reading" /\ target[k] = "open" /\ down' = [down EXCEPT ![k] = "writing"]
           \/ /\ down[k] = "writing" /\ client[k] \in {"open", "gone"}
              /\ down' = [down EXCEPT ![k] = "reading"]
        /\ UNCHANGED up
  /\ UNCHANGED <<listening, stage, ask, events, hops, reply, client, target>>

(* One whose read fails stops; that of a WebSocket closes the other end    *)
(* first.                                                                  *)
UpReadFails(k) ==
  /\ up[k] = "reading" /\ client[k] # "open"
  /\ up' = [up EXCEPT ![k] = "stopped"]
  /\ target' = [target EXCEPT ![k] = IF ask[k].via = "ws" THEN "closed" ELSE @]
  /\ UNCHANGED <<listening, stage, ask, events, hops, reply, client, down>>

DownReadFails(k) ==
  /\ down[k] = "reading" /\ target[k] # "open"
  /\ down' = [down EXCEPT ![k] = "stopped"]
  /\ client' = [client EXCEPT ![k] = IF ask[k].via = "ws" THEN "closed" ELSE @]
  /\ UNCHANGED <<listening, stage, ask, events, hops, reply, target, up>>

(* One whose write fails stops, and closes nothing.                        *)
UpWriteFails(k) ==
  /\ up[k] = "writing" /\ target[k] # "open"
  /\ up' = [up EXCEPT ![k] = "stopped"]
  /\ UNCHANGED <<listening, stage, ask, events, hops, reply, client, target, down>>

DownWriteFails(k) ==
  /\ down[k] = "writing" /\ client[k] # "open"
  /\ down' = [down EXCEPT ![k] = "stopped"]
  /\ UNCHANGED <<listening, stage, ask, events, hops, reply, client, target, up>>

(* A write blocked on an end that nothing but its peer can move: the peer  *)
(* may be gone and its kernel still not say so.  Closing the end in this   *)
(* program fails the write at once.                                        *)
UpWaits(k)   == up[k] = "writing" /\ target[k] # "closed"
DownWaits(k) == down[k] = "writing" /\ client[k] # "closed"

\* Wrong on purpose: either kind waits for both goroutines.
IsFinishedBoth(k) == up[k] = "stopped" /\ down[k] = "stopped"

(* CONNECT ends with the first goroutine to stop, a WebSocket with both.   *)
IsFinished(k) ==
  IF ask[k].via = "ws" THEN up[k] = "stopped" /\ down[k] = "stopped"
  ELSE up[k] = "stopped" \/ down[k] = "stopped"

TunnelEnds(k) ==
  /\ stage[k] = "tunnel" /\ IsFinished(k)
  /\ CloseEnds(k)
  /\ UNCHANGED <<listening, ask, events, hops, reply, up, down>>

-----------------------------------------------------------------------------
ProxyInit ==
  /\ listening = TRUE
  /\ stage = [k \in Conns |-> "new"]
  /\ ask = [k \in Conns |-> NoAsk]
  /\ events = [k \in Conns |-> {}]
  /\ hops = [k \in Conns |-> <<>>]
  /\ reply = [k \in Conns |-> 0]
  /\ client = [k \in Conns |-> "none"]
  /\ target = [k \in Conns |-> "none"]
  /\ up = [k \in Conns |-> "none"]
  /\ down = [k \in Conns |-> "none"]

(* What goes on by itself: the head of a request is read, and dialling and *)
(* a handshake end, within a timeout; a read of an end that is gone fails, *)
(* and a write to one that is closed.  Reading a body and writing an       *)
(* answer have no deadline.                                                *)
Proceed(k) ==
  \/ ReadFails(k) \/ Connected(k) \/ DialFails(k)
  \/ UpReadFails(k) \/ DownReadFails(k) \/ TunnelEnds(k)
  \/ UpWriteFails(k) /\ ~UpWaits(k)
  \/ DownWriteFails(k) /\ ~DownWaits(k)

ProxyNext ==
  \/ Close
  \/ \E k \in Conns :
       \/ Accept(k) \/ ReadBody(k) \/ Exchanged(k) \/ Proceed(k)
       \/ PeerGoes(k) \/ MovesData(k) \/ UpWriteFails(k) \/ DownWriteFails(k)
       \/ \E a \in Asks : handleConnection(k, a) \/ handleWebSocket(k, a)
       \/ \E host \in Elsewhere : Redirected(k, host)

ProxyFairness == \A k \in Conns : WF_proxyVars(Proceed(k))

ProxySpec == ConfigInit /\ ProxyInit /\ [][ProxyNext /\ UNCHANGED cfg]_<<cfg, proxyVars>>

-----------------------------------------------------------------------------
EndStates == {"none", "open", "gone", "closed"}

ProxyTypeOK ==
  /\ listening \in BOOLEAN
  /\ stage \in [Conns -> {"new", "reading", "body", "dialling", "exchanging", "tunnel", "over"}]
  /\ ask \in [Conns -> Asks \cup {NoAsk}]
  /\ events \in [Conns -> SUBSET ({"egress", "broker_egress_block"} \X {"allow", "deny"})]
  /\ reply \in [Conns -> {0, 101, 200, 403, 502}]
  /\ client \in [Conns -> EndStates] /\ target \in [Conns -> EndStates]
  /\ up \in [Conns -> {"none", "reading", "writing", "stopped"}]
  /\ down \in [Conns -> {"none", "reading", "writing", "stopped"}]
  /\ \A k \in Conns : stage[k] \in {"tunnel", "exchanging"} => target[k] # "none"

(* The telemetry tells what was done: a request was refused exactly when a *)
(* denial that its own mode enforces was reported, and a host was dialled  *)
(* first only when none was, be its denials those of the broker, the list  *)
(* of domains or the content.                                              *)
(* (forward.go, HandleConnect and handleHTTPRequest)                       *)
Enforced(k) ==
  \/ <<"broker_egress_block", "deny">> \in events[k] /\ cfg.broker.mode = "enforce"
  \/ <<"egress", "deny">> \in events[k] /\ cfg.egress.mode # "record"

DenialsAreEnforced ==
  \A k \in Conns :
    /\ reply[k] = 403 <=> Enforced(k)
    /\ hops[k] # <<>> => ~Enforced(k)

(* A tunnel that loses one of its ends is given up altogether, unless one  *)
(* of its goroutines is stuck for ever in a write: the handler returns,    *)
(* neither goroutine is left and no connection stays open.                 *)
(* (forward.go, HandleConnect; proxy.go, WebSocketHandler)                 *)
TunnelsEnd ==
  \A k \in Conns :
    ([]<>~UpWaits(k) /\ []<>~DownWaits(k)) =>
      ((stage[k] = "tunnel" /\ (client[k] # "open" \/ target[k] # "open"))
         ~> /\ stage[k] = "over" /\ client[k] = "closed" /\ target[k] = "closed"
            /\ up[k] = "stopped" /\ down[k] = "stopped")

=============================================================================
