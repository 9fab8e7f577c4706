--------------------------- MODULE ForwardProxy_proofs ---------------------------
(***************************************************************************)
(* Theorems about ForwardProxy, for any configuration, any number of       *)
(* connections and anything they may ask for.                              *)
(***************************************************************************)
EXTENDS ForwardProxy, TLAPS

USE DEF proxyVars, endVars

-----------------------------------------------------------------------------
(* The inductive invariant *)

Stages == {"new", "reading", "body", "dialling", "exchanging", "tunnel", "over"}

RecordsOK ==
  /\ stage \in [Conns -> Stages]
  /\ events = [k \in Conns |-> events[k]]
  /\ hops = [k \in Conns |-> hops[k]]
  /\ reply \in [Conns -> {0, 101, 200, 403, 502}]

(* Nothing is reported or answered before the head of a request is read,   *)
(* and nothing dialled before its body is.                                 *)
FreshBeforeRead ==
  \A k \in Conns :
    /\ stage[k] \in {"new", "reading"} => events[k] = {} /\ reply[k] = 0
    /\ stage[k] \in {"new", "reading", "body"} => hops[k] = <<>>

(* What goes on behind the checks was not refused.                         *)
PassedTheChecks ==
  \A k \in Conns :
    stage[k] \in {"body", "dialling", "exchanging", "tunnel"} => ~Enforced(k) /\ reply[k] # 403

DenialInv == RecordsOK /\ FreshBeforeRead /\ PassedTheChecks /\ DenialsAreEnforced

-----------------------------------------------------------------------------
(* What a request is refused for *)

Refused(a) == BlockedAsManaged(a) \/ BlockedByTarget(a)

(* A request is refused at its head exactly when a denial its mode         *)
(* enforces is reported.                                                   *)
LEMMA RefusedAsReported ==
  ASSUME NEW a
  PROVE  Refused(a) <=>
           \/ <<"broker_egress_block", "deny">> \in EventsOf(a) /\ cfg.broker.mode = "enforce"
           \/ <<"egress", "deny">> \in EventsOf(a) /\ cfg.egress.mode # "record"
  <1>1. <<"broker_egress_block", "deny">> \in EventsOf(a)
          <=> ManagedBy(a.url.host.name) # ""
    BY DEF EventsOf, Managed, Target
  <1>2. BlockedAsManaged(a)
          <=> ManagedBy(a.url.host.name) # "" /\ cfg.broker.mode = "enforce"
    BY DEF BlockedAsManaged, checkManagedHost, ManagedBy
  <1>3. CASE BlockedAsManaged(a)
    BY <1>1, <1>2, <1>3 DEF Refused
  <1>4. CASE ~BlockedAsManaged(a)
    <2>1. <<"egress", "deny">> \in Target(a) <=> ~CheckURL(a.url).allowed
      BY DEF Target
    <2>2. <<"egress", "deny">> \notin Managed(a)
      BY DEF Managed
    <2>3. <<"egress", "deny">> \in EventsOf(a) <=> ~CheckURL(a.url).allowed
      BY <1>4, <2>1, <2>2 DEF EventsOf
    <2>4. QED
      BY <1>1, <1>2, <1>4, <2>3 DEF Refused, BlockedByTarget, isRecordMode
  <1>5. QED
    BY <1>3, <1>4

(* So is one whose head was not: at its body, for a denial of the content. *)
LEMMA ContentAsReported ==
  ASSUME NEW k, NEW text, ~Enforced(k), UNCHANGED cfg,
         events'[k] = events[k] \cup Content(text)
  PROVE  BlockedByContent(text) <=> Enforced(k)'
  <1>1. <<"broker_egress_block", "deny">> \notin Content(text)
    BY DEF Content
  <1>2. <<"egress", "deny">> \in Content(text) <=> Content(text) # {}
    BY DEF Content
  <1>3. QED
    BY <1>1, <1>2 DEF Enforced, BlockedByContent, isRecordMode

-----------------------------------------------------------------------------
(* Every action keeps the invariant *)

(* A record per connection with one changed is a record per connection.    *)
LEMMA UpdateIsFunction ==
  ASSUME NEW f, f = [j \in Conns |-> f[j]], NEW k, NEW v
  PROVE  [f EXCEPT ![k] = v] = [j \in Conns |-> [f EXCEPT ![k] = v][j]]
  OBVIOUS

(* Where nothing but one connection's stage, reply and hops change.        *)
LEMMA OthersStay ==
  ASSUME DenialInv, UNCHANGED cfg, RecordsOK', NEW k \in Conns,
         \A j \in Conns \ {k} : /\ stage'[j] = stage[j] /\ events'[j] = events[j]
                                /\ hops'[j] = hops[j] /\ reply'[j] = reply[j],
         stage'[k] \in {"new", "reading"} => events'[k] = {} /\ reply'[k] = 0,
         stage'[k] \in {"new", "reading", "body"} => hops'[k] = <<>>,
         stage'[k] \in {"body", "dialling", "exchanging", "tunnel"} =>
           ~Enforced(k)' /\ reply'[k] # 403,
         reply'[k] = 403 <=> Enforced(k)',
         hops'[k] # <<>> => ~Enforced(k)'
  PROVE  DenialInv'
  BY DEF DenialInv, FreshBeforeRead, PassedTheChecks, DenialsAreEnforced, Enforced

(* The checks report, and either refuse the request or let it go on.       *)
Reports(k, found) == events' = [events EXCEPT ![k] = found]
GoesOn(k, next, to) ==
  /\ stage' = [stage EXCEPT ![k] = next] /\ hops' = [hops EXCEPT ![k] = to] /\ reply' = reply
Refuses(k) == Hangup(k, 403) /\ hops' = hops

(* A check keeps the invariant when it refuses as it reports, and goes on  *)
(* to the body with nothing dialled, or further, or to its end.            *)
LEMMA CheckKeeps ==
  ASSUME DenialInv, UNCHANGED cfg, NEW k \in Conns, NEW found, Reports(k, found),
         hops[k] = <<>>, reply[k] # 403,
         \/ Refuses(k) /\ Enforced(k)'
         \/ /\ ~Enforced(k)'
            /\ \E next, to :
                 /\ next \in {"body", "dialling", "over"}
                 /\ GoesOn(k, next, to) /\ (next = "body" => to = <<>>)
  PROVE  DenialInv'
  <1>1. /\ events = [j \in Conns |-> events[j]] /\ hops = [j \in Conns |-> hops[j]]
        /\ stage \in [Conns -> Stages]
        /\ reply \in [Conns -> {0, 101, 200, 403, 502}]
    BY DEF DenialInv, RecordsOK
  <1>2. /\ events' = [j \in Conns |-> events'[j]]
        /\ \A j \in Conns \ {k} : events'[j] = events[j]
    <2>1. events = [j \in Conns |-> events[j]] /\ events' = [events EXCEPT ![k] = found]
      BY <1>1 DEF Reports
    <2>2. QED
      BY <2>1
  <1>3. CASE Refuses(k) /\ Enforced(k)'
    <2>1. /\ stage' = [stage EXCEPT ![k] = "over"] /\ reply' = [reply EXCEPT ![k] = 403]
          /\ hops' = hops
      BY <1>3 DEF Refuses, Hangup, CloseEnds
    <2>2. /\ stage'[k] = "over" /\ reply'[k] = 403 /\ hops'[k] = <<>>
          /\ \A j \in Conns \ {k} : /\ stage'[j] = stage[j] /\ hops'[j] = hops[j]
                                    /\ reply'[j] = reply[j]
      BY <1>1, <2>1
    <2>3. RecordsOK'
      BY <1>1, <1>2, <2>1 DEF RecordsOK, Stages
    <2>4. QED
      BY <1>2, <1>3, <2>2, <2>3, OthersStay
  <1>4. CASE /\ ~Enforced(k)'
             /\ \E next, to :
                  /\ next \in {"body", "dialling", "over"}
                  /\ GoesOn(k, next, to) /\ (next = "body" => to = <<>>)
    <2>1. PICK next, to :
            /\ next \in {"body", "dialling", "over"}
            /\ GoesOn(k, next, to) /\ (next = "body" => to = <<>>)
      BY <1>4
    <2>2. /\ stage'[k] = next /\ reply' = reply /\ hops'[k] = to
          /\ \A j \in Conns \ {k} : stage'[j] = stage[j] /\ hops'[j] = hops[j]
      BY <1>1, <2>1 DEF GoesOn
    <2>3. RecordsOK'
      <3>1. hops' = [j \in Conns |-> hops'[j]]
        BY <1>1, <2>1 DEF GoesOn
      <3>2. stage' \in [Conns -> Stages]
        BY <1>1, <2>1 DEF GoesOn, Stages
      <3>3. QED
        BY <1>1, <1>2, <2>2, <3>1, <3>2 DEF RecordsOK
    <2>4. QED
      BY <1>2, <1>4, <2>1, <2>2, <2>3, OthersStay
  <1>5. QED
    BY <1>3, <1>4

LEMMA HeadKeeps ==
  ASSUME DenialInv, UNCHANGED cfg, NEW k \in Conns, NEW a \in Asks, handleConnection(k, a)
  PROVE  DenialInv'
  <1>1. /\ stage[k] = "reading" /\ Reports(k, EventsOf(a))
        /\ events[k] = {} /\ reply[k] = 0 /\ hops[k] = <<>>
    BY DEF handleConnection, DenialInv, FreshBeforeRead, Reports
  <1>2. events'[k] = EventsOf(a)
    BY <1>1 DEF DenialInv, RecordsOK, Reports
  <1>3. Enforced(k)' <=> Refused(a)
    BY <1>2, RefusedAsReported DEF Enforced
  <1>4. \/ Refused(a) /\ Refuses(k)
        \/ /\ ~Refused(a)
           /\ \E next, to :
                /\ next \in {"body", "dialling", "over"}
                /\ GoesOn(k, next, to) /\ (next = "body" => to = <<>>)
    <2>1. CASE Refused(a)
      BY <2>1 DEF handleConnection, Refused, Refuses
    <2>2. CASE ~Refused(a) /\ a.via = "connect"
      <3>1. GoesOn(k, "dialling", <<a.url.host>>)
        BY <2>2 DEF handleConnection, Refused, GoesOn
      <3>2. QED
        BY <2>2, <3>1
    <2>3. CASE ~Refused(a) /\ a.via # "connect"
      <3>1. hops' = hops /\ hops = [hops EXCEPT ![k] = <<>>]
        <4>1. hops = [j \in Conns |-> hops[j]]
          BY DEF DenialInv, RecordsOK
        <4>2. QED
          BY <1>1, <2>3, <4>1 DEF handleConnection, Refused
      <3>2. stage' = [stage EXCEPT ![k] = "body"] /\ reply' = reply
        BY <2>3 DEF handleConnection, Refused
      <3>3. GoesOn(k, "body", <<>>)
        BY <3>1, <3>2 DEF GoesOn
      <3>4. QED
        BY <2>3, <3>3
    <2>4. QED
      BY <2>1, <2>2, <2>3
  <1>5. QED
    BY <1>1, <1>3, <1>4, CheckKeeps

LEMMA BodyKeeps ==
  ASSUME DenialInv, UNCHANGED cfg, NEW k \in Conns, ReadBody(k)
  PROVE  DenialInv'
  <1>1. stage[k] = "body" /\ hops[k] = <<>> /\ reply[k] # 403 /\ ~Enforced(k)
    BY DEF ReadBody, DenialInv, FreshBeforeRead, PassedTheChecks
  <1>2. PICK text \in {ask[k].text, {}} :
          /\ Reports(k, events[k] \cup Content(text))
          /\ \/ BlockedByContent(text) /\ Refuses(k)
             \/ /\ ~BlockedByContent(text) /\ CloseEnds(k)
                /\ UNCHANGED <<hops, reply>>
             \/ /\ ~BlockedByContent(text)
                /\ GoesOn(k, "dialling", <<ask[k].url.host>>)
    BY DEF ReadBody, Reports, Refuses, GoesOn
  <1>3. events'[k] = events[k] \cup Content(text)
    BY <1>2 DEF DenialInv, RecordsOK, Reports
  <1>4. BlockedByContent(text) <=> Enforced(k)'
    BY <1>1, <1>3, ContentAsReported
  <1>5. CASE BlockedByContent(text) /\ Refuses(k)
    BY <1>1, <1>2, <1>4, <1>5, CheckKeeps
  <1>6. CASE ~BlockedByContent(text) /\ CloseEnds(k) /\ UNCHANGED <<hops, reply>>
    <2>1. hops = [hops EXCEPT ![k] = <<>>]
      <3>1. hops = [j \in Conns |-> hops[j]]
        BY DEF DenialInv, RecordsOK
      <3>2. QED
        BY <1>1, <3>1
    <2>2. GoesOn(k, "over", <<>>)
      BY <1>6, <2>1 DEF GoesOn, CloseEnds
    <2>3. QED
      BY <1>1, <1>2, <1>4, <1>6, <2>2, CheckKeeps
  <1>7. CASE ~BlockedByContent(text) /\ GoesOn(k, "dialling", <<ask[k].url.host>>)
    BY <1>1, <1>2, <1>4, <1>7, CheckKeeps
  <1>8. QED
    BY <1>2, <1>5, <1>6, <1>7

(* What comes before the checks or after them reports nothing.             *)
LEMMA RestKeeps ==
  ASSUME DenialInv, UNCHANGED <<cfg, events>>, NEW k \in Conns,
         \/ Accept(k) \/ Exchanged(k) \/ Proceed(k)
         \/ \E a \in Asks : handleWebSocket(k, a)
         \/ \E host \in Elsewhere : Redirected(k, host)
  PROVE  DenialInv'
  <1> USE DEF DenialInv, RecordsOK, Stages
  <1>1. CASE Accept(k)
    <2>1. /\ stage[k] = "new" /\ stage' = [stage EXCEPT ![k] = "reading"]
          /\ hops' = hops /\ reply' = reply
      BY <1>1 DEF Accept
    <2>2. QED
      BY <2>1, OthersStay DEF FreshBeforeRead, PassedTheChecks, DenialsAreEnforced, Enforced
  <1>2. CASE \E a \in Asks : handleWebSocket(k, a)
    <2>1. /\ stage[k] = "new" /\ stage' = [stage EXCEPT ![k] = "dialling"]
          /\ hops' = hops /\ reply' = [reply EXCEPT ![k] = 101]
      BY <1>2 DEF handleWebSocket
    <2>2. ~Enforced(k)'
      BY <2>1 DEF FreshBeforeRead, Enforced
    <2>3. QED
      BY <2>1, <2>2, OthersStay DEF FreshBeforeRead
  <1>3. CASE \E host \in Elsewhere : Redirected(k, host)
    <2>1. PICK host \in Elsewhere : hops' = [hops EXCEPT ![k] = Append(@, host)]
      BY <1>3 DEF Redirected
    <2>2. stage[k] = "exchanging" /\ stage' = stage /\ reply' = reply
      BY <1>3 DEF Redirected
    <2>3. ~Enforced(k)' /\ reply'[k] # 403
      BY <2>2 DEF PassedTheChecks, Enforced
    <2>4. RecordsOK'
      <3>1. hops = [j \in Conns |-> hops[j]]
        OBVIOUS
      <3> HIDE DEF DenialInv, RecordsOK
      <3>2. hops' = [j \in Conns |-> hops'[j]]
        BY <2>1, <3>1
      <3>3. QED
        BY <2>2, <3>2 DEF DenialInv, RecordsOK
    <2>5. \A j \in Conns \ {k} : hops'[j] = hops[j]
      BY <2>1
    <2> HIDE DEF DenialInv, RecordsOK
    <2>6. QED
      BY <2>2, <2>3, <2>4, <2>5, OthersStay
  <1>4. CASE ReadFails(k) \/ TunnelEnds(k)
    <2>1. stage' = [stage EXCEPT ![k] = "over"] /\ hops' = hops /\ reply' = reply
      BY <1>4 DEF ReadFails, TunnelEnds, CloseEnds
    <2>2. QED
      BY <2>1, OthersStay DEF DenialsAreEnforced, Enforced
  <1>5. CASE DialFails(k) \/ Exchanged(k)
    <2>1. PICK status \in {101, 200, 502} : Hangup(k, status)
      BY <1>5 DEF DialFails, Exchanged
    <2>2. /\ stage[k] \in {"dialling", "exchanging"} /\ hops' = hops
          /\ stage' = [stage EXCEPT ![k] = "over"] /\ reply' = [reply EXCEPT ![k] = status]
      BY <1>5, <2>1 DEF DialFails, Exchanged, Hangup, CloseEnds
    <2>3. ~Enforced(k)'
      BY <2>2 DEF PassedTheChecks, Enforced
    <2>4. QED
      BY <2>2, <2>3, OthersStay
  <1>6. CASE Connected(k)
    <2>1. PICK status \in {reply[k], 200}, next \in {"exchanging", "tunnel"} :
            /\ stage' = [stage EXCEPT ![k] = next] /\ hops' = hops
            /\ reply' = [reply EXCEPT ![k] = status]
      <3>1. CASE ask[k].via = "http"
        <4>1. /\ stage' = [stage EXCEPT ![k] = "exchanging"] /\ hops' = hops
              /\ reply' = reply
          BY <1>6, <3>1 DEF Connected
        <4>2. reply' = [reply EXCEPT ![k] = reply[k]]
          BY <4>1
        <4>3. QED
          BY <4>1, <4>2
      <3>2. CASE ask[k].via # "http"
        <4>1. /\ stage' = [stage EXCEPT ![k] = "tunnel"] /\ hops' = hops
              /\ reply' = [reply EXCEPT ![k] = IF @ = 101 THEN @ ELSE 200]
          BY <1>6, <3>2 DEF Connected
        <4>2. QED
          BY <4>1
      <3>3. QED
        BY <3>1, <3>2
    <2>2. stage[k] = "dialling"
      BY <1>6 DEF Connected
    <2>3. ~Enforced(k)' /\ reply[k] # 403
      BY <2>2 DEF PassedTheChecks, Enforced
    <2>4. QED
      BY <2>1, <2>3, OthersStay
  <1>7. CASE UpReadFails(k) \/ DownReadFails(k) \/ UpWriteFails(k) \/ DownWriteFails(k)
    <2>1. stage' = stage /\ hops' = hops /\ reply' = reply
      BY <1>7 DEF UpReadFails, DownReadFails, UpWriteFails, DownWriteFails
    <2>2. QED
      BY <2>1 DEF FreshBeforeRead, PassedTheChecks, DenialsAreEnforced, Enforced
  <1>8. QED
    BY <1>1, <1>2, <1>3, <1>4, <1>5, <1>6, <1>7 DEF Proceed

-----------------------------------------------------------------------------
(* What the telemetry says was done: a request is refused exactly when a   *)
(* denial that its own mode enforces is reported for it, and no host is    *)
(* dialled for one, whatever list, pattern and modes are configured.       *)
(* (forward.go, HandleConnect and handleHTTPRequest)                       *)
THEOREM DenialsHold == ProxySpec => []DenialsAreEnforced
  <1>1. ProxyInit => DenialInv
    BY DEF ProxyInit, DenialInv, RecordsOK, Stages, FreshBeforeRead, PassedTheChecks,
           DenialsAreEnforced, Enforced
  <1>2. ASSUME DenialInv, [ProxyNext /\ UNCHANGED cfg]_<<cfg, proxyVars>>
        PROVE  DenialInv'
    <2>1. ASSUME UNCHANGED <<cfg, stage, events, hops, reply>>
          PROVE  DenialInv'
      BY <1>2, <2>1
         DEF DenialInv, RecordsOK, FreshBeforeRead, PassedTheChecks, DenialsAreEnforced, Enforced
    <2>2. CASE UNCHANGED <<cfg, proxyVars>>
      BY <2>1, <2>2
    <2>3. CASE ProxyNext /\ UNCHANGED cfg
      <3>1. CASE Close
        BY <2>1, <2>3, <3>1 DEF Close
      <3>2. ASSUME NEW k \in Conns,
                   PeerGoes(k) \/ MovesData(k) \/ UpWriteFails(k) \/ DownWriteFails(k)
            PROVE  DenialInv'
        BY <2>1, <2>3, <3>2 DEF PeerGoes, MovesData, UpWriteFails, DownWriteFails
      <3>3. ASSUME NEW k \in Conns, NEW a \in Asks, handleConnection(k, a)
            PROVE  DenialInv'
        BY <1>2, <2>3, <3>3, HeadKeeps
      <3>4. ASSUME NEW k \in Conns, ReadBody(k)
            PROVE  DenialInv'
        BY <1>2, <2>3, <3>4, BodyKeeps
      <3>5. ASSUME NEW k \in Conns,
                   \/ Accept(k) \/ Exchanged(k) \/ Proceed(k)
                   \/ \E a \in Asks : handleWebSocket(k, a)
                   \/ \E host \in Elsewhere : Redirected(k, host)
            PROVE  DenialInv'
        <4>1. events' = events
          BY <3>5 DEF Accept, Proceed, handleWebSocket, Redirected, ReadFails, Connected,
             DialFails, Exchanged, UpReadFails, DownReadFails, UpWriteFails, DownWriteFails,
             TunnelEnds
        <4>2. QED
          BY <1>2, <2>3, <3>5, <4>1, RestKeeps
      <3>6. QED
        BY <2>3, <3>1, <3>2, <3>3, <3>4, <3>5 DEF ProxyNext
    <2>4. QED
      BY <1>2, <2>2, <2>3
  <1>3. DenialInv => DenialsAreEnforced
    BY DEF DenialInv
  <1>4. QED
    BY <1>1, <1>2, <1>3, PTL DEF ProxySpec

-----------------------------------------------------------------------------
(* What is open is held by somebody *)

Copies == {"none", "reading", "writing", "stopped"}

(* Both ends of a connection that is over are closed, one that was never   *)
(* opened aside; what has not been dialled has no far end and no copying.  *)
EndsReleased ==
  \A k \in Conns :
    /\ stage[k] = "over" => client[k] = "closed" /\ target[k] \in {"none", "closed"}
    /\ stage[k] \in {"new", "reading", "body", "dialling"} =>
         target[k] = "none" /\ up[k] = "none" /\ down[k] = "none"

HeldInv == ProxyTypeOK /\ EndsReleased

RestTyped ==
  /\ listening \in BOOLEAN /\ ask \in [Conns -> Asks \cup {NoAsk}]
  /\ events \in [Conns -> SUBSET ({"egress", "broker_egress_block"} \X {"allow", "deny"})]
  /\ reply \in [Conns -> {0, 101, 200, 403, 502}]

(* Connection k goes to stage st, with its two ends in states c and t and  *)
(* its two goroutines in states u and d.                                   *)
Moves(k, st, c, t, u, d) ==
  /\ st \in Stages /\ c \in EndStates /\ t \in EndStates /\ u \in Copies /\ d \in Copies
  /\ stage' = [stage EXCEPT ![k] = st]
  /\ client' = [client EXCEPT ![k] = c] /\ target' = [target EXCEPT ![k] = t]
  /\ up' = [up EXCEPT ![k] = u] /\ down' = [down EXCEPT ![k] = d]
  /\ st = "over" => c = "closed" /\ t \in {"none", "closed"}
  /\ st \in {"new", "reading", "body", "dialling"} => t = "none" /\ u = "none" /\ d = "none"
  /\ st \in {"tunnel", "exchanging"} => t # "none"

(* A move of one connection keeps the rest as it was.                      *)
LEMMA OnlyOneConnection ==
  ASSUME HeldInv, RestTyped', NEW k \in Conns, NEW st, NEW c, NEW t, NEW u, NEW d,
         Moves(k, st, c, t, u, d)
  PROVE  HeldInv'
<1> USE DEF Moves
<1>1. /\ stage \in [Conns -> Stages] /\ client \in [Conns -> EndStates]
      /\ target \in [Conns -> EndStates] /\ up \in [Conns -> Copies] /\ down \in [Conns -> Copies]
      /\ \A j \in Conns : stage[j] \in {"tunnel", "exchanging"} => target[j] # "none"
  BY DEF HeldInv, ProxyTypeOK, Stages, Copies
<1>2. stage' \in [Conns -> Stages] /\ client' \in [Conns -> EndStates]
      /\ target' \in [Conns -> EndStates]
  BY <1>1
<1>3. up' \in [Conns -> Copies] /\ down' \in [Conns -> Copies]
  BY <1>1
<1>4. /\ stage'[k] = st /\ client'[k] = c /\ target'[k] = t /\ up'[k] = u /\ down'[k] = d
      /\ \A j \in Conns \ {k} : /\ stage'[j] = stage[j] /\ client'[j] = client[j]
                                /\ target'[j] = target[j] /\ up'[j] = up[j] /\ down'[j] = down[j]
  BY <1>1
<1>5. \A j \in Conns : stage'[j] \in {"tunnel", "exchanging"} => target'[j] # "none"
  BY <1>1, <1>4
<1>6. ProxyTypeOK'
  BY <1>2, <1>3, <1>5 DEF ProxyTypeOK, RestTyped, Stages, Copies
<1>7. ASSUME NEW j \in Conns
      PROVE  /\ stage'[j] = "over" => client'[j] = "closed" /\ target'[j] \in {"none", "closed"}
             /\ stage'[j] \in {"new", "reading", "body", "dialling"} =>
                  target'[j] = "none" /\ up'[j] = "none" /\ down'[j] = "none"
  <2>1. CASE j = k
    BY <1>4, <2>1
  <2>2. CASE j # k
    BY <1>4, <2>2 DEF HeldInv, EndsReleased
  <2>. QED  BY <2>1, <2>2
<1>8. EndsReleased'
  BY <1>7 DEF EndsReleased
<1>. QED  BY <1>6, <1>8 DEF HeldInv

LEMMA KeepingOneAsItWas ==
  ASSUME ProxyTypeOK, NEW k \in Conns
  PROVE  /\ stage[k] \in Stages /\ stage = [stage EXCEPT ![k] = stage[k]]
         /\ client[k] \in EndStates /\ client = [client EXCEPT ![k] = client[k]]
         /\ target[k] \in EndStates /\ target = [target EXCEPT ![k] = target[k]]
         /\ up[k] \in Copies /\ up = [up EXCEPT ![k] = up[k]]
         /\ down[k] \in Copies /\ down = [down EXCEPT ![k] = down[k]]
<1>1. /\ stage \in [Conns -> Stages] /\ client \in [Conns -> EndStates]
      /\ target \in [Conns -> EndStates] /\ up \in [Conns -> Copies] /\ down \in [Conns -> Copies]
  BY DEF ProxyTypeOK, Stages, Copies
<1>. QED  BY <1>1

(* A handler that returns closes the client's end, and the far one if      *)
(* there is one.                                                           *)
LEMMA ReturningCloses ==
  ASSUME HeldInv, RestTyped', NEW k \in Conns, CloseEnds(k), UNCHANGED <<up, down>>
  PROVE  HeldInv'
<1> DEFINE t == IF target[k] = "none" THEN "none" ELSE "closed"
<1>1. /\ up[k] \in Copies /\ up' = [up EXCEPT ![k] = up[k]]
      /\ down[k] \in Copies /\ down' = [down EXCEPT ![k] = down[k]]
  BY KeepingOneAsItWas DEF HeldInv
<1>2. /\ stage' = [stage EXCEPT ![k] = "over"] /\ client' = [client EXCEPT ![k] = "closed"]
      /\ target' = [target EXCEPT ![k] = t]
  BY DEF CloseEnds
<1>3. /\ "over" \in Stages /\ "closed" \in EndStates /\ t \in EndStates
      /\ t \in {"none", "closed"}
  BY DEF Stages, EndStates
<1> HIDE DEF t
<1>4. Moves(k, "over", "closed", t, up[k], down[k])
  BY <1>1, <1>2, <1>3 DEF Moves
<1>. QED  BY <1>4, OnlyOneConnection

LEMMA EventsAreTyped ==
  ASSUME NEW a, NEW text
  PROVE  EventsOf(a) \cup Content(text)
           \subseteq {"egress", "broker_egress_block"} \X {"allow", "deny"}
<1> DEFINE all == {"egress", "broker_egress_block"} \X {"allow", "deny"}
<1>1. /\ <<"egress", "allow">> \in all /\ <<"egress", "deny">> \in all
      /\ <<"broker_egress_block", "deny">> \in all
  OBVIOUS
<1> HIDE DEF all
<1>2. Managed(a) \subseteq all
  BY <1>1 DEF Managed
<1>3. Target(a) \subseteq all
  BY <1>1 DEF Target
<1>4. Content(text) \subseteq all
  BY <1>1 DEF Content
<1>5. EventsOf(a) \cup Content(text) \subseteq all
  BY <1>2, <1>3, <1>4 DEF EventsOf
<1>. QED  BY <1>5 DEF all

LEMMA HandlersKeepHeld ==
  ASSUME HeldInv, NEW k \in Conns, NEW a \in Asks, handleConnection(k, a) \/ handleWebSocket(k, a)
  PROVE  HeldInv'
<1>1. /\ ask \in [Conns -> Asks \cup {NoAsk}] /\ reply \in [Conns -> {0, 101, 200, 403, 502}]
      /\ events \in [Conns -> SUBSET ({"egress", "broker_egress_block"} \X {"allow", "deny"})]
      /\ listening \in BOOLEAN
  BY DEF HeldInv, ProxyTypeOK
<1>2. ask' = [ask EXCEPT ![k] = a] /\ UNCHANGED <<listening, up, down>>
  BY DEF handleConnection, handleWebSocket
<1>3. ask' \in [Conns -> Asks \cup {NoAsk}]
  BY <1>1, <1>2
<1>4. /\ up[k] \in Copies /\ up' = [up EXCEPT ![k] = up[k]]
      /\ down[k] \in Copies /\ down' = [down EXCEPT ![k] = down[k]]
      /\ client[k] \in EndStates /\ client = [client EXCEPT ![k] = client[k]]
      /\ target[k] \in EndStates /\ target = [target EXCEPT ![k] = target[k]]
      /\ "dialling" \in Stages /\ "body" \in Stages /\ "open" \in EndStates
  BY <1>2, KeepingOneAsItWas DEF HeldInv, Stages, EndStates
<1>5. stage[k] \in {"new", "reading", "body", "dialling"} =>
        target[k] = "none" /\ up[k] = "none" /\ down[k] = "none"
  BY DEF HeldInv, EndsReleased
<1>6. CASE handleConnection(k, a)
  <2>1. events' = [events EXCEPT ![k] = EventsOf(a)] /\ stage[k] = "reading"
    BY <1>6 DEF handleConnection
  <2>2. events' \in [Conns -> SUBSET ({"egress", "broker_egress_block"} \X {"allow", "deny"})]
    BY <1>1, <2>1, EventsAreTyped
  <2>3. CASE Hangup(k, 403)
    <3>1. reply' \in [Conns -> {0, 101, 200, 403, 502}]
      BY <1>1, <2>3 DEF Hangup
    <3>2. RestTyped'
      BY <1>1, <1>2, <1>3, <2>2, <3>1 DEF RestTyped
    <3>. QED  BY <1>2, <2>3, <3>2, ReturningCloses DEF Hangup
  <2>4. ASSUME NEW st \in {"body", "dialling"}, stage' = [stage EXCEPT ![k] = st],
               UNCHANGED <<reply, client, target>>
        PROVE  HeldInv'
    <3>1. Moves(k, st, client[k], target[k], up[k], down[k])
      BY <1>4, <1>5, <2>1, <2>4 DEF Moves
    <3>2. RestTyped'
      BY <1>1, <1>2, <1>3, <2>2, <2>4 DEF RestTyped
    <3>. QED  BY <3>1, <3>2, OnlyOneConnection
  <2>. QED  BY <1>6, <2>3, <2>4 DEF handleConnection
<1>7. CASE handleWebSocket(k, a)
  <2>1. /\ stage[k] = "new" /\ stage' = [stage EXCEPT ![k] = "dialling"]
        /\ client' = [client EXCEPT ![k] = "open"] /\ reply' = [reply EXCEPT ![k] = 101]
        /\ events' = events /\ target' = target
    BY <1>7 DEF handleWebSocket
  <2>2. reply' \in [Conns -> {0, 101, 200, 403, 502}]
    BY <1>1, <2>1
  <2>3. Moves(k, "dialling", "open", target[k], up[k], down[k])
    BY <1>4, <1>5, <2>1 DEF Moves
  <2>4. RestTyped'
    BY <1>1, <1>2, <1>3, <2>1, <2>2 DEF RestTyped
  <2>. QED  BY <2>3, <2>4, OnlyOneConnection
<1>. QED  BY <1>6, <1>7

(* A body that is read is refused, or let go on, or ends the connection.   *)
LEMMA BodyKeepsHeld ==
  ASSUME HeldInv, NEW k \in Conns, ReadBody(k)
  PROVE  HeldInv'
<1> DEFINE all == {"egress", "broker_egress_block"} \X {"allow", "deny"}
<1>1. /\ ask \in [Conns -> Asks \cup {NoAsk}] /\ reply \in [Conns -> {0, 101, 200, 403, 502}]
      /\ events \in [Conns -> SUBSET all] /\ listening \in BOOLEAN
  BY DEF HeldInv, ProxyTypeOK
<1>2. stage[k] = "body" /\ UNCHANGED <<listening, ask, up, down>>
  BY DEF ReadBody
<1>3. PICK text : events' = [events EXCEPT ![k] = @ \cup Content(text)]
  BY DEF ReadBody
<1>4. Content(text) \subseteq all
  BY EventsAreTyped
<1> HIDE DEF all
<1>5. events' \in [Conns -> SUBSET all]
  BY <1>1, <1>3, <1>4
<1>6. reply' \in [Conns -> {0, 101, 200, 403, 502}]
  <2>1. reply' = reply \/ reply' = [reply EXCEPT ![k] = 403]
    BY DEF ReadBody, Hangup
  <2>. QED  BY <1>1, <2>1
<1>7. RestTyped'
  BY <1>1, <1>2, <1>5, <1>6 DEF RestTyped, all
<1>8. CASE CloseEnds(k)
  BY <1>2, <1>7, <1>8, ReturningCloses
<1>9. CASE stage' = [stage EXCEPT ![k] = "dialling"] /\ UNCHANGED <<client, target>>
  <2>1. /\ client[k] \in EndStates /\ client = [client EXCEPT ![k] = client[k]]
        /\ target[k] \in EndStates /\ target = [target EXCEPT ![k] = target[k]]
        /\ up[k] \in Copies /\ up = [up EXCEPT ![k] = up[k]]
        /\ down[k] \in Copies /\ down = [down EXCEPT ![k] = down[k]]
        /\ "dialling" \in Stages
    BY KeepingOneAsItWas DEF HeldInv, Stages
  <2>2. target[k] = "none" /\ up[k] = "none" /\ down[k] = "none"
    BY <1>2 DEF HeldInv, EndsReleased
  <2>3. Moves(k, "dialling", client[k], target[k], up[k], down[k])
    BY <1>2, <1>9, <2>1, <2>2 DEF Moves
  <2>. QED  BY <1>7, <2>3, OnlyOneConnection
<1>. QED  BY <1>8, <1>9 DEF ReadBody, Hangup

(* A goroutine moves on, while all else about its connection stays.        *)
LEMMA CopyMovesOn ==
  ASSUME HeldInv, RestTyped', NEW k \in Conns, NEW to \in Copies \ {"none"},
         UNCHANGED <<stage, client, target>>,
         \/ up[k] # "none" /\ up' = [up EXCEPT ![k] = to] /\ down' = down
         \/ down[k] # "none" /\ down' = [down EXCEPT ![k] = to] /\ up' = up
  PROVE  HeldInv'
<1>1. /\ stage[k] \in Stages /\ stage = [stage EXCEPT ![k] = stage[k]]
      /\ client[k] \in EndStates /\ client = [client EXCEPT ![k] = client[k]]
      /\ target[k] \in EndStates /\ target = [target EXCEPT ![k] = target[k]]
      /\ up[k] \in Copies /\ up = [up EXCEPT ![k] = up[k]]
      /\ down[k] \in Copies /\ down = [down EXCEPT ![k] = down[k]]
  BY KeepingOneAsItWas DEF HeldInv
<1>2. /\ stage[k] = "over" => client[k] = "closed" /\ target[k] \in {"none", "closed"}
      /\ stage[k] \in {"new", "reading", "body", "dialling"} =>
           target[k] = "none" /\ up[k] = "none" /\ down[k] = "none"
      /\ stage[k] \in {"tunnel", "exchanging"} => target[k] # "none"
  BY DEF HeldInv, EndsReleased, ProxyTypeOK
<1>3. CASE up[k] # "none" /\ up' = [up EXCEPT ![k] = to] /\ down' = down
  <2>1. Moves(k, stage[k], client[k], target[k], to, down[k])
    BY <1>1, <1>2, <1>3 DEF Moves
  <2>. QED  BY <2>1, OnlyOneConnection
<1>4. CASE down[k] # "none" /\ down' = [down EXCEPT ![k] = to] /\ up' = up
  <2>1. Moves(k, stage[k], client[k], target[k], up[k], to)
    BY <1>1, <1>2, <1>4 DEF Moves
  <2>. QED  BY <2>1, OnlyOneConnection
<1>. QED  BY <1>3, <1>4

LEMMA OneStepKeepsHeld ==
  ASSUME HeldInv, NEW k \in Conns,
         Accept(k) \/ Connected(k) \/ PeerGoes(k) \/ MovesData(k) \/ UpReadFails(k)
           \/ DownReadFails(k) \/ UpWriteFails(k) \/ DownWriteFails(k)
  PROVE  HeldInv'
<1>1. RestTyped /\ UNCHANGED <<listening, ask, events>>
  BY DEF HeldInv, ProxyTypeOK, RestTyped, Accept, Connected, PeerGoes, MovesData, UpReadFails,
         DownReadFails, UpWriteFails, DownWriteFails
<1>2. reply' = reply => RestTyped'
  BY <1>1 DEF RestTyped
<1>3. /\ stage[k] \in Stages /\ stage = [stage EXCEPT ![k] = stage[k]]
      /\ client[k] \in EndStates /\ client = [client EXCEPT ![k] = client[k]]
      /\ target[k] \in EndStates /\ target = [target EXCEPT ![k] = target[k]]
      /\ up[k] \in Copies /\ up = [up EXCEPT ![k] = up[k]]
      /\ down[k] \in Copies /\ down = [down EXCEPT ![k] = down[k]]
  BY KeepingOneAsItWas DEF HeldInv
<1>4. /\ stage[k] = "over" => client[k] = "closed" /\ target[k] \in {"none", "closed"}
      /\ stage[k] \in {"new", "reading", "body", "dialling"} =>
           target[k] = "none" /\ up[k] = "none" /\ down[k] = "none"
      /\ stage[k] \in {"tunnel", "exchanging"} => target[k] # "none"
  BY DEF HeldInv, EndsReleased, ProxyTypeOK
<1>5. /\ {"reading", "exchanging", "tunnel"} \subseteq Stages
      /\ {"open", "gone", "closed"} \subseteq EndStates
      /\ {"reading", "writing", "stopped"} \subseteq Copies
  BY DEF Stages, Copies, EndStates
<1>6. CASE Accept(k)
  <2>1. /\ stage[k] = "new" /\ stage' = [stage EXCEPT ![k] = "reading"]
        /\ client' = [client EXCEPT ![k] = "open"] /\ UNCHANGED <<reply, target, up, down>>
    BY <1>6 DEF Accept
  <2>2. Moves(k, "reading", "open", target[k], up[k], down[k])
    BY <1>3, <1>4, <1>5, <2>1 DEF Moves
  <2>. QED  BY <1>2, <2>1, <2>2, OnlyOneConnection
<1>7. CASE Connected(k)
  <2> DEFINE st == IF ask[k].via = "http" THEN "exchanging" ELSE "tunnel"
             u == IF ask[k].via = "http" THEN up[k] ELSE "reading"
             d == IF ask[k].via = "http" THEN down[k] ELSE "reading"
  <2>1. /\ target' = [target EXCEPT ![k] = "open"] /\ client' = client
        /\ stage' = [stage EXCEPT ![k] = st]
    BY <1>7 DEF Connected
  <2>2. up' = [up EXCEPT ![k] = u] /\ down' = [down EXCEPT ![k] = d]
    BY <1>3, <1>7 DEF Connected
  <2>3. RestTyped'
    <3>1. reply' = reply \/ reply' = [reply EXCEPT ![k] = IF @ = 101 THEN @ ELSE 200]
      BY <1>7 DEF Connected
    <3>. QED  BY <1>1, <3>1 DEF RestTyped
  <2>4. /\ st \in Stages /\ u \in Copies /\ d \in Copies /\ st \in {"tunnel", "exchanging"}
    BY <1>3, <1>5
  <2> HIDE DEF st, u, d
  <2>5. Moves(k, st, client[k], "open", u, d)
    BY <1>3, <1>5, <2>1, <2>2, <2>4 DEF Moves
  <2>. QED  BY <2>3, <2>5, OnlyOneConnection
<1>8. CASE PeerGoes(k)
  <2>1. stage[k] = "tunnel" /\ UNCHANGED <<reply, stage, up, down>>
    BY <1>8 DEF PeerGoes
  <2>2. CASE client' = [client EXCEPT ![k] = "gone"] /\ target' = target
    <3>1. Moves(k, stage[k], "gone", target[k], up[k], down[k])
      BY <1>3, <1>4, <1>5, <2>1, <2>2 DEF Moves
    <3>. QED  BY <1>2, <2>1, <3>1, OnlyOneConnection
  <2>3. CASE target' = [target EXCEPT ![k] = "gone"] /\ client' = client
    <3>1. Moves(k, stage[k], client[k], "gone", up[k], down[k])
      BY <1>3, <1>4, <1>5, <2>1, <2>3 DEF Moves
    <3>. QED  BY <1>2, <2>1, <3>1, OnlyOneConnection
  <2>. QED  BY <1>8, <2>2, <2>3 DEF PeerGoes
<1>9. CASE MovesData(k) \/ UpWriteFails(k) \/ DownWriteFails(k)
  <2>1. UNCHANGED <<reply, stage, client, target>>
    BY <1>9 DEF MovesData, UpWriteFails, DownWriteFails
  <2>2. PICK to \in {"reading", "writing", "stopped"} :
          \/ up[k] # "none" /\ up' = [up EXCEPT ![k] = to] /\ down' = down
          \/ down[k] # "none" /\ down' = [down EXCEPT ![k] = to] /\ up' = up
    BY <1>9 DEF MovesData, UpWriteFails, DownWriteFails
  <2>3. to \in Copies \ {"none"}
    BY <1>5
  <2>. QED  BY <1>2, <2>1, <2>2, <2>3, CopyMovesOn
<1>10. CASE UpReadFails(k)
  <2> DEFINE t == IF ask[k].via = "ws" THEN "closed" ELSE target[k]
  <2>1. /\ up[k] = "reading" /\ up' = [up EXCEPT ![k] = "stopped"]
        /\ target' = [target EXCEPT ![k] = t] /\ UNCHANGED <<reply, stage, client, down>>
    BY <1>10 DEF UpReadFails
  <2>2. t \in EndStates /\ t \in {"closed", target[k]}
    BY <1>3, <1>5
  <2> HIDE DEF t
  <2>3. Moves(k, stage[k], client[k], t, "stopped", down[k])
    BY <1>3, <1>4, <1>5, <2>1, <2>2 DEF Moves
  <2>. QED  BY <1>2, <2>1, <2>3, OnlyOneConnection
<1>11. CASE DownReadFails(k)
  <2> DEFINE c == IF ask[k].via = "ws" THEN "closed" ELSE client[k]
  <2>1. /\ down[k] = "reading" /\ down' = [down EXCEPT ![k] = "stopped"]
        /\ client' = [client EXCEPT ![k] = c] /\ UNCHANGED <<reply, stage, target, up>>
    BY <1>11 DEF DownReadFails
  <2>2. c \in EndStates /\ c \in {"closed", client[k]}
    BY <1>3, <1>5
  <2> HIDE DEF c
  <2>3. Moves(k, stage[k], c, target[k], up[k], "stopped")
    BY <1>3, <1>4, <1>5, <2>1, <2>2 DEF Moves
  <2>. QED  BY <1>2, <2>1, <2>3, OnlyOneConnection
<1>. QED  BY <1>6, <1>7, <1>8, <1>9, <1>10, <1>11

LEMMA HeldKept ==
  ASSUME HeldInv, [ProxyNext /\ UNCHANGED cfg]_<<cfg, proxyVars>>
  PROVE  HeldInv'
<1>1. ASSUME UNCHANGED <<stage, ask, events, reply, endVars>>, listening' \in BOOLEAN PROVE HeldInv'
  BY <1>1 DEF HeldInv, ProxyTypeOK, EndsReleased
<1>2. listening \in BOOLEAN /\ ask \in [Conns -> Asks \cup {NoAsk}]
      /\ events \in [Conns -> SUBSET ({"egress", "broker_egress_block"} \X {"allow", "deny"})]
  BY DEF HeldInv, ProxyTypeOK
<1>3. CASE UNCHANGED <<cfg, proxyVars>>
  BY <1>1, <1>2, <1>3
<1>4. CASE Close
  BY <1>1, <1>4 DEF Close
<1>5. ASSUME NEW k \in Conns, NEW a \in Asks, handleConnection(k, a) \/ handleWebSocket(k, a)
      PROVE  HeldInv'
  BY <1>5, HandlersKeepHeld
<1>6. ASSUME NEW k \in Conns, NEW host \in Elsewhere, Redirected(k, host) PROVE HeldInv'
  BY <1>1, <1>2, <1>6 DEF Redirected
<1>7. ASSUME NEW k \in Conns, ReadFails(k) \/ DialFails(k) \/ Exchanged(k) \/ TunnelEnds(k)
      PROVE  HeldInv'
  <2>1. UNCHANGED <<listening, ask, events, up, down>> /\ CloseEnds(k)
    BY <1>7 DEF ReadFails, DialFails, Exchanged, TunnelEnds, Hangup
  <2>2. \E status \in {0, 101, 200, 403, 502} : reply' \in {reply, [reply EXCEPT ![k] = status]}
    BY <1>7 DEF ReadFails, DialFails, Exchanged, TunnelEnds, Hangup
  <2>3. RestTyped'
    BY <1>2, <2>1, <2>2 DEF HeldInv, ProxyTypeOK, RestTyped
  <2>. QED  BY <2>1, <2>3, ReturningCloses
<1>8. ASSUME NEW k \in Conns,
             Accept(k) \/ Connected(k) \/ PeerGoes(k) \/ MovesData(k) \/ UpReadFails(k)
               \/ DownReadFails(k) \/ UpWriteFails(k) \/ DownWriteFails(k)
      PROVE  HeldInv'
  BY <1>8, OneStepKeepsHeld
<1>9. ASSUME NEW k \in Conns, ReadBody(k) PROVE HeldInv'
  BY <1>9, BodyKeepsHeld
<1>. QED  BY <1>3, <1>4, <1>5, <1>6, <1>7, <1>8, <1>9 DEF ProxyNext, Proceed

(* What the proxy's state can be, and what it holds: the client's end and  *)
(* the far end of a connection that is over are closed, whichever of the   *)
(* checks, timeouts, peers and goroutines ended it, and the late stop of   *)
(* its other goroutine opens nothing again.                                *)
(* (forward.go, HandleConnect; proxy.go, WebSocketHandler)                 *)
THEOREM NothingStaysOpen == ProxySpec => [](ProxyTypeOK /\ EndsReleased)
<1>1. ProxyInit => HeldInv
  BY DEF ProxyInit, HeldInv, ProxyTypeOK, EndsReleased, EndStates
<1>2. HeldInv => ProxyTypeOK /\ EndsReleased
  BY DEF HeldInv
<1>. QED  BY <1>1, <1>2, HeldKept, PTL DEF ProxySpec
=============================================================================
