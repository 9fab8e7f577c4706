------------------------------ MODULE BrokerGateway ------------------------------
(***************************************************************************)
(* The credential broker's gateway (internal/broker): an agent's call to a *)
(* managed integration gets a credential resolved - by Pro, over the       *)
(* network and through a cache of its answers, or from the environment -   *)
(* and goes on to the integration with it, without it, or not at all.      *)
(*                                                                         *)
(* Calls are served concurrently, each by its handler.  Pro makes a ruling *)
(* at some instant, and its answer takes time to arrive, or is lost.       *)
(***************************************************************************)
EXTENDS EgressPolicy

CONSTANTS Calls,            \* connections of agents
          Requests,         \* what they may ask for
          TTLs,             \* lifetimes Pro may give an answer; 0: none given
          DefaultTTL,       \* what it then gets: five minutes
          ResolveTimeout,   \* the client's timeout: 30 s
          MaxTime           \* bound: the clock stops there

ASSUME BrokerAssumption ==
  TTLs \subseteq Nat /\ DefaultTTL \in Nat /\ ResolveTimeout \in Nat /\ MaxTime \in Nat

VARIABLES now,
          cache,     \* ProBroker.cache: [key, ruling, expiresAt], one for a key
          phase,     \* idle, resolving, forwarding
          request,   \* what the call asks for, until it is answered
          asked,     \* when it asked Pro, while it waits
          ruling,    \* what Pro ruled on it, while the answer is on its way
          sent       \* what was sent, redirects included, and not answered, or NotSent

brokerVars == <<now, cache, phase, request, asked, ruling, sent>>

Decisions == {"allow", "deny", "other"}
NoRuling == [key |-> <<"", "">>, decision |-> "none", credential |-> FALSE, ttl |-> 0, at |-> 0]
NoRequest == [integration |-> "", method |-> "", path |-> <<>>, headers |-> {}, valid |-> TRUE]
NoHost == [name |-> <<>>, port |-> ""]
NotSent == [host |-> NoHost, credential |-> "none", headers |-> {}, ruling |-> NoRuling, at |-> 0]

-----------------------------------------------------------------------------
(* Integration and route class: the cache tells requests apart by no more. *)
cacheKey(r) ==
  << r.integration,
     ClassifyForProvider(ProviderForIntegration(r.integration), r.method, r.path) >>

(* Five minutes for an answer without a lifetime.                          *)
Lifetime(ttl) == IF ttl = 0 THEN DefaultTTL ELSE ttl

\* Wrong on purpose: an answer is good for ever.
getCachedStale(key) == {e.ruling : e \in {x \in cache : x.key = key}}

getCached(key) == {e.ruling : e \in {x \in cache : x.key = key /\ now <= x.expiresAt}}

setCached(key, answer) ==
  cache' = {e \in cache : e.key # key}
             \cup {[key |-> key, ruling |-> answer, expiresAt |-> now + Lifetime(answer.ttl)]}

(* What an answer of Pro comes to.                                         *)
ProResult(answer) ==
  CASE answer.decision = "allow" /\ answer.credential ->
         Resolution("credential_injected", answer.key[1])
    [] answer.decision = "allow" /\ ~answer.credential -> Resolution("allow", "none")
    [] answer.decision = "deny" -> Resolution("deny", "none")
    [] OTHER -> Resolution("unavailable", "none")

Unavailable == Resolution("unavailable", "none")

-----------------------------------------------------------------------------
(* The agent's own credentials are removed, whether or not there is one to *)
(* put in their place.                                                     *)
authHeaders == {"Authorization", "X-Auth-Token", "Private-Token"}
StripAuth(headers) == headers \ authHeaders

(* The agent gets its answer, whatever its status.                         *)
Answer(c) ==
  /\ phase' = [phase EXCEPT ![c] = "idle"]
  /\ request' = [request EXCEPT ![c] = NoRequest]
  /\ sent' = [sent EXCEPT ![c] = NotSent]

(* A request that cannot be built is answered with an error.               *)
forwardRequest(c, r, resolution, basis) ==
  IF ~r.valid THEN Answer(c)
  ELSE \E host \in HostForIntegration(r.integration) :
         /\ phase' = [phase EXCEPT ![c] = "forwarding"]
         /\ request' = [request EXCEPT ![c] = r]
         /\ sent' = [sent EXCEPT ![c] =
              [host |-> host, credential |-> resolution.credential,
               headers |-> StripAuth(r.headers), ruling |-> basis, at |-> now]]

IsRefused(decision) ==
  /\ cfg.broker.mode = "enforce"
  /\ \/ decision = "deny"
     \/ decision = "unavailable" /\ cfg.broker.fail_behavior = "closed"

(* The rest of the handler, once the credential is resolved and the        *)
(* decision reported to the telemetry.                                     *)
Decide(c, r, resolution, basis) ==
  IF IsRefused(resolution.decision) THEN Answer(c)
  ELSE forwardRequest(c, r, resolution, basis)

-----------------------------------------------------------------------------
(* A call arrives.  It is done at once when the integration is not named   *)
(* or not known; the credentials of the environment need no waiting, and   *)
(* neither does an answer of Pro that is still good.                       *)
Receive(c, r) ==
  /\ phase[c] = "idle"
  /\ UNCHANGED <<now, cache, ruling>>
  /\ \/ /\ r.integration = "" \/ ManagedHosts(r.integration) = {}
        /\ Answer(c)
        /\ UNCHANGED asked
     \/ /\ r.integration # "" /\ ManagedHosts(r.integration) # {}
        /\ \/ /\ credBroker = "noop"
              /\ Decide(c, r, NoopResolve, NoRuling)
              /\ UNCHANGED asked
           \/ /\ credBroker = "dev_static"
              /\ Decide(c, r, DevStaticResolve(r.integration), NoRuling)
              /\ UNCHANGED asked
           \/ /\ credBroker = "pro"
              /\ \E answer \in getCached(cacheKey(r)) :
                   Decide(c, r, ProResult(answer), answer)
              /\ UNCHANGED asked
           \/ /\ credBroker = "pro" /\ getCached(cacheKey(r)) = {}
              /\ phase' = [phase EXCEPT ![c] = "resolving"]
              /\ request' = [request EXCEPT ![c] = r]
              /\ asked' = [asked EXCEPT ![c] = now]
              /\ UNCHANGED sent

(* Pro rules on a call; it may rule otherwise on the next one.             *)
ProRules(c) ==
  /\ phase[c] = "resolving" /\ ruling[c] = NoRuling
  /\ \E decision \in Decisions, credential \in BOOLEAN, ttl \in TTLs :
       ruling' = [ruling EXCEPT ![c] =
         [key |-> cacheKey(request[c]), decision |-> decision,
          credential |-> credential /\ decision = "allow", ttl |-> ttl, at |-> now]]
  /\ UNCHANGED <<now, cache, phase, request, asked, sent>>

(* Its answer arrives and is cached, in place of any other.                *)
ProAnswers(c) ==
  /\ phase[c] = "resolving" /\ ruling[c] # NoRuling
  /\ setCached(cacheKey(request[c]), ruling[c])
  /\ Decide(c, request[c], ProResult(ruling[c]), ruling[c])
  /\ ruling' = [ruling EXCEPT ![c] = NoRuling]
  /\ asked' = [asked EXCEPT ![c] = 0]
  /\ UNCHANGED now

(* It does not: Pro is out of reach, too slow, or answers with another     *)
(* status or with what cannot be read.  Nothing is cached.                 *)
ProFails(c) ==
  /\ phase[c] = "resolving"
  /\ Decide(c, request[c], Unavailable, NoRuling)
  /\ ruling' = [ruling EXCEPT ![c] = NoRuling]
  /\ asked' = [asked EXCEPT ![c] = 0]
  /\ UNCHANGED <<now, cache>>

(* It redirects, and net/http follows by itself; the header with the       *)
(* credential goes along or not, depending on its name and on the host.    *)
UpstreamRedirects(c, host) ==
  /\ sent[c] # NotSent
  /\ \E credential \in {sent[c].credential, "none"} :
       sent' = [sent EXCEPT ![c] =
         [host |-> host, credential |-> credential, headers |-> sent[c].headers,
          ruling |-> sent[c].ruling, at |-> sent[c].at]]
  /\ UNCHANGED <<now, cache, phase, request, asked, ruling>>

\* Wrong on purpose: the call to the integration is waited for, however long it takes.
UpstreamEndsWell(c) ==
  /\ phase[c] = "forwarding" /\ request[c].method = "GET"
  /\ Answer(c)
  /\ UNCHANGED <<now, cache, asked, ruling>>

(* The integration answers, or the call to it fails (60 s at the latest).  *)
UpstreamEnds(c) ==
  /\ phase[c] = "forwarding"
  /\ Answer(c)
  /\ UNCHANGED <<now, cache, asked, ruling>>

(* Time passes, but a call does not wait for Pro beyond the timeout.       *)
BrokerTick ==
  /\ now < MaxTime
  /\ \A c \in Calls : phase[c] = "resolving" => now < asked[c] + ResolveTimeout
  /\ now' = now + 1
  /\ UNCHANGED <<cache, phase, request, asked, ruling, sent>>

-----------------------------------------------------------------------------
BrokerInit ==
  /\ now = 0
  /\ cache = {}
  /\ phase = [c \in Calls |-> "idle"]
  /\ request = [c \in Calls |-> NoRequest]
  /\ asked = [c \in Calls |-> 0]
  /\ ruling = [c \in Calls |-> NoRuling]
  /\ sent = [c \in Calls |-> NotSent]

BrokerNext ==
  \/ BrokerTick
  \/ \E c \in Calls :
       \/ \E r \in Requests : Receive(c, r)
       \/ ProRules(c) \/ ProAnswers(c) \/ ProFails(c) \/ UpstreamEnds(c)
       \/ \E host \in Elsewhere : UpstreamRedirects(c, host)

(* Both clients have a timeout: a call to Pro or to the integration ends.  *)
BrokerFairness ==
  \A c \in Calls : WF_brokerVars(ProAnswers(c) \/ ProFails(c) \/ UpstreamEnds(c))

BrokerSpec == ConfigInit /\ BrokerInit /\ [][BrokerNext /\ UNCHANGED cfg]_<<cfg, brokerVars>>

-----------------------------------------------------------------------------
BrokerTypeOK ==
  /\ now \in 0..MaxTime
  /\ phase \in [Calls -> {"idle", "resolving", "forwarding"}]
  /\ request \in [Calls -> Requests \cup {NoRequest}]
  /\ asked \in [Calls -> 0..MaxTime]
  /\ \A c \in Calls :
       phase[c] \in {"resolving", "forwarding"} <=> request[c] # NoRequest

(* A ruling that allows request r, and was still good at time t: Pro made  *)
(* it for the same integration and route class, at most a call's timeout   *)
(* and its own lifetime before.                                            *)
Granted(answer, r, t) ==
  /\ answer.decision = "allow" /\ answer.key = cacheKey(r)
  /\ t - answer.at <= ResolveTimeout + Lifetime(answer.ttl)

(* Where Pro rules, a credential goes out only under a ruling that granted *)
(* one and was still good, whichever answers overtook each other on the    *)
(* way and were cached; where the mode is "enforce" and the failure        *)
(* behaviour "closed", nothing goes out without such a ruling.  The        *)
(* agent's own credentials never do.                                       *)
(* (pro_client.go, Resolve and its cache; gateway.go, Handler)             *)
ForwardedWasGranted ==
  \A c \in Calls :
    sent[c] # NotSent =>
      /\ sent[c].headers \cap authHeaders = {}
      /\ credBroker = "pro" /\ sent[c].credential # "none" =>
           Granted(sent[c].ruling, request[c], sent[c].at) /\ sent[c].ruling.credential
      /\ credBroker = "pro" /\ cfg.broker.mode = "enforce" /\ cfg.broker.fail_behavior = "closed" =>
           Granted(sent[c].ruling, request[c], sent[c].at)

(* Every call gets its answer, though neither Pro nor the integration may  *)
(* ever give theirs.  (gateway.go, Handler and forwardRequest)             *)
CallsEnd == \A c \in Calls : phase[c] \in {"resolving", "forwarding"} ~> phase[c] = "idle"

=============================================================================
