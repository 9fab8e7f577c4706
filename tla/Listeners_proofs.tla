----------------------------- MODULE Listeners_proofs -----------------------------
(***************************************************************************)
(* Theorems about BrokerGateway, for any configuration, any number of      *)
(* calls, any requests and any lifetimes and timeouts; and, last, about    *)
(* the composition: what is proved of the broker gateway, the forward      *)
(* proxy and the event streams holds when they run side by side.           *)
(***************************************************************************)
EXTENDS Listeners, ForwardProxy_proofs, SSEBroker_proofs

USE DEF brokerVars

-----------------------------------------------------------------------------
(* The configuration is not written, so neither integrations nor keys change. *)

LEMMA KeysStay ==
  ASSUME UNCHANGED cfg, NEW c
  PROVE  cacheKey(request[c])' = cacheKey(request'[c])
  BY DEF cacheKey, ClassifyForProvider, ProviderForIntegration, IntegrationDefs

LEMMA SourceStays ==
  ASSUME UNCHANGED cfg
  PROVE  credBroker' = credBroker
  BY DEF credBroker, usePro, devSource, IntegrationDefs

(* A ruling that granted what was sent goes on granting it.                *)
LEMMA GrantsStay ==
  ASSUME UNCHANGED cfg, NEW c, sent'[c] = sent[c], request'[c] = request[c]
  PROVE  Granted(sent[c].ruling, request[c], sent[c].at)'
           <=> Granted(sent[c].ruling, request[c], sent[c].at)
  BY KeysStay DEF Granted, Lifetime

(* As long as a call is for the same request, its key is the same.         *)
LEMMA KeyKept ==
  ASSUME UNCHANGED cfg, NEW c, request'[c] = request[c]
  PROVE  cacheKey(request[c])' = cacheKey(request[c])
  BY KeysStay

(* A call that names an integration is none of those not made yet.         *)
LEMMA NamedIsRequest ==
  ASSUME NEW r, r.integration # ""
  PROVE  r # NoRequest
  <1>1. NoRequest.integration = ""
    BY Zenon DEF NoRequest
  <1>2. QED
    BY <1>1

-----------------------------------------------------------------------------
(* The inductive invariant *)

(* Answers and what was sent are kept for every call.                      *)
WellFormed ==
  /\ ruling = [c \in Calls |-> ruling[c]]
  /\ sent = [c \in Calls |-> sent[c]]

IsRuling(answer) ==
  /\ answer.ttl \in Nat /\ answer.at \in Nat
  /\ answer.credential => answer.decision = "allow"

(* A cached answer is of its key, and expires its lifetime after it came,  *)
(* which is a timeout after it was made at the latest.                     *)
CacheIsDated ==
  \A e \in cache :
    /\ IsRuling(e.ruling) /\ e.ruling.key = e.key
    /\ e.expiresAt \in Nat
    /\ e.expiresAt <= e.ruling.at + ResolveTimeout + Lifetime(e.ruling.ttl)

(* An answer on its way is one to the call that waits for it, and was made *)
(* while it waited.                                                        *)
RulingsAreFresh ==
  \A c \in Calls :
    ruling[c] # NoRuling =>
      /\ IsRuling(ruling[c]) /\ phase[c] = "resolving"
      /\ ruling[c].key = cacheKey(request[c])
      /\ asked[c] <= ruling[c].at /\ ruling[c].at <= now

WaitsAreShort ==
  \A c \in Calls :
    phase[c] = "resolving" => asked[c] <= now /\ now <= asked[c] + ResolveTimeout

SentIsForwarding == \A c \in Calls : sent[c] # NotSent => phase[c] = "forwarding"

BrokerInv ==
  /\ BrokerTypeOK /\ WellFormed /\ CacheIsDated /\ RulingsAreFresh
  /\ WaitsAreShort /\ SentIsForwarding /\ ForwardedWasGranted

-----------------------------------------------------------------------------
(* What a call comes to, once its credential is resolved *)

(* It is sent on.                                                          *)
Sends(c, r, resolution, basis) ==
  /\ ~IsRefused(resolution.decision)
  /\ phase' = [phase EXCEPT ![c] = "forwarding"]
  /\ request' = [request EXCEPT ![c] = r]
  /\ \E host \in HostForIntegration(r.integration) :
       sent' = [sent EXCEPT ![c] =
         [host |-> host, credential |-> resolution.credential,
          headers |-> StripAuth(r.headers), ruling |-> basis, at |-> now]]

(* It is answered or sent on.                                              *)
LEMMA DecideEnds ==
  ASSUME NEW c, NEW r, NEW resolution, NEW basis, Decide(c, r, resolution, basis)
  PROVE  Answer(c) \/ Sends(c, r, resolution, basis)
  BY DEF Decide, forwardRequest, Sends

(* What justifies to send it on.                                           *)
Justified(r, resolution, basis) ==
  credBroker = "pro" =>
    /\ resolution.credential # "none" => Granted(basis, r, now) /\ basis.credential
    /\ \/ resolution.decision = "deny" \/ resolution.decision = "unavailable"
       \/ Granted(basis, r, now)

(* A justified call leaves what is sent granted and the types right.       *)
LEMMA DecideKeeps ==
  ASSUME BrokerInv, UNCHANGED cfg, NEW c \in Calls, NEW r \in Requests, r # NoRequest,
         NEW resolution, NEW basis,
         Answer(c) \/ Sends(c, r, resolution, basis),
         Justified(r, resolution, basis)
  PROVE  /\ phase' \in [Calls -> {"idle", "resolving", "forwarding"}]
         /\ request' \in [Calls -> Requests \cup {NoRequest}]
         /\ \A d \in Calls : phase'[d] \in {"resolving", "forwarding"} <=> request'[d] # NoRequest
         /\ sent' = [d \in Calls |-> sent'[d]]
         /\ SentIsForwarding' /\ ForwardedWasGranted'
         /\ phase'[c] # "resolving"
         /\ \A d \in Calls \ {c} :
              phase'[d] = phase[d] /\ request'[d] = request[d] /\ sent'[d] = sent[d]
  <1> USE DEF BrokerInv
  <1>1. CASE Answer(c)
    <2>1. \A d \in Calls \ {c} :
            phase'[d] = phase[d] /\ request'[d] = request[d] /\ sent'[d] = sent[d]
      BY <1>1 DEF Answer, BrokerTypeOK, WellFormed
    <2>2. sent'[c] = NotSent /\ phase'[c] = "idle" /\ request'[c] = NoRequest
      BY <1>1 DEF Answer, BrokerTypeOK, WellFormed
    <2>3. ForwardedWasGranted'
      BY <2>1, <2>2, GrantsStay, SourceStays DEF ForwardedWasGranted
    <2>4. /\ phase' \in [Calls -> {"idle", "resolving", "forwarding"}]
          /\ request' \in [Calls -> Requests \cup {NoRequest}]
          /\ sent' = [d \in Calls |-> sent'[d]]
      BY <1>1 DEF Answer, BrokerTypeOK, WellFormed
    <2>5. QED
      BY <2>1, <2>2, <2>3, <2>4 DEF BrokerTypeOK, SentIsForwarding
  <1>2. CASE Sends(c, r, resolution, basis)
    <2>1. \A d \in Calls \ {c} :
            phase'[d] = phase[d] /\ request'[d] = request[d] /\ sent'[d] = sent[d]
      BY <1>2 DEF Sends, BrokerTypeOK, WellFormed
    <2>2. /\ phase'[c] = "forwarding" /\ request'[c] = r
          /\ sent'[c].credential = resolution.credential
          /\ sent'[c].headers = StripAuth(r.headers)
          /\ sent'[c].ruling = basis /\ sent'[c].at = now
      BY <1>2 DEF Sends, BrokerTypeOK, WellFormed
    <2>3. ASSUME NEW d \in Calls, d # c, sent'[d] # NotSent
          PROVE  /\ sent'[d].headers \cap authHeaders = {}
                 /\ credBroker' = "pro" /\ sent'[d].credential # "none" =>
                      Granted(sent[d].ruling, request[d], sent[d].at)' /\ sent'[d].ruling.credential
                 /\ credBroker' = "pro" /\ cfg'.broker.mode = "enforce"
                      /\ cfg'.broker.fail_behavior = "closed" =>
                      Granted(sent[d].ruling, request[d], sent[d].at)'
      BY <2>1, <2>3, GrantsStay, SourceStays DEF ForwardedWasGranted
    <2>4. sent'[c].headers \cap authHeaders = {}
      BY <2>2 DEF StripAuth
    <2>5. Granted(sent[c].ruling, request[c], sent[c].at)' <=> Granted(basis, r, now)
      BY <2>2, KeysStay DEF Granted, Lifetime
    <2>6. credBroker' = "pro" /\ sent'[c].credential # "none" =>
            Granted(sent[c].ruling, request[c], sent[c].at)' /\ sent'[c].ruling.credential
      BY <2>2, <2>5, SourceStays DEF Justified
    <2>7. credBroker' = "pro" /\ cfg'.broker.mode = "enforce"
            /\ cfg'.broker.fail_behavior = "closed" =>
            Granted(sent[c].ruling, request[c], sent[c].at)'
      BY <1>2, <2>5, SourceStays DEF Justified, Sends, IsRefused
    <2>8. ForwardedWasGranted'
      BY <2>3, <2>4, <2>6, <2>7 DEF ForwardedWasGranted
    <2>9. /\ phase' \in [Calls -> {"idle", "resolving", "forwarding"}]
          /\ request' \in [Calls -> Requests \cup {NoRequest}]
          /\ sent' = [d \in Calls |-> sent'[d]]
      BY <1>2 DEF Sends, BrokerTypeOK, WellFormed
    <2>10. QED
      BY <2>1, <2>2, <2>8, <2>9 DEF BrokerTypeOK, SentIsForwarding
  <1>3. QED
    BY <1>1, <1>2

(* What a cached or arriving answer of Pro comes to is justified by it.    *)
LEMMA AnswersJustify ==
  ASSUME NEW r, NEW answer, IsRuling(answer), answer.key = cacheKey(r),
         now - answer.at <= ResolveTimeout + Lifetime(answer.ttl)
  PROVE  Justified(r, ProResult(answer), answer)
  BY DEF Justified, ProResult, Resolution, Granted, IsRuling

-----------------------------------------------------------------------------
(* Every action keeps the invariant *)

(* A call that arrives, while the cache and what others wait for stay.     *)
LEMMA ReceiveKeeps ==
  ASSUME BrokerInv, UNCHANGED cfg, NEW c \in Calls, NEW r \in Requests, Receive(c, r)
  PROVE  BrokerInv'
  <1> USE DEF BrokerInv
  <1>1. now' = now /\ cache' = cache /\ ruling' = ruling /\ phase[c] = "idle"
    BY DEF Receive
  <1>2. CacheIsDated'
    BY <1>1 DEF CacheIsDated, IsRuling, Lifetime
  <1>3. request[c] = NoRequest /\ sent[c] = NotSent /\ ruling[c] = NoRuling
    BY <1>1 DEF BrokerTypeOK, SentIsForwarding, RulingsAreFresh
  <1>4. CASE r.integration = "" \/ ManagedHosts(r.integration) = {}
    <2>1. Answer(c) /\ asked' = asked
      BY <1>4 DEF Receive
    <2>2. phase' = phase /\ request' = request /\ sent' = sent
      BY <1>1, <1>3, <2>1 DEF Answer, BrokerTypeOK, WellFormed
    <2>3. RulingsAreFresh'
      BY <1>1, <2>1, <2>2, KeysStay DEF RulingsAreFresh, IsRuling
    <2>4. ForwardedWasGranted'
      BY <2>2, GrantsStay, SourceStays DEF ForwardedWasGranted
    <2>5. QED
      BY <1>1, <1>2, <2>1, <2>2, <2>3, <2>4
         DEF BrokerTypeOK, WellFormed, WaitsAreShort, SentIsForwarding
  <1>5. CASE /\ r.integration # "" /\ asked' = asked
             /\ \E resolution, basis :
                  Decide(c, r, resolution, basis) /\ Justified(r, resolution, basis)
    <2>1. PICK resolution, basis :
            Decide(c, r, resolution, basis) /\ Justified(r, resolution, basis)
      BY <1>5
    <2>2. Answer(c) \/ Sends(c, r, resolution, basis)
      BY <2>1, DecideEnds
    <2>3. r # NoRequest
      BY <1>5, NamedIsRequest
    <2>4. /\ phase' \in [Calls -> {"idle", "resolving", "forwarding"}]
          /\ request' \in [Calls -> Requests \cup {NoRequest}]
          /\ \A d \in Calls :
               phase'[d] \in {"resolving", "forwarding"} <=> request'[d] # NoRequest
          /\ sent' = [d \in Calls |-> sent'[d]]
          /\ SentIsForwarding' /\ ForwardedWasGranted'
          /\ phase'[c] # "resolving"
          /\ \A d \in Calls \ {c} :
               phase'[d] = phase[d] /\ request'[d] = request[d] /\ sent'[d] = sent[d]
      BY <2>1, <2>2, <2>3, DecideKeeps
    <2>5. RulingsAreFresh'
      <3>1. \A d \in Calls \ {c} : cacheKey(request[d])' = cacheKey(request[d])
        BY <2>4, KeyKept
      <3>2. ASSUME NEW d \in Calls \ {c}, ruling'[d] # NoRuling
            PROVE  /\ IsRuling(ruling'[d]) /\ phase'[d] = "resolving"
                   /\ ruling'[d].key = cacheKey(request[d])'
                   /\ asked'[d] <= ruling'[d].at /\ ruling'[d].at <= now'
        <4>1. /\ ruling' = ruling /\ now' = now /\ asked' = asked
              /\ phase'[d] = phase[d] /\ request'[d] = request[d]
          BY <1>1, <1>5, <2>4
        <4>2. QED
          BY <3>1, <3>2, <4>1 DEF RulingsAreFresh, IsRuling
      <3>3. ruling'[c] = NoRuling
        BY <1>1, <1>3
      <3>4. QED
        BY <3>2, <3>3 DEF RulingsAreFresh, IsRuling
    <2>6. QED
      BY <1>1, <1>2, <1>5, <2>4, <2>5 DEF BrokerTypeOK, WellFormed, WaitsAreShort
  <1>6. CASE /\ r.integration # "" /\ phase' = [phase EXCEPT ![c] = "resolving"]
             /\ request' = [request EXCEPT ![c] = r]
             /\ asked' = [asked EXCEPT ![c] = now] /\ sent' = sent
    <2>1. r # NoRequest
      BY <1>6, NamedIsRequest
    <2>2. /\ phase'[c] = "resolving" /\ asked'[c] = now /\ request'[c] = r
          /\ \A d \in Calls \ {c} :
               phase'[d] = phase[d] /\ request'[d] = request[d] /\ asked'[d] = asked[d]
      BY <1>6 DEF BrokerTypeOK
    <2>3. BrokerTypeOK'
      BY <1>1, <1>6, <2>1, <2>2 DEF BrokerTypeOK
    <2>4. RulingsAreFresh'
      <3>1. \A d \in Calls \ {c} : cacheKey(request[d])' = cacheKey(request[d])
        BY <2>2, KeyKept
      <3>2. QED
        BY <1>1, <1>3, <2>2, <3>1 DEF RulingsAreFresh, IsRuling
    <2>5. /\ WaitsAreShort'
          /\ SentIsForwarding' /\ WellFormed'
      <3>1. now \in Nat
        BY BrokerAssumption DEF BrokerTypeOK
      <3>2. WaitsAreShort'
        BY <1>1, <2>2, <3>1, BrokerAssumption DEF WaitsAreShort
      <3>3. SentIsForwarding' /\ WellFormed'
        BY <1>1, <1>3, <1>6, <2>2 DEF SentIsForwarding, WellFormed
      <3>4. QED
        BY <3>2, <3>3
    <2>6. ForwardedWasGranted'
      BY <1>3, <1>6, <2>2, GrantsStay, SourceStays DEF ForwardedWasGranted
    <2>7. QED
      BY <1>2, <2>3, <2>4, <2>5, <2>6
  <1>7. ASSUME NEW resolution, credBroker # "pro"
        PROVE  Justified(r, resolution, NoRuling)
    BY <1>7 DEF Justified
  <1>8. ASSUME NEW answer \in getCached(cacheKey(r))
        PROVE  Justified(r, ProResult(answer), answer)
    <2>1. PICK e \in cache : e.key = cacheKey(r) /\ now <= e.expiresAt /\ answer = e.ruling
      BY <1>8 DEF getCached
    <2>2. /\ IsRuling(answer) /\ answer.key = cacheKey(r)
          /\ now - answer.at <= ResolveTimeout + Lifetime(answer.ttl)
      BY <2>1, BrokerAssumption DEF CacheIsDated, IsRuling, Lifetime, BrokerTypeOK
    <2>3. QED
      BY <2>2, AnswersJustify
  <1>9. QED
    BY <1>4, <1>5, <1>6, <1>7, <1>8 DEF Receive

(* Pro rules: what it rules is of the key of the call, and dated.          *)
LEMMA ProRulesKeeps ==
  ASSUME BrokerInv, UNCHANGED cfg, NEW c \in Calls, ProRules(c)
  PROVE  BrokerInv'
  <1> USE DEF BrokerInv
  <1>1. /\ now' = now /\ cache' = cache /\ phase' = phase /\ request' = request
        /\ asked' = asked /\ sent' = sent /\ phase[c] = "resolving"
    BY DEF ProRules
  <1>2. BrokerTypeOK' /\ CacheIsDated' /\ WaitsAreShort' /\ SentIsForwarding'
    BY <1>1 DEF BrokerTypeOK, CacheIsDated, WaitsAreShort, SentIsForwarding, IsRuling, Lifetime
  <1>3. ForwardedWasGranted'
    BY <1>1, GrantsStay, SourceStays DEF ForwardedWasGranted
  <1>4. PICK decision \in Decisions, credential \in BOOLEAN, ttl \in TTLs :
          ruling' = [ruling EXCEPT ![c] =
            [key |-> cacheKey(request[c]), decision |-> decision,
             credential |-> credential /\ decision = "allow", ttl |-> ttl, at |-> now]]
    BY DEF ProRules
  <1>5. /\ \A d \in Calls \ {c} : ruling'[d] = ruling[d]
        /\ ruling'[c].key = cacheKey(request[c]) /\ ruling'[c].decision = decision
        /\ ruling'[c].credential => decision = "allow"
        /\ ruling'[c].ttl \in Nat /\ ruling'[c].at = now
    BY <1>4, BrokerAssumption DEF WellFormed
  <1>6. WellFormed'
    BY <1>1, <1>4 DEF WellFormed
  <1>7. \A d \in Calls : cacheKey(request[d])' = cacheKey(request[d])
    BY <1>1, KeysStay
  <1>8. RulingsAreFresh'
    BY <1>1, <1>5, <1>7 DEF RulingsAreFresh, IsRuling, WaitsAreShort, BrokerTypeOK
  <1>9. QED
    BY <1>2, <1>3, <1>6, <1>8

(* A call that waited is answered or sent on, by Pro's answer or without.  *)
LEMMA WaitEnds ==
  ASSUME BrokerInv, UNCHANGED <<cfg, now>>, NEW c \in Calls, phase[c] = "resolving",
         NEW resolution, NEW basis,
         Decide(c, request[c], resolution, basis), Justified(request[c], resolution, basis),
         ruling' = [ruling EXCEPT ![c] = NoRuling],
         asked' = [asked EXCEPT ![c] = 0],
         CacheIsDated'
  PROVE  BrokerInv'
  <1> USE DEF BrokerInv
  <1>1. request[c] \in Requests /\ request[c] # NoRequest
    BY DEF BrokerTypeOK
  <1>2. Answer(c) \/ Sends(c, request[c], resolution, basis)
    BY DecideEnds
  <1>3. /\ phase' \in [Calls -> {"idle", "resolving", "forwarding"}]
        /\ request' \in [Calls -> Requests \cup {NoRequest}]
        /\ \A d \in Calls : phase'[d] \in {"resolving", "forwarding"} <=> request'[d] # NoRequest
        /\ sent' = [d \in Calls |-> sent'[d]]
        /\ SentIsForwarding' /\ ForwardedWasGranted'
        /\ phase'[c] # "resolving"
        /\ \A d \in Calls \ {c} :
             phase'[d] = phase[d] /\ request'[d] = request[d] /\ sent'[d] = sent[d]
    BY <1>1, <1>2, DecideKeeps
  <1>4. /\ now \in 0..MaxTime /\ 0 \in 0..MaxTime
        /\ asked' \in [Calls -> 0..MaxTime]
        /\ \A d \in Calls \ {c} : asked'[d] = asked[d] /\ ruling'[d] = ruling[d]
        /\ ruling'[c] = NoRuling
    BY BrokerAssumption DEF BrokerTypeOK, WellFormed
  <1>5. BrokerTypeOK' /\ WellFormed' /\ WaitsAreShort'
    BY <1>3, <1>4 DEF BrokerTypeOK, WellFormed, WaitsAreShort
  <1>6. \A d \in Calls \ {c} : cacheKey(request[d])' = cacheKey(request[d])
    BY <1>3, KeyKept
  <1>7. RulingsAreFresh'
    BY <1>3, <1>4, <1>6 DEF RulingsAreFresh, IsRuling
  <1>8. QED
    BY <1>3, <1>5, <1>7

(* The answer that arrives is cached, and good for its lifetime from now.  *)
LEMMA ProAnswersKeeps ==
  ASSUME BrokerInv, UNCHANGED cfg, NEW c \in Calls, ProAnswers(c)
  PROVE  BrokerInv'
  <1> DEFINE answer == ruling[c]
  <1>1. /\ phase[c] = "resolving" /\ answer # NoRuling /\ now' = now
        /\ setCached(cacheKey(request[c]), answer)
        /\ Decide(c, request[c], ProResult(answer), answer)
        /\ ruling' = [ruling EXCEPT ![c] = NoRuling] /\ asked' = [asked EXCEPT ![c] = 0]
    BY DEF ProAnswers
  <1>2. /\ IsRuling(answer) /\ answer.key = cacheKey(request[c])
        /\ now <= answer.at + ResolveTimeout
        /\ now \in Nat /\ Lifetime(answer.ttl) \in Nat
    <2>1. /\ IsRuling(answer) /\ answer.key = cacheKey(request[c])
          /\ asked[c] <= answer.at /\ now <= asked[c] + ResolveTimeout
          /\ now \in Nat /\ asked[c] \in Nat
      BY <1>1, BrokerAssumption DEF BrokerInv, RulingsAreFresh, WaitsAreShort, BrokerTypeOK
    <2>2. QED
      BY <2>1, BrokerAssumption DEF IsRuling, Lifetime
  <1>3. Justified(request[c], ProResult(answer), answer)
    <2>1. now - answer.at <= ResolveTimeout + Lifetime(answer.ttl)
      BY <1>2, BrokerAssumption DEF IsRuling
    <2>2. QED
      BY <1>2, <2>1, AnswersJustify
  <1>4. CacheIsDated'
    <2>1. ASSUME NEW e \in cache'
          PROVE  /\ IsRuling(e.ruling) /\ e.ruling.key = e.key
                 /\ e.expiresAt \in Nat
                 /\ e.expiresAt <= e.ruling.at + ResolveTimeout + Lifetime(e.ruling.ttl)
      <3>1. CASE e \in cache
        BY <3>1 DEF BrokerInv, CacheIsDated
      <3>2. CASE e = [key |-> cacheKey(request[c]), ruling |-> answer,
                      expiresAt |-> now + Lifetime(answer.ttl)]
        <4>1. /\ e.ruling = answer /\ e.key = cacheKey(request[c])
              /\ e.expiresAt = now + Lifetime(answer.ttl)
          BY <3>2
        <4>2. QED
          BY <1>2, <4>1, BrokerAssumption DEF IsRuling
      <3>3. QED
        BY <1>1, <3>1, <3>2 DEF setCached
    <2>2. QED
      BY <2>1 DEF CacheIsDated, IsRuling, Lifetime
  <1>5. QED
    BY <1>1, <1>3, <1>4, WaitEnds

(* Without an answer there is no credential, and nothing new in the cache. *)
LEMMA ProFailsKeeps ==
  ASSUME BrokerInv, UNCHANGED cfg, NEW c \in Calls, ProFails(c)
  PROVE  BrokerInv'
  <1>1. Justified(request[c], Unavailable, NoRuling)
    BY DEF Justified, Unavailable, Resolution
  <1>2. CacheIsDated'
    BY DEF ProFails, BrokerInv, CacheIsDated, IsRuling, Lifetime
  <1>3. QED
    BY <1>1, <1>2, WaitEnds DEF ProFails

LEMMA UpstreamEndsKeeps ==
  ASSUME BrokerInv, UNCHANGED cfg, NEW c \in Calls, UpstreamEnds(c)
  PROVE  BrokerInv'
  <1> USE DEF BrokerInv
  <1>1. /\ phase[c] = "forwarding" /\ now' = now /\ cache' = cache
        /\ asked' = asked /\ ruling' = ruling
    BY DEF UpstreamEnds
  <1>2. /\ sent'[c] = NotSent /\ phase'[c] = "idle" /\ request'[c] = NoRequest
        /\ \A d \in Calls \ {c} :
             phase'[d] = phase[d] /\ request'[d] = request[d] /\ sent'[d] = sent[d]
        /\ phase' \in [Calls -> {"idle", "resolving", "forwarding"}]
        /\ request' \in [Calls -> Requests \cup {NoRequest}]
        /\ sent' = [d \in Calls |-> sent'[d]]
    BY DEF UpstreamEnds, Answer, BrokerTypeOK, WellFormed
  <1>3. BrokerTypeOK' /\ WellFormed' /\ WaitsAreShort' /\ SentIsForwarding'
    BY <1>1, <1>2 DEF BrokerTypeOK, WellFormed, WaitsAreShort, SentIsForwarding
  <1>4. CacheIsDated'
    BY <1>1 DEF CacheIsDated, IsRuling, Lifetime
  <1>5. \A d \in Calls \ {c} : cacheKey(request[d])' = cacheKey(request[d])
    BY <1>2, KeyKept
  <1>6. RulingsAreFresh'
    BY <1>1, <1>2, <1>5 DEF RulingsAreFresh, IsRuling
  <1>7. ForwardedWasGranted'
    BY <1>2, GrantsStay, SourceStays DEF ForwardedWasGranted
  <1>8. QED
    BY <1>3, <1>4, <1>6, <1>7

(* A redirect changes where a call was sent, but not what granted it.      *)
LEMMA RedirectKeeps ==
  ASSUME BrokerInv, UNCHANGED cfg, NEW c \in Calls, NEW host \in Elsewhere,
         UpstreamRedirects(c, host)
  PROVE  BrokerInv'
  <1> USE DEF BrokerInv
  <1>1. /\ sent[c] # NotSent /\ now' = now /\ cache' = cache /\ phase' = phase
        /\ request' = request /\ asked' = asked /\ ruling' = ruling
    BY DEF UpstreamRedirects
  <1>2. /\ sent' = [d \in Calls |-> sent'[d]]
        /\ \A d \in Calls \ {c} : sent'[d] = sent[d]
        /\ sent'[c].credential \in {sent[c].credential, "none"}
        /\ sent'[c].headers = sent[c].headers
        /\ sent'[c].ruling = sent[c].ruling /\ sent'[c].at = sent[c].at
    <2>1. sent = [d \in Calls |-> sent[d]]
      BY DEF WellFormed
    <2>2. PICK credential \in {sent[c].credential, "none"} :
            sent' = [sent EXCEPT ![c] =
              [host |-> host, credential |-> credential, headers |-> sent[c].headers,
               ruling |-> sent[c].ruling, at |-> sent[c].at]]
      BY DEF UpstreamRedirects
    <2>3. QED
      BY <2>1, <2>2
  <1>3. phase[c] = "forwarding"
    BY <1>1 DEF SentIsForwarding
  <1>4. \A d \in Calls : cacheKey(request[d])' = cacheKey(request[d])
    BY <1>1, KeyKept
  <1>5. BrokerTypeOK' /\ CacheIsDated' /\ WaitsAreShort' /\ SentIsForwarding'
    BY <1>1, <1>2, <1>3
       DEF BrokerTypeOK, CacheIsDated, WaitsAreShort, SentIsForwarding, IsRuling, Lifetime
  <1>6. WellFormed'
    BY <1>1, <1>2 DEF WellFormed
  <1>7. RulingsAreFresh'
    BY <1>1, <1>4 DEF RulingsAreFresh, IsRuling
  <1>8. ForwardedWasGranted'
    <2>1. ASSUME NEW d \in Calls \ {c}, sent'[d] # NotSent
          PROVE  /\ sent'[d].headers \cap authHeaders = {}
                 /\ credBroker' = "pro" /\ sent'[d].credential # "none" =>
                      Granted(sent[d].ruling, request[d], sent[d].at)' /\ sent'[d].ruling.credential
                 /\ credBroker' = "pro" /\ cfg'.broker.mode = "enforce"
                      /\ cfg'.broker.fail_behavior = "closed" =>
                      Granted(sent[d].ruling, request[d], sent[d].at)'
      BY <1>1, <1>2, <2>1, GrantsStay, SourceStays DEF ForwardedWasGranted
    <2>2. Granted(sent[c].ruling, request[c], sent[c].at)'
            <=> Granted(sent[c].ruling, request[c], sent[c].at)
      BY <1>1, <1>2, KeysStay DEF Granted, Lifetime
    <2>3. ASSUME sent'[c] # NotSent
          PROVE  /\ sent'[c].headers \cap authHeaders = {}
                 /\ credBroker' = "pro" /\ sent'[c].credential # "none" =>
                      Granted(sent[c].ruling, request[c], sent[c].at)' /\ sent'[c].ruling.credential
                 /\ credBroker' = "pro" /\ cfg'.broker.mode = "enforce"
                      /\ cfg'.broker.fail_behavior = "closed" =>
                      Granted(sent[c].ruling, request[c], sent[c].at)'
      BY <1>1, <1>2, <2>2, SourceStays DEF ForwardedWasGranted
    <2>4. QED
      BY <2>1, <2>3 DEF ForwardedWasGranted
  <1>9. QED
    BY <1>5, <1>6, <1>7, <1>8

(* The clock does not pass the timeout of a call that waits.               *)
LEMMA TickKeeps ==
  ASSUME BrokerInv, UNCHANGED cfg, BrokerTick
  PROVE  BrokerInv'
  <1> USE DEF BrokerInv
  <1>1. /\ now' = now + 1 /\ now < MaxTime
        /\ cache' = cache /\ phase' = phase /\ request' = request
        /\ asked' = asked /\ ruling' = ruling /\ sent' = sent
        /\ \A c \in Calls : phase[c] = "resolving" => now < asked[c] + ResolveTimeout
    BY DEF BrokerTick
  <1>2. now \in 0..MaxTime /\ now' \in 0..MaxTime
    BY <1>1, BrokerAssumption DEF BrokerTypeOK
  <1>3. BrokerTypeOK'
    BY <1>1, <1>2 DEF BrokerTypeOK
  <1>4. WaitsAreShort'
    BY <1>1, <1>2, BrokerAssumption DEF WaitsAreShort, BrokerTypeOK
  <1>5. \A c \in Calls : cacheKey(request[c])' = cacheKey(request[c])
    BY <1>1, KeyKept
  <1>6. RulingsAreFresh'
    BY <1>1, <1>2, <1>5, BrokerAssumption DEF RulingsAreFresh, IsRuling
  <1>7. ForwardedWasGranted'
    BY <1>1, GrantsStay, SourceStays DEF ForwardedWasGranted
  <1>8. QED
    BY <1>1, <1>3, <1>4, <1>6, <1>7
       DEF WellFormed, CacheIsDated, SentIsForwarding, IsRuling, Lifetime

-----------------------------------------------------------------------------
(* The invariant holds in every state that can be reached.                 *)
THEOREM InvariantHolds == BrokerSpec => []BrokerInv
  <1>1. BrokerInit => BrokerInv
    BY BrokerAssumption
       DEF BrokerInit, BrokerInv, BrokerTypeOK, WellFormed, CacheIsDated, RulingsAreFresh,
           WaitsAreShort, SentIsForwarding, ForwardedWasGranted
  <1>2. ASSUME BrokerInv, [BrokerNext /\ UNCHANGED cfg]_<<cfg, brokerVars>>
        PROVE  BrokerInv'
    <2>1. ASSUME UNCHANGED <<cfg, brokerVars>>
          PROVE  BrokerInv'
      <3>1. \A c \in Calls : cacheKey(request[c])' = cacheKey(request[c])
        BY <2>1, KeyKept
      <3>2. ForwardedWasGranted'
        BY <1>2, <2>1, GrantsStay, SourceStays DEF BrokerInv, ForwardedWasGranted
      <3>3. RulingsAreFresh'
        BY <1>2, <2>1, <3>1 DEF BrokerInv, RulingsAreFresh, IsRuling
      <3>4. QED
        BY <1>2, <2>1, <3>2, <3>3
           DEF BrokerInv, BrokerTypeOK, WellFormed, CacheIsDated, WaitsAreShort,
               SentIsForwarding, IsRuling, Lifetime
    <2>2. QED
      BY <1>2, <2>1, ReceiveKeeps, ProRulesKeeps, ProAnswersKeeps, ProFailsKeeps,
         UpstreamEndsKeeps, RedirectKeeps, TickKeeps DEF BrokerNext
  <1>3. QED
    BY <1>1, <1>2, PTL DEF BrokerSpec

(* Where Pro rules, nothing is sent with a credential but under a ruling   *)
(* that granted one for the same integration and route class and was still *)
(* good, however answers overtake each other on the way to the cache; in   *)
(* "enforce" mode that fails closed nothing is sent without such a ruling. *)
(* (pro_client.go, Resolve and its cache; gateway.go, Handler)             *)
THEOREM GrantsHold == BrokerSpec => []ForwardedWasGranted
  <1>1. BrokerInv => ForwardedWasGranted
    BY DEF BrokerInv
  <1>2. QED
    BY <1>1, InvariantHolds, PTL

(* No call waits for Pro beyond its timeout, and what it is for is known   *)
(* from the moment it waits to its answer.  (gateway.go, Handler)          *)
THEOREM CallsAreTyped == BrokerSpec => [](BrokerTypeOK /\ WaitsAreShort)
  <1>1. BrokerInv => BrokerTypeOK /\ WaitsAreShort
    BY DEF BrokerInv
  <1>2. QED
    BY <1>1, InvariantHolds, PTL

-----------------------------------------------------------------------------
(* The composition *)

(* Each listener sees a behaviour of its own specification: a step of      *)
(* another leaves its variables and the configuration alone.               *)
(* (main.go, where the listeners are started)                              *)
THEOREM PartsBehave == ListenersSpec => BrokerSpec /\ ProxySpec /\ SSESpec
  <1>1. ListenersInit => ConfigInit /\ BrokerInit /\ ProxyInit /\ SSEInit
    BY DEF ListenersInit
  <1> DEFINE Next == BrokerStep \/ ProxyStep \/ SSEStep
  <1>2. [Next]_listenerVars =>
          /\ [BrokerNext /\ UNCHANGED cfg]_<<cfg, brokerVars>>
          /\ [ProxyNext /\ UNCHANGED cfg]_<<cfg, proxyVars>>
          /\ [SSENext]_sseVars
    BY DEF BrokerStep, ProxyStep, SSEStep, listenerVars
  <1>3. QED
    BY <1>1, <1>2, PTL DEF ListenersSpec, BrokerSpec, ProxySpec, SSESpec

(* The variables of all three keep their types.                            *)
THEOREM ListenersAreTyped == ListenersSpec => []TypeOK
  <1>1. BrokerTypeOK /\ WaitsAreShort /\ ProxyTypeOK /\ EndsReleased /\ SSETypeOK => TypeOK
    BY DEF TypeOK
  <1>2. QED
    BY <1>1, PartsBehave, CallsAreTyped, NothingStaysOpen, StreamsAreTyped, PTL

(* Credentials, denials and events at once: the safety of each listener    *)
(* holds in every state of the process that runs all of them.              *)
THEOREM ListenersAreSafe ==
  ListenersSpec => [](/\ ForwardedWasGranted
                      /\ DenialsAreEnforced
                      /\ RegisteredIsOpen
                      /\ InBufferOrder)
  <1>1. QED
    BY PartsBehave, GrantsHold, DenialsHold, RegisteredStaysOpen, StreamsKeepOrder, PTL

=============================================================================
