------------------------------- MODULE ToolGateway -------------------------------
(***************************************************************************)
(* The two gates that stand between an agent and its tools, and the people *)
(* who decide for them: the MCP gateway (internal/mcp: handler, proxy),    *)
(* the request proxy (internal/proxy/proxy.go), and the operators' API     *)
(* behind its rate limiter and its authentication.  Each request is a      *)
(* handler of its own; the approval queue is what it promises, see         *)
(* ApprovalPromise, which ApprovalQueue is shown to keep.                  *)
(***************************************************************************)
EXTENDS ToolPolicy, RateLimiter

CONSTANTS Requests,
          Messages,          \* Messages[r]: what the agent of r may send, see below
          Interception,      \* reverse_proxy.tool_interception.enabled
          Upstreams,         \* Upstreams[s]: transport of MCP server s
          AuthConfig,        \* [ips, token, user]: what is configured
          Credentials,       \* Credentials[c]: [kind, right], what c sends
          MaxRestarts

ASSUME GatewayAssumption ==
  IsFiniteSet(Requests) /\ Interception \in BOOLEAN /\ MaxRestarts \in Nat

VARIABLES msg,       \* msg[r]: the request
          at,        \* at[r]: where its handler is
          answer,    \* answer[r]: the HTTP status written so far, 0 without one
          sent,      \* the requests that went upstream
          events,    \* events[r]: the decisions reported to the telemetry
          count,     \* the metrics of the process
          outcome, asked, late,   \* the queue's promise
          restarts

Queue == INSTANCE ApprovalPromise WITH Ids <- Requests

queueVars == <<outcome, asked, late>>
vars == <<msg, at, answer, sent, events, count, queueVars, restarts, limiterVars>>

Places   == {"idle", "gate", "waiting", "route", "upstream", "stream", "done", "dead"}
Counters == {"total", "blocked", "allowed", "approved", "reads"}
NoMessage == [via |-> "none"]

-----------------------------------------------------------------------------
(* What the gates decide.  An MCP message is [via, route, server, form,    *)
(* tool, args, uri]; form is the method, or what is wrong with the text.   *)
(* A message of the request proxy is [via, path, pii, streaming, body]; a  *)
(* body is empty, garbled, or the fields of ToolPolicy.                    *)
CheckMcp(m) ==
  IF m.form = "tools/call" THEN CheckToolCall(m.server, m.tool, m.args)
  ELSE IF m.form = "resources/read" THEN CheckResourceRead(m.server, m.uri)
  ELSE ActionAllow

CheckBody(m) ==
  IF ~Interception THEN ActionAllow
  ELSE IF m.path = "/tools/invoke"
       THEN IF m.body.text = "json" THEN CheckInvoke(m.body) ELSE "unparsed"
  ELSE IF m.body.text = "json" THEN checkToolCalls(m.body) ELSE ActionAllow

Verdict == [m \in UNION {Messages[r] : r \in Requests} |->
              IF m.via = "mcp" THEN CheckMcp(m) ELSE CheckBody(m)]

-----------------------------------------------------------------------------
Init ==
  /\ msg = [r \in Requests |-> NoMessage]
  /\ at = [r \in Requests |-> "idle"]
  /\ answer = [r \in Requests |-> 0]
  /\ sent = {}
  /\ events = [r \in Requests |-> <<>>]
  /\ count = [k \in Counters |-> 0]
  /\ Queue!Init
  /\ restarts = 0
  /\ LimiterInit

(* The handler of r goes on at the place p, with the status it has written.*)
Go(r, p, status) ==
  /\ at' = [at EXCEPT ![r] = p]
  /\ answer' = [answer EXCEPT ![r] = status]

Counted(K) == count' = [k \in Counters |-> count[k] + (IF k \in K THEN 1 ELSE 0)]
Reported(r, d) == events' = [events EXCEPT ![r] = Append(@, d)]
Unreported == UNCHANGED <<events, count>>
Unasked    == UNCHANGED queueVars

Arrive(r) ==
  /\ at[r] = "idle"
  /\ \E m \in Messages[r] : msg' = [msg EXCEPT ![r] = m]
  /\ Go(r, "gate", 0)
  /\ Unreported /\ Unasked
  /\ UNCHANGED sent

-----------------------------------------------------------------------------
(* MCP.  The handler returns nil to say "answered" and to say "forward",   *)
(* and its caller then forwards.                                           *)
AtGate(r, via) == at[r] = "gate" /\ msg[r].via = via

Malformed == {"empty", "garbled", "no params"}

HandleJSONRPC(r) ==
  /\ AtGate(r, "mcp")
  /\ msg[r].form \notin {"tools/call", "resources/read"}
  /\ Go(r, "route", IF msg[r].form \in Malformed THEN 400 ELSE 0)
  /\ Unreported /\ Unasked

\* Wrong on purpose: reports the action instead of the decision.
ReportOfAction(d) == d

ReportOf(d) ==
  CASE d = ActionAllow -> "allow" [] d = ActionBlock -> "deny" [] OTHER -> "pending"

CounterOf(d) ==
  CASE d = ActionAllow -> {"allowed"} [] d = ActionBlock -> {"blocked"} [] OTHER -> {}

handleToolsCall(r) ==
  /\ AtGate(r, "mcp")
  /\ msg[r].form = "tools/call"
  /\ \E d \in {Verdict[msg[r]]} :
       /\ Counted({"total"} \cup CounterOf(d))
       /\ Reported(r, ReportOf(d))
       /\ \/ d = ActionBlock   /\ Go(r, "route", 403) /\ Unasked
          \/ d = ActionAllow   /\ Go(r, "route", 0)   /\ Unasked
          \/ d = ActionPending /\ Go(r, "waiting", 0) /\ Queue!Ask(r)

\* Wrong on purpose: a late answer is neither counted nor reported.
handleApprovalUncounted(r) ==
  /\ at[r] = "waiting" /\ msg[r].via = "mcp"
  /\ \/ /\ outcome[r] = "approved"
        /\ Counted({"approved"}) /\ Reported(r, "allow")
        /\ Go(r, "done", 404)
     \/ /\ outcome[r] = "denied"
        /\ Counted({"blocked"}) /\ Reported(r, "deny")
        /\ Go(r, "route", 403)
     \/ /\ outcome[r] = "expired"
        /\ Unreported
        /\ Go(r, "route", 408)
  /\ Unasked

(* An approval calls c.Next(), which finds no further route: 404.          *)
handleApproval(r) ==
  /\ at[r] = "waiting" /\ msg[r].via = "mcp"
  /\ \/ /\ outcome[r] = "approved"
        /\ Counted({"approved"}) /\ Reported(r, "allow")
        /\ Go(r, "done", 404)
     \/ /\ outcome[r] = "denied"
        /\ Counted({"blocked"}) /\ Reported(r, "deny")
        /\ Go(r, "route", 403)
     \/ /\ outcome[r] = "expired"
        /\ Counted({"blocked"}) /\ Reported(r, "deny")
        /\ Go(r, "route", 408)
  /\ Unasked

(* A read that is allowed calls c.Next() as well.                          *)
handleResourcesRead(r) ==
  /\ AtGate(r, "mcp")
  /\ msg[r].form = "resources/read"
  /\ Counted({"reads"})
  /\ \E d \in {Verdict[msg[r]]} :
       /\ Reported(r, ReportOf(d))
       /\ IF d = ActionBlock THEN Go(r, "route", 403) ELSE Go(r, "done", 404)
  /\ Unasked

(* The upstreams a message may be routed to: the named one, on the default *)
(* route also "default" or, without one, any.                              *)
Routes(m) ==
  LET S == DOMAIN Upstreams
  IN  IF m.server \in S THEN {m.server}
      ELSE IF m.route = "server" THEN {}
      ELSE IF "default" \in S THEN {"default"}
      ELSE S

Send(r) == Go(r, "upstream", answer[r]) /\ sent' = sent \cup {r}

Unrouted(r) ==
  /\ at[r] = "route" /\ msg[r].via = "mcp"
  /\ Routes(msg[r]) = {}
  /\ Go(r, "done", IF msg[r].route = "server" THEN 404 ELSE 502)
  /\ UNCHANGED sent

Routed(r) ==
  /\ at[r] = "route" /\ msg[r].via = "mcp"
  /\ \E s \in Routes(msg[r]) :
       IF Upstreams[s] = "stdio" THEN Go(r, "done", 501) /\ UNCHANGED sent ELSE Send(r)

(* ForwardToServer: its client gives up after 30 seconds.                  *)
ForwardFails(r) == at[r] = "upstream" /\ Go(r, "done", 502) /\ UNCHANGED sent
ForwardAnswers(r) ==
  /\ at[r] = "upstream" /\ ~(msg[r].via = "proxy" /\ msg[r].streaming)
  /\ Go(r, "done", 200)
  /\ UNCHANGED sent

-----------------------------------------------------------------------------
(* The request proxy.                                                      *)
Intercept(r) ==
  /\ AtGate(r, "proxy")
  /\ \/ msg[r].pii /\ Go(r, "done", 403) /\ Unasked
     \/ /\ ~msg[r].pii
        /\ \E d \in {Verdict[msg[r]]} :
             \/ d = "unparsed"    /\ Go(r, "done", 400)  /\ Unasked
             \/ d = ActionBlock   /\ Go(r, "done", 403)  /\ Unasked
             \/ d = ActionAllow   /\ Go(r, "route", 0)   /\ Unasked
             \/ d = ActionPending /\ Go(r, "waiting", 0) /\ Queue!Ask(r)
  /\ Unreported

ExpiredStatus(m) == IF m.path = "/tools/invoke" THEN 504 ELSE 500

\* Wrong on purpose: only a denial stops the request.
InterceptDecidedOpen(r) ==
  /\ at[r] = "waiting" /\ msg[r].via = "proxy"
  /\ \/ outcome[r] \in {"approved", "expired"} /\ Go(r, "route", 0)
     \/ outcome[r] = "denied"                  /\ Go(r, "done", 403)
  /\ Unreported /\ Unasked

\* Wrong on purpose: an expired request goes on waiting.
InterceptDecidedUntilVerdict(r) ==
  /\ at[r] = "waiting" /\ msg[r].via = "proxy"
  /\ \/ outcome[r] = "approved" /\ Go(r, "route", 0)
     \/ outcome[r] = "denied"   /\ Go(r, "done", 403)
  /\ Unreported /\ Unasked

InterceptDecided(r) ==
  /\ at[r] = "waiting" /\ msg[r].via = "proxy"
  /\ \/ outcome[r] = "approved" /\ Go(r, "route", 0)
     \/ outcome[r] = "denied"   /\ Go(r, "done", 403)
     \/ outcome[r] = "expired"  /\ Go(r, "done", ExpiredStatus(msg[r]))
  /\ Unreported /\ Unasked

(* handleStandardRequest and handleStreaming: the client has no timeout,   *)
(* and a stream ends when either side does.                                *)
ProxyForward(r)  == at[r] = "route" /\ msg[r].via = "proxy" /\ Send(r)

StreamStarts(r) ==
  /\ at[r] = "upstream" /\ msg[r].via = "proxy" /\ msg[r].streaming
  /\ Go(r, "stream", 200)
  /\ UNCHANGED sent

StreamEnds(r) == at[r] = "stream" /\ Go(r, "done", 200) /\ UNCHANGED sent

-----------------------------------------------------------------------------
(* The operators' API and the queue behind it.                             *)

(* middleware.Auth: what passes, after the list of addresses.              *)
Auth(c) ==
  LET given == Credentials[c]
      may   == AuthConfig.ips = {} \/ c \in AuthConfig.ips
      bearer == AuthConfig.token /\ given = [kind |-> "bearer", right |-> TRUE]
      basic  == given = [kind |-> "basic", right |-> TRUE]
  IN  may /\ (bearer \/ (AuthConfig.user => basic))

(* POST /api/approve/:id and /api/deny/:id.  One that names no open        *)
(* request answers 404, and any other request of the dashboard or without  *)
(* credentials takes a place in the window and changes nothing.            *)
ApiCall(c) ==
  /\ LetThrough(c)
  /\ \/ Auth(c) /\ \E r \in Requests, v \in Queue!Verdicts :
                     outcome[r] = "open" /\ Queue!Rule(r, v)
     \/ Unasked

Limited(c) == Refuse(c) /\ Unasked

QueueStep ==
  \/ \E r \in Requests : Queue!Answer(r)
  \/ \E r \in Requests : outcome[r] = "open" /\ r \notin late /\ Queue!Pass(r)

Alive(r) == at[r] \notin {"idle", "done", "dead"}

(* The process ends and starts again: handlers, metrics, windows and what  *)
(* the queue had not answered are gone.                                    *)
Restart ==
  /\ restarts < MaxRestarts
  /\ restarts' = restarts + 1
  /\ at' = [r \in Requests |-> IF Alive(r) THEN "dead" ELSE at[r]]
  /\ count' = [k \in Counters |-> 0]
  /\ entries' = [c \in Clients |-> NoEntry]
  /\ passed' = [c \in Clients |-> <<>>]
  /\ Queue!Lose
  /\ UNCHANGED <<msg, answer, sent, events, now>>

-----------------------------------------------------------------------------
Gate(r) ==
  /\ \/ HandleJSONRPC(r) \/ handleToolsCall(r) \/ handleApproval(r) \/ handleResourcesRead(r)
     \/ Intercept(r) \/ InterceptDecided(r)
  /\ UNCHANGED <<msg, sent>>

Onward(r) ==
  /\ \/ Unrouted(r) \/ Routed(r) \/ ProxyForward(r)
     \/ ForwardFails(r) \/ ForwardAnswers(r) \/ StreamStarts(r) \/ StreamEnds(r)
  /\ Unreported /\ Unasked
  /\ UNCHANGED msg

Handler(r) == (Arrive(r) \/ Gate(r) \/ Onward(r)) /\ UNCHANGED <<restarts, limiterVars>>

Operators ==
  /\ \/ \E c \in Clients : ApiCall(c) \/ Limited(c)
     \/ (Tick \/ Cleanup) /\ Unasked
  /\ UNCHANGED <<msg, at, answer, sent, events, count, restarts>>

QueueSteps ==
  /\ QueueStep
  /\ UNCHANGED <<msg, at, answer, sent, events, count, restarts, limiterVars>>

Next == (\E r \in Requests : Handler(r)) \/ Operators \/ QueueSteps \/ Restart

(* A handler runs; an MCP upstream answers or the client's timeout does;   *)
(* the queue answers, as it promises.  Nothing makes agents or operators   *)
(* act, and nothing makes the upstream of the request proxy answer.  One   *)
(* fairness stands for all: each step disables the others of its request.  *)
Progress(r) ==
  \/ Gate(r) /\ UNCHANGED <<restarts, limiterVars>>
  \/ Onward(r) /\ (at[r] = "route" \/ msg[r].via = "mcp") /\ UNCHANGED <<restarts, limiterVars>>
  \/ Queue!Answer(r) /\ QueueSteps

Fairness == \A r \in Requests : WF_vars(Progress(r))

Spec == Init /\ [][Next]_vars /\ Fairness

-----------------------------------------------------------------------------
(* Properties.                                                             *)

(* Every variable keeps its type.                                          *)
TypeOK ==
  /\ \A r \in Requests : msg[r] \in Messages[r] \cup {NoMessage}
  /\ at \in [Requests -> Places]
  /\ answer \in [Requests -> Nat]
  /\ sent \subseteq Requests
  /\ events \in [Requests -> Seq({"allow", "deny", "pending"})]
  /\ count \in [Counters -> Nat]
  /\ outcome \in [Requests -> {"none", "open", "lost"} \cup Queue!Answers]
  /\ asked \subseteq Requests \X Queue!Verdicts
  /\ late \subseteq Requests
  /\ restarts \in 0..MaxRestarts
  /\ LimiterTypeOK

Approved(r) == <<r, "approved">> \in asked

(* What the request proxy sends upstream its gate has let pass, or has     *)
(* held until an operator approved it; nothing else lets a request through,*)
(* not a denial, an expiry or a lost queue.  (proxy.go, Handler,           *)
(* handleOpenClawToolInvoke and checkToolCalls)                            *)
UpstreamWasCleared ==
  \A r \in sent : msg[r].via = "proxy" =>
    /\ ~msg[r].pii
    /\ \/ Verdict[msg[r]] = ActionAllow
       \/ Verdict[msg[r]] = ActionPending /\ Approved(r)

(* The metrics account for every MCP tool call since the process started:  *)
(* it was blocked, allowed or approved, or waits for its approval.         *)
(* (handler.go: six places count, and the answer comes from elsewhere)     *)
IsToolCall(r) == msg[r].via = "mcp" /\ msg[r].form = "tools/call"

CallsAreCounted ==
  count["total"] = count["blocked"] + count["allowed"] + count["approved"]
    + Cardinality({r \in Requests : at[r] = "waiting" /\ IsToolCall(r)})

(* The last event of a tool call that has left its gate is its verdict,    *)
(* "allow" exactly if the policy or an operator allowed it, and no call    *)
(* that was held is left "pending".                                        *)
VerdictIsReported ==
  \A r \in Requests : IsToolCall(r) /\ at[r] \in {"route", "upstream", "done"} =>
    LET d == Verdict[msg[r]]
        e == Last(events[r])
    IN  /\ e \in {"allow", "deny"}
        /\ e = "allow" => d = ActionAllow \/ (d = ActionPending /\ Approved(r))
        /\ d = ActionAllow => e = "allow"

(* A line gets the verdict of the simple commands in it: the policy sees   *)
(* each of them, at its own start, behind wrappers, separators and         *)
(* substitutions, and no text in quotes passes for a command.              *)
(* (interceptor.go, Check and ExtractAllCommands; looked at once)          *)
PolicySeesEveryCommand == Init => SeesEveryCommand

(* A request is answered: an MCP request always, a proxied one unless it   *)
(* waits for an upstream that has it.  No verdict, expiry or lost approval *)
(* leaves a handler at its gate.                                           *)
RequestsEnd ==
  \A r \in Requests : at[r] = "gate" ~>
    \/ at[r] \in {"done", "dead"}
    \/ msg[r].via = "proxy" /\ at[r] \in {"upstream", "stream"}

(* An MCP call that goes upstream is one its gate let pass; nil is the     *)
(* answer for those.  (handler.go:141 "return nil // allow caller to       *)
(* forward to upstream")                                                   *)
GateDecides ==
  \A r \in Requests : IsToolCall(r) /\ at[r] = "done" =>
    (r \in sent => Last(events[r]) = "allow")

=============================================================================
