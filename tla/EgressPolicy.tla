------------------------------ MODULE EgressPolicy ------------------------------
(***************************************************************************)
(* What an agent may reach: the configuration, the egress filter           *)
(* (internal/config, internal/egress), the managed integrations of the     *)
(* credential broker, their route classes and where main takes their       *)
(* credentials from (internal/broker, pkg/integrations, cmd/parachute).    *)
(*                                                                         *)
(* A host is [name, port], the name a sequence of labels; a pattern is     *)
(* [name, wild, upper], wild when written "*.name" and upper when written  *)
(* with capitals.  All code but IsDomainAllowed compares names in lower    *)
(* case, so capitals are told apart in patterns only.  A path is a         *)
(* sequence of segments, with "" behind a trailing slash.                  *)
(***************************************************************************)
EXTENDS Integers, Sequences, SequencesExt

CONSTANTS Configs,   \* the configuration files an operator may have written
          Elsewhere  \* hosts a response may redirect to
VARIABLE cfg         \* the one in force: read once, when the program starts

-----------------------------------------------------------------------------
(* Configuration                                                           *)

Default(value, default) == IF value = "" THEN default ELSE value

(* The defaults; a flat list of domains becomes a rule, unless there are   *)
(* rules.  Modes are not checked: any word is taken.                       *)
Load(raw) ==
  [raw EXCEPT
     !.egress.mode = Default(@, "enforce"),
     !.egress.rules = IF raw.egress.allow_domains # <<>> /\ @ = <<>>
                      THEN <<[domains |-> raw.egress.allow_domains,
                              label |-> "legacy", action |-> "allow"]>>
                      ELSE @,
     !.broker.mode = Default(@, "off"),
     !.broker.fail_behavior = Default(@, "closed")]

ConfigInit == cfg \in {Load(raw) : raw \in Configs}

-----------------------------------------------------------------------------
(* The egress filter                                                       *)

matchDomain(name, pattern) ==
  IF pattern.wild THEN IsStrictSuffix(pattern.name, name) ELSE name = pattern.name

(* A wildcard of the flat list is not put in lower case.                   *)
IsDomainAllowed(name) ==
  \E pattern \in ToSet(cfg.egress.allow_domains) :
     matchDomain(name, pattern) /\ (pattern.wild => ~pattern.upper)

(* The first rule with a matching domain decides, whatever its action.     *)
CheckURL(url) ==
  LET name == url.host.name
      given == cfg.egress.rules
      I == {i \in DOMAIN given : \E d \in ToSet(given[i].domains) : matchDomain(name, d)}
  IN CASE ~url.valid -> [allowed |-> FALSE, rule |-> "parse_error"]
       [] url.valid /\ name = <<>> -> [allowed |-> FALSE, rule |-> "no_host"]
       [] url.valid /\ name # <<>> /\ I # {} ->
            [allowed |-> given[Min(I)].action = "allow", rule |-> given[Min(I)].label]
       [] OTHER -> IF IsDomainAllowed(name) THEN [allowed |-> TRUE, rule |-> "legacy"]
                   ELSE [allowed |-> FALSE, rule |-> "unlisted"]

(* A text is the set of the patterns that match in it.                     *)
CheckContent(text) == text \cap cfg.egress.pii_patterns = {}

-----------------------------------------------------------------------------
(* Managed integrations                                                    *)

(* main: disabled integrations are left out, and a provider defaults to    *)
(* the integration's name.                                                 *)
Defs(integrations) ==
  LET enabled == SelectSeq(integrations, LAMBDA def : def.enabled)
  IN [i \in DOMAIN enabled |->
        [enabled[i] EXCEPT !.provider = Default(@, enabled[i].name)]]

IntegrationDefs == Defs(cfg.broker.integrations)

(* The integration of a host as it is written, port and all: the last      *)
(* definition that lists it, or "".                                        *)
hostMap(host) ==
  LET I == {i \in DOMAIN IntegrationDefs : Contains(IntegrationDefs[i].hosts, host)}
  IN IF I = {} THEN "" ELSE IntegrationDefs[Max(I)].name

(* The name is looked up without its port.                                 *)
Match(name) == hostMap([name |-> name, port |-> ""])

ManagedHosts(integration) ==
  {h \in UNION {ToSet(def.hosts) : def \in ToSet(IntegrationDefs)} : hostMap(h) = integration}

(* The first host a Go map yields: any of them, and none of an integration *)
(* that is not known.                                                      *)
HostForIntegration(integration) ==
  IF ManagedHosts(integration) = {} THEN {[name |-> <<>>, port |-> ""]}
  ELSE ManagedHosts(integration)

ProviderForIntegration(integration) ==
  LET I == {i \in DOMAIN IntegrationDefs : IntegrationDefs[i].name = integration}
  IN IF I = {} THEN "" ELSE IntegrationDefs[Max(I)].provider

-----------------------------------------------------------------------------
(* Route classes of the GitHub API: "repo" is a path /repos/o/r, "below"   *)
(* one whose next segment is what, "is" one that ends there, and           *)
(* "numbered" one that ends with a number behind it.                       *)

Rule(method, shape, what, class) ==
  [method |-> method, shape |-> shape, what |-> what, class |-> class]

rules ==
  << Rule("DELETE", "repo", "", "admin"),
     Rule("GET", "repo", "", "repo_metadata_read"),
     Rule("GET", "below", "issues", "issues_read"),
     Rule("POST", "is", "issues", "issues_write"),
     Rule("PATCH", "numbered", "issues", "issues_write"),
     Rule("GET", "below", "pulls", "pulls_read"),
     Rule("POST", "is", "pulls", "pulls_write"),
     Rule("PATCH", "numbered", "pulls", "pulls_write") >>

Numbers == {"1", "7", "42"}

HasShape(path, rule) ==
  LET rest == SubSeq(path, 4, Len(path)) IN
  /\ Len(path) >= 3 /\ path[1] = "repos" /\ path[2] # "" /\ path[3] # ""
  /\ CASE rule.shape = "repo"     -> rest = <<>>
       [] rule.shape = "below"    -> rest # <<>> /\ rest[1] = rule.what
       [] rule.shape = "is"       -> rest = <<rule.what>>
       [] rule.shape = "numbered" -> Len(rest) = 2 /\ rest[1] = rule.what /\ rest[2] \in Numbers

Classify(method, path) ==
  LET i == SelectInSeq(rules, LAMBDA r : r.method = method /\ HasShape(path, r))
  IN IF i = 0 THEN "unknown" ELSE rules[i].class

(* main registers the classifier of GitHub and no other.                   *)
ClassifyForProvider(provider, method, path) ==
  IF provider = "github" THEN Classify(method, path) ELSE "unknown"

-----------------------------------------------------------------------------
(* Where credentials come from                                             *)

usePro == \E def \in ToSet(IntegrationDefs) : def.credential_source = "pro"

(* The last enabled definition of a name that gives a variable; the        *)
(* variable may be unset all the same.                                     *)
devSource(integration) ==
  LET IsSource(def) ==
        /\ def.name = integration
        /\ def.credential_source = "dev_static" /\ def.static_token_env # ""
      I == {i \in DOMAIN IntegrationDefs : IsSource(IntegrationDefs[i])}
  IN IF I = {} THEN "" ELSE IntegrationDefs[Max(I)].static_token_env

credBroker ==
  IF usePro /\ cfg.broker.pro_url THEN "pro"
  ELSE IF \E def \in ToSet(IntegrationDefs) : devSource(def.name) # "" THEN "dev_static"
  ELSE "noop"

Resolution(decision, credential) == [decision |-> decision, credential |-> credential]

DevStaticResolve(integration) ==
  IF devSource(integration) \in {"", "unset"} THEN Resolution("unavailable", "none")
  ELSE Resolution("credential_injected", integration)

NoopResolve == Resolution("allow", "none")

=============================================================================
