------------------------------- MODULE MCListeners -------------------------------
(* Instances of Listeners for TLC.  The parts share no state that any of   *)
(* them writes, and no property relates two of them: a behaviour is one of *)
(* any of them alone, with the files that matter to it.                    *)
EXTENDS Listeners

VARIABLE part

CONSTANTS c1, c2, k1, s1, s2, p1, p2
TwoCalls == {c1, c2}
OneConn == {k1}
TwoStreams == {s1, s2}
TwoPublishers == {p1, p2}
OneId == {"agent"}

Host(name, port) == [name |-> name, port |-> port]
GithubApi == Host(<<"api", "github", "com">>, "")
Mock      == Host(<<"mock">>, "9090")

Integration(source, env, hosts) ==
  [name |-> "github", provider |-> "", hosts |-> hosts, enabled |-> TRUE,
   credential_source |-> source, static_token_env |-> env]
Pro  == <<Integration("pro", "", <<GithubApi>>)>>
Dev  == << Integration("dev_static", "set", <<GithubApi, Mock>>),
           [Integration("dev_static", "set", <<Mock>>) EXCEPT !.name = "forge",
                                                           !.provider = "github"] >>
Unset == <<Integration("dev_static", "unset", <<GithubApi>>)>>
Bare == << [Integration("", "", <<GithubApi>>) EXCEPT !.provider = "other"],
           [Integration("pro", "", <<Mock>>) EXCEPT !.name = "spare", !.enabled = FALSE] >>

Domain(name, wild, upper) == [name |-> name, wild |-> wild, upper |-> upper]
Rules ==
  << [domains |-> <<Domain(<<"admin", "github", "com">>, FALSE, FALSE)>>,
      label |-> "admin", action |-> "deny"],
     [domains |-> <<Domain(<<"github", "com">>, TRUE, FALSE)>>,
      label |-> "github", action |-> "allow"] >>
FlatList == << Domain(<<"github", "com">>, TRUE, TRUE), Domain(<<"mock">>, FALSE, FALSE) >>

File(mode, fail, integrations, egress, list, rs) ==
  [broker |-> [enabled |-> integrations # <<>>, mode |-> mode, fail_behavior |-> fail,
               pro_url |-> TRUE, integrations |-> integrations],
   egress |-> [mode |-> egress, allow_domains |-> list, rules |-> rs,
               pii_patterns |-> {"card number"}]]
BrokerFiles ==
  {File("enforce", "", Pro, "", <<>>, Rules), File("record", "", Pro, "", <<>>, Rules),
   File("enforce", "", Dev, "", FlatList, <<>>), File("enforce", "", Unset, "", <<>>, <<>>),
   File("enforce", "open", Unset, "", <<>>, <<>>),
   File("", "", Bare, "", <<>>, Rules)}
ProxyFiles ==
  {File("enforce", "", Bare, "record", <<>>, Rules), File("record", "", Pro, "", FlatList, <<>>),
   File("enforce", "", Pro, "record", FlatList, Rules), File("enforce", "", Dev, "", FlatList, <<>>),
   File("", "", <<>>, "", FlatList, Rules)}
Files == BrokerFiles \cup ProxyFiles

(* One route class of GitHub, for which Pro rules; the others at a second  *)
(* integration that has its credentials from the environment, or none.     *)
Ask(integration, method, path, headers) ==
  [integration |-> integration, method |-> method, path |-> path, headers |-> headers,
   valid |-> path # <<"%zz">>]
Repo == <<"repos", "o", "r">>
SomeRequests ==
  { Ask("github", "GET", Repo, {"Authorization", "X-Api-Key"}),
    Ask("forge", "POST", <<"%zz">>, {}),
    Ask("forge", "DELETE", Repo, {}), Ask("forge", "PATCH", Repo \o <<"pulls", "7">>, {}),
    Ask("spare", "GET", Repo, {}), Ask("", "GET", Repo, {}) }

To(via, host, text) == [via |-> via, url |-> [valid |-> TRUE, host |-> host], text |-> text]
SomeAsks ==
  { To("connect", [GithubApi EXCEPT !.port = "443"], {}), To("connect", Mock, {}),
    To("connect", Host(<<"admin", "github", "com">>, ""), {}),
    To("http", Host(<<"raw", "github", "com">>, ""), {"card number"}),
    To("http", Host(<<"raw", "github", "com">>, ""), {}),
    To("http", Host(<<>>, ""), {}),
    [To("http", Host(<<"mock">>, ""), {}) EXCEPT !.url.valid = FALSE],
    To("ws", Host(<<"upstream">>, ""), {}),
    [To("connect", Host(<<"mock">>, "443"), {}) EXCEPT !.url.valid = FALSE] }
Outside == {Host(<<"elsewhere">>, "")}

Init ==
  /\ part \in {"broker", "proxy", "sse"}
  /\ ListenersInit
  /\ part = "broker" => cfg \in {Load(file) : file \in BrokerFiles}
  /\ part = "proxy" => cfg \in {Load(file) : file \in ProxyFiles}
  /\ part = "sse" => ~cfg.broker.enabled

(* Where the broker only records, nothing is refused: one call at a time.  *)
OneIfRecorded == cfg.broker.mode = "record" => phase[c2] = "idle"

Next ==
  /\ part' = part
  /\ \/ part = "broker" /\ BrokerStep /\ OneIfRecorded'
     \/ part = "proxy" /\ ProxyStep
     \/ part = "sse" /\ SSEStep

Spec == Init /\ [][Next]_<<part, listenerVars>> /\ ListenersFairness
=============================================================================
