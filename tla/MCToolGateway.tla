----------------------------- MODULE MCToolGateway -----------------------------
(* Instances of ToolGateway and its pure parts for TLC. *)
EXTENDS ToolGateway

CONSTANTS r1, r2, ada

TwoRequests == {r1, r2}
OneClient   == {ada}

(* "rm" is blocked and "sudo" needs an approval wherever they stand, "mkfs"*)
(* and "git" where the text begins.                                        *)
Blocked  == {[word |-> "rm", first |-> FALSE], [word |-> "mkfs", first |-> TRUE]}
Approval == {[word |-> "sudo", first |-> FALSE], [word |-> "git", first |-> TRUE]}

Args(f, c) == [field |-> f, cmd |-> c]
Policy(b, a, w, res) ==
  [BlockTools |-> b, RequireApproval |-> a, AllowTools |-> w, BlockResources |-> res]

Default == Policy({"drop"}, {"deploy"}, {}, {"secrets"})
Servers == [files |-> Policy({}, {}, {"read_file", "deploy", "drop"}, {})]
OneUpstream == [files |-> "http"]
MixedUpstreams == [files |-> "http", default |-> "stdio"]

Mcp(route, server, form, tool, args, uri) ==
  [via |-> "mcp", route |-> route, server |-> server, form |-> form,
   tool |-> tool, args |-> args, uri |-> uri]
Call(tool, args) == Mcp("default", "default", "tools/call", tool, args, None)
Named(server, tool) == Mcp("server", server, "tools/call", tool, NoArgs, None)

Proxied(path, pii, streaming, body) ==
  [via |-> "proxy", path |-> path, pii |-> pii, streaming |-> streaming, body |-> body]
Invoke(body) == Proxied("/tools/invoke", FALSE, FALSE, body)
Chat(body)   == Proxied("/v1/chat", FALSE, TRUE, body)
Garbled == [EmptyBody EXCEPT !.text = "garbled"]
Sudo == Args("command", <<"sudo", "ls">>)
Rm   == Args("command", <<"cd", ";", "rm">>)
Ls   == Args("command", <<"ls">>)

AllMessages ==
  { Mcp("default", "default", "empty", None, NoArgs, None),
    Mcp("default", "default", "tools/list", None, NoArgs, None),
    Mcp("server", "ghost", "resources/read", None, NoArgs, "secrets"),
    Mcp("server", "files", "resources/read", None, NoArgs, "notes"),
    Call("deploy", NoArgs), Call("bash", Ls), Call("bash", Rm),
    Named("files", "deploy"), Named("files", "bash"),
    Invoke([EmptyBody EXCEPT !.tool = "bash", !.args = Sudo]),
    Invoke(Garbled),
    Chat([EmptyBody EXCEPT !.name = "bash", !.args = Sudo]),
    Chat([EmptyBody EXCEPT !.name = "bash", !.args = Rm]),
    Proxied("/", TRUE, FALSE, Garbled) }

(* The second request is one that is held.                                 *)
HeldMessages == { Call("deploy", NoArgs) }

SomeMessages == [r \in TwoRequests |-> IF r = r1 THEN AllMessages ELSE HeldMessages]

Open  == [ips |-> {}, token |-> TRUE, user |-> TRUE]
Token == [c \in {ada} |-> [kind |-> "bearer", right |-> TRUE]]

(* Lines of up to two simple commands, with and without quotes and a       *)
(* backslash before what would otherwise end a command, and of three.      *)
SimpleCommands ==
  { <<"ls">>, <<"git", "x">>, <<"ls", "git">>, <<"mkfs">>, <<"ls", "sudo">>,
    <<"echo", "sq", "x", ";", "mkfs", "sq">>, <<"echo", "esc", ";", "git">>,
    <<"echo", "sq", "&&", "mkfs", "sq">> }
PlainCommands == {<<"ls">>, <<"git", "x">>, <<"mkfs">>}
Lines == UNION {[1..n -> SimpleCommands] : n \in 1..2} \cup [1..3 -> PlainCommands]
NoLines == {}

(* Three windows take four ticks: the last ones pass while no request is   *)
(* there.  Nothing that is bound to happen is kept from happening.         *)
ClockBound == now <= 1 \/ \A r \in Requests : at[r] = "idle"
BoundedSpec == Init /\ [][Next /\ ClockBound']_vars /\ Fairness

=============================================================================
