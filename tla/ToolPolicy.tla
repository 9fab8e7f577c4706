------------------------------- MODULE ToolPolicy -------------------------------
(***************************************************************************)
(* What the gates read out of a tool call and what they decide: the MCP    *)
(* policy (internal/mcp/policy.go), the two parsers of tool calls and the  *)
(* three lists of tools and argument fields that hold commands.  Tools and *)
(* fields are the few the lists differ in.  The arguments of a call are    *)
(* one field and its command; a pattern with "*" is the set of its names.  *)
(***************************************************************************)
EXTENDS CommandCheck

CONSTANTS DefaultPolicy,    \* [BlockTools, RequireApproval, AllowTools, BlockResources]
          ServerPolicies    \* the same for some of the servers

None   == "none"
NoArgs == [field |-> None, cmd |-> <<>>]

-----------------------------------------------------------------------------
(* The interceptor's own reading of a call.                                *)
ExecTools  == {"bash", "run_command"}
ExecFields == {"command", "input", "CommandLine"}

extractCommand(tool, args) ==
  IF tool \in ExecTools /\ args.field \in ExecFields THEN args.cmd ELSE <<>>

Check(tool, args) == CheckCommand(extractCommand(tool, args))

-----------------------------------------------------------------------------
(* A body of the request proxy: the tool each name field holds, and the    *)
(* arguments each argument field holds; text says whether it is JSON.      *)
EmptyBody == [text |-> "json", type |-> FALSE, tool |-> None, action |-> None, tool_name |-> None,
              name |-> None, input |-> NoArgs, args |-> NoArgs, tool_input |-> NoArgs]

Present(a, otherwise) == IF a = NoArgs THEN otherwise ELSE a

(* NormalizeToolInvoke: the first format whose name field is there.  The   *)
(* input of a "tool_use" without a name is kept for the formats after it.  *)
Formats(b) ==
  LET kept == IF b.type THEN b.input ELSE NoArgs
  IN  << [tool |-> IF b.type THEN b.name ELSE None, args |-> b.input],
         [tool |-> b.tool,      args |-> Present(b.input, Present(b.args, kept))],
         [tool |-> b.action,    args |-> Present(b.args, kept)],
         [tool |-> b.tool_name, args |-> Present(b.tool_input, kept)],
         [tool |-> b.name,      args |-> Present(b.args, b.input)] >>

NormalizeToolInvoke(b) ==
  LET i == SelectInSeq(Formats(b), LAMBDA f : f.tool # None)
  IN  IF i = 0 THEN [tool |-> None, args |-> NoArgs] ELSE Formats(b)[i]

(* The tools NormalizedToolInvoke takes for command tools: every name that *)
(* contains one of seventeen words, "sh" among them.                       *)
CommandTools  == ExecTools \cup {"zsh", "show_file"}
CommandFields == ExecFields \cup {"shell_command"}

extractCommandAndEnv(args) == IF args.field \in CommandFields THEN args.cmd ELSE <<>>

(* The /tools/invoke gate: fail closed on what it cannot parse.            *)
CheckInvoke(b) ==
  LET n == NormalizeToolInvoke(b)
  IN  IF n.tool = None THEN "unparsed"
      ELSE IF n.tool \in CommandTools /\ extractCommandAndEnv(n.args) # <<>>
           THEN Check(n.tool, n.args)
      ELSE ActionAllow

(* Every other body: whatever is no tool call passes.                      *)
ParseToolCallFromJSON(b) ==
  CASE b.name # None                          -> [tool |-> b.name, args |-> b.args]
    [] b.name = None /\ b.tool_name # None    -> [tool |-> b.tool_name, args |-> b.tool_input]
    [] OTHER                                  -> [tool |-> None, args |-> NoArgs]

checkToolCalls(b) ==
  LET tc == ParseToolCallFromJSON(b) IN Check(tc.tool, tc.args)

-----------------------------------------------------------------------------
(* The MCP policy of a server: the default's lists and its own, and its    *)
(* own allow list if it has one.                                           *)
mergePolicy(base, override) ==
  [BlockTools      |-> base.BlockTools \cup override.BlockTools,
   RequireApproval |-> base.RequireApproval \cup override.RequireApproval,
   AllowTools      |-> IF override.AllowTools = {} THEN base.AllowTools ELSE override.AllowTools,
   BlockResources  |-> base.BlockResources \cup override.BlockResources]

getPolicyForServer(s) ==
  IF s \in DOMAIN ServerPolicies THEN mergePolicy(DefaultPolicy, ServerPolicies[s])
  ELSE DefaultPolicy

McpFields == ExecFields \ {"CommandLine"}

CheckToolCall(s, tool, args) ==
  LET policy  == getPolicyForServer(s)
      command == IF tool \in ExecTools /\ args.field \in McpFields THEN args.cmd ELSE <<>>
      checked == IF command = <<>> THEN ActionAllow ELSE Check(tool, args)
  IN  IF tool \in policy.BlockTools THEN ActionBlock
      ELSE IF policy.AllowTools # {} /\ tool \notin policy.AllowTools THEN ActionBlock
      ELSE IF checked # ActionAllow THEN checked
      ELSE IF tool \in policy.RequireApproval THEN ActionPending
      ELSE ActionAllow

CheckResourceRead(s, uri) ==
  IF uri \in getPolicyForServer(s).BlockResources THEN ActionBlock ELSE ActionAllow

=============================================================================
