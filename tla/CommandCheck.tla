------------------------------ MODULE CommandCheck ------------------------------
(***************************************************************************)
(* How internal/interceptor decides about one command line.  A command is  *)
(* a sequence of tokens: words, and the characters the code looks at.  One *)
(* token stands for what the code treats alike: ";" also for a newline     *)
(* outside of a wrapper, "&&" also for ||, "(" for each opening bracket,   *)
(* "sh -c" for each shell wrapper that takes its argument unquoted too,    *)
(* "env sh -c" for the one that does not.  "dq", "sq", "bq" and "esc" are  *)
(* the quotes and the backslash.  A pattern of the policy is a word,       *)
(* anchored to the start of the text or not.                               *)
(***************************************************************************)
EXTENDS Integers, Sequences, FiniteSets, SequencesExt

CONSTANTS BlockCommands,     \* sets of [word, first]
          RequireApproval,
          Scripts            \* sequences of simple commands, to be judged as one line

ActionAllow   == "allow"
ActionBlock   == "block"
ActionPending == "pending"

Quotes    == {"dq", "sq", "bq"}
Opening   == {"(", "$("}
Separator == {";", "NL"}

Matches(p, text) ==
  IF p.first THEN text # <<>> /\ Head(text) = p.word ELSE p.word \in Range(text)

ShouldBlock(text)      == \E p \in BlockCommands : Matches(p, text)
RequiresApproval(text) == \E p \in RequireApproval : Matches(p, text)

IsBase64Encoded(text) == "base64 -d|sh" \in Range(text)
IsForkBomb(text)      == ":(){ :|:& };:" \in Range(text)

-----------------------------------------------------------------------------
(* One wrapper less: the quoted argument of "sh -c", or all that follows   *)
(* it.  The patterns do not match across a newline.                        *)
WrapperBody(c) ==
  LET arg    == Tail(c)
      n      == Len(arg)
      quoted == n > 2 /\ arg[1] \in {"dq", "sq"} /\ arg[n] \in {"dq", "sq"}
  IN  IF c = <<>> \/ arg = <<>> \/ "NL" \in Range(c) THEN c
      ELSE IF Head(c) \in {"sh -c", "env sh -c"} /\ quoted THEN SubSeq(arg, 2, n - 1)
      ELSE IF Head(c) = "sh -c" THEN arg
      ELSE c

unwrapShellCommand(c) == FoldLeft(LAMBDA u, t : WrapperBody(u), c, c)

(* A scan that cuts the text into parts: what is open, and where.          *)
ScanStart == [parts |-> {}, cur |-> <<>>, quote |-> "none", depth |-> 0, back |-> "none"]

Cut(s)     == IF s.cur = <<>> THEN s.parts ELSE s.parts \cup {s.cur}
Toggle(s, t) == IF s.quote = "none" THEN t ELSE IF s.quote = t THEN "none" ELSE s.quote

(* Semicolons and newlines: not in quotes, brackets or after a backslash,  *)
(* which hides a bracket, but not the one of "$(" behind its dollar.       *)
ScanSeparators(s, t) ==
  LET plain == s.back = "none"
      kept  == [s EXCEPT !.cur = Append(@, t), !.back = "none"]
  IN  CASE plain /\ t = "esc"        -> [kept EXCEPT !.back = "esc"]
        [] plain /\ t \in Quotes    -> [kept EXCEPT !.quote = Toggle(s, t)]
        [] (plain /\ t = "(") \/ t = "$(" -> [kept EXCEPT !.depth = @ + 1]
        [] plain /\ t = ")"         -> [kept EXCEPT !.depth = @ - 1]
        [] plain /\ t \in Separator /\ s.quote = "none" /\ s.depth = 0
                                    -> [s EXCEPT !.parts = Cut(s), !.cur = <<>>]
        [] OTHER                    -> kept

ScanOperators(s, t) ==
  LET kept == [s EXCEPT !.cur = Append(@, t)]
  IN  CASE t \in Quotes                    -> [kept EXCEPT !.quote = Toggle(s, t)]
        [] t = "&&" /\ s.quote = "none"    -> [s EXCEPT !.parts = Cut(s), !.cur = <<>>]
        [] OTHER                           -> kept

splitOnOperators(c) == Cut(FoldLeft(ScanOperators, ScanStart, c))

splitCommandSeparators(c) ==
  UNION {splitOnOperators(p) : p \in Cut(FoldLeft(ScanSeparators, ScanStart, c))}

-----------------------------------------------------------------------------
(* $(...): from the first "$(" behind the last ")" to the next ")".        *)
DollarSubstitutions(c) ==
  LET Closing == {i \in DOMAIN c : c[i] = ")"}
      Before(j) == {i \in Closing : i < j}
      Opens(j) == {i \in 1..(j - 1) : c[i] = "$(" /\ \A k \in Before(j) : k < i}
      First(S) == CHOOSE i \in S : \A k \in S : i <= k
  IN  {SubSeq(c, First(Opens(j)) + 1, j - 1) :
         j \in {k \in Closing : Opens(k) # {} /\ First(Opens(k)) < k - 1}}

(* `...`: pairs of backticks with something between them.                  *)
ScanBackticks(s, t) ==
  CASE t = "bq" /\ s.quote = "bq" /\ s.cur # <<>> ->
         [s EXCEPT !.parts = @ \cup {s.cur}, !.quote = "none", !.cur = <<>>]
    [] t = "bq" /\ (s.quote # "bq" \/ s.cur = <<>>) ->
         [s EXCEPT !.quote = "bq", !.cur = <<>>]
    [] OTHER -> [s EXCEPT !.cur = Append(@, t)]

BacktickSubstitutions(c) == FoldLeft(ScanBackticks, ScanStart, c).parts

\* Wrong on purpose: backticks are forgotten.
extractCommandSubstitutionDollar(c) == DollarSubstitutions(c)

extractCommandSubstitution(c) == DollarSubstitutions(c) \cup BacktickSubstitutions(c)

(* The texts the policy is asked about.  What stands in $(...) holds no    *)
(* ")", what stands in backticks no backtick: a substitution has at most   *)
(* one more inside, and the recursion of the code ends at depth two.       *)
Parts(c)         == splitCommandSeparators(unwrapShellCommand(c))
Substitutions(c) == UNION {extractCommandSubstitution(p) : p \in Parts(c)}

ExtractAllCommands(c) ==
  LET once    == Substitutions(c)
      inside  == once \cup UNION {Substitutions(s) : s \in once}
      wrapped == IF unwrapShellCommand(c) = c THEN {} ELSE {c}
  IN  wrapped \cup inside \cup UNION {Parts(s) : s \in {c} \cup inside}

(* Interceptor.Check for the command line c of a tool that runs commands.  *)
CheckCommand(c) ==
  CASE c = <<>>                                          -> ActionAllow
    [] c # <<>> /\ IsBase64Encoded(c)                    -> ActionPending
    [] ~IsBase64Encoded(c) /\ (IsForkBomb(c) \/ ShouldBlock(c)) -> ActionBlock
    [] OTHER ->
         LET texts == ExtractAllCommands(c)
         IN  IF \E p \in texts : ShouldBlock(p) THEN ActionBlock
             ELSE IF \E p \in texts : RequiresApproval(p) THEN ActionPending
             ELSE ActionAllow

-----------------------------------------------------------------------------
(* The verdict a command line should get: that of the simple commands the  *)
(* shell would run, each looked at by itself.                              *)
VerdictOnEach(C) ==
  IF \E c \in C : ShouldBlock(c) THEN ActionBlock
  ELSE IF \E c \in C : RequiresApproval(c) THEN ActionPending
  ELSE ActionAllow

(* The simple commands in cs as one line, and that line dressed: behind    *)
(* shell wrappers, in $(...), in backticks, and in one within the other.   *)
Line(cs, sep) ==
  FoldLeft(LAMBDA l, c : IF l = <<>> THEN c ELSE Append(l, sep) \o c, <<>>, cs)

Wrapped(l, q) == <<"sh -c", q>> \o l \o <<q>>
Dollar(l)     == <<"echo", "$(">> \o l \o <<")">>
Backtick(l)   == <<"echo", "bq">> \o l \o <<"bq">>

(* Two limits of the code: a wrapper is not seen through across a newline, *)
(* and && and || cut a text also inside of $(...), which is then no        *)
(* substitution any more; what is inside loses its own start.              *)
Dressed(l) ==
  {l, Backtick(l)}
    \cup (IF "&&" \in Range(l) THEN {}
          ELSE {Dollar(l), Dollar(Backtick(l)), Backtick(Dollar(l))})
    \cup (IF "NL" \in Range(l) THEN {}
          ELSE {Wrapped(l, "dq"), Wrapped(Wrapped(l, "dq"), "sq"), <<"sh -c">> \o l,
                <<"env sh -c", "sq">> \o l \o <<"sq">>, Wrapped(Backtick(l), "dq")})

Between == {";", "NL", "&&"}

SeesEveryCommand ==
  \A cs \in Scripts, sep \in Between :
    \A l \in Dressed(Line(cs, sep)) : CheckCommand(l) = VerdictOnEach(Range(cs))

=============================================================================
