---------------------------- MODULE ApprovalPromise ----------------------------
(***************************************************************************)
(* What the approval queue promises the rest of the program, without the   *)
(* queue: a request is asked, it gets one answer and the answer stands.    *)
(* "approved" needs an operator who asked for it; "denied" needs one too   *)
(* unless the request is late (a closed channel reads as a denial).        *)
(* A request may be lost with the process, and is otherwise answered.      *)
(***************************************************************************)
CONSTANTS Ids

VARIABLES outcome,   \* outcome[id]: the request's answer so far
          asked,     \* the <<id, verdict>> operators have asked for
          late       \* the requests whose time is over

vars == <<outcome, asked, late>>

Verdicts == {"approved", "denied"}
Answers  == Verdicts \cup {"expired"}

Init ==
  /\ outcome = [id \in Ids |-> "none"]
  /\ asked = {}
  /\ late = {}

Ask(id) ==
  /\ outcome[id] = "none"
  /\ outcome' = [outcome EXCEPT ![id] = "open"]
  /\ UNCHANGED <<asked, late>>

Rule(id, v) ==
  /\ outcome[id] # "none"
  /\ asked' = asked \cup {<<id, v>>}
  /\ UNCHANGED <<outcome, late>>

Pass(id) ==
  /\ outcome[id] # "none"
  /\ late' = late \cup {id}
  /\ UNCHANGED <<outcome, asked>>

Justified(id, a) ==
  CASE a = "approved" -> <<id, "approved">> \in asked
    [] a = "denied"   -> <<id, "denied">> \in asked \/ id \in late
    [] OTHER          -> TRUE

Answer(id) ==
  /\ outcome[id] = "open"
  /\ \E a \in Answers : Justified(id, a) /\ outcome' = [outcome EXCEPT ![id] = a]
  /\ UNCHANGED <<asked, late>>

Lose ==
  /\ outcome' = [id \in Ids |-> IF outcome[id] = "open" THEN "lost" ELSE outcome[id]]
  /\ UNCHANGED <<asked, late>>

Next ==
  \/ \E id \in Ids : Ask(id) \/ Pass(id) \/ Answer(id)
  \/ \E id \in Ids, v \in Verdicts : Rule(id, v)
  \/ Lose

Spec == Init /\ [][Next]_vars /\ \A id \in Ids : WF_vars(Answer(id))

=============================================================================
