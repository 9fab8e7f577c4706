------------------------------ MODULE RateLimiter ------------------------------
(***************************************************************************)
(* The rate limiter in front of the dashboard and the operators' API       *)
(* (internal/middleware/auth.go): a window per client that opens with a    *)
(* request and not with the clock.  Each request is one critical section.  *)
(***************************************************************************)
EXTENDS Integers, Sequences

CONSTANTS Clients,    \* IP addresses
          Rate,       \* requests per window
          Window,     \* its length in ticks of the clock
          MaxTime     \* bound: the clock stops there

ASSUME RateAssumption == Rate \in Nat \ {0} /\ Window \in Nat \ {0} /\ MaxTime \in Nat

VARIABLES now,
          entries,    \* entries[c]: the client's window, or NoEntry
          passed      \* passed[c]: when the client's requests went through

limiterVars == <<now, entries, passed>>

NoEntry == [count |-> 0, start |-> 0]

LimiterInit ==
  /\ now = 0
  /\ entries = [c \in Clients |-> NoEntry]
  /\ passed = [c \in Clients |-> <<>>]

Tick ==
  /\ now < MaxTime
  /\ now' = now + 1
  /\ UNCHANGED <<entries, passed>>

WindowIsOver(e) == now - e.start > Window

\* Wrong on purpose: one request too many in each window.
IsRefusedLate(c) == entries[c] # NoEntry /\ ~WindowIsOver(entries[c]) /\ entries[c].count > Rate

IsRefused(c) == entries[c] # NoEntry /\ ~WindowIsOver(entries[c]) /\ entries[c].count >= Rate

(* Let through: the first request of a client, the first one after its     *)
(* window, and each that finds the count below the rate.                   *)
LetThrough(c) ==
  LET e == entries[c] IN
  /\ ~IsRefused(c)
  /\ entries' = [entries EXCEPT ![c] =
       IF e = NoEntry \/ WindowIsOver(e) THEN [count |-> 1, start |-> now]
       ELSE [e EXCEPT !.count = @ + 1]]
  /\ passed' = [passed EXCEPT ![c] = Append(@, now)]
  /\ UNCHANGED now

Refuse(c) ==
  /\ IsRefused(c)
  /\ UNCHANGED limiterVars

(* The ticker drops the windows that ended long ago.                       *)
Cleanup ==
  /\ \E c \in Clients : entries[c] # NoEntry /\ now - entries[c].start > 2 * Window
  /\ entries' = [c \in Clients |->
       IF now - entries[c].start > 2 * Window THEN NoEntry ELSE entries[c]]
  /\ UNCHANGED <<now, passed>>

LimiterNext ==
  \/ Tick \/ Cleanup
  \/ \E c \in Clients : LetThrough(c) \/ Refuse(c)

LimiterSpec == LimiterInit /\ [][LimiterNext]_limiterVars

LimiterTypeOK ==
  /\ now \in 0..MaxTime
  /\ entries \in [Clients -> [count : Nat, start : 0..MaxTime]]
  /\ passed \in [Clients -> Seq(0..MaxTime)]

-----------------------------------------------------------------------------
(* A client may use up its window when it is nearly over, and the next one *)
(* at once: but one of the requests opened the first window, so that less  *)
(* than twice the rate gets through in any interval of a window's length.  *)
(* Of its requests, the one 2 * Rate - 1 behind another is more than a     *)
(* window later.                                                           *)
(* (auth.go: the count restarts with the window, the window with a request)*)
BurstIsBounded ==
  \A c \in Clients :
    \A i, j \in 1..Len(passed[c]) :
      j - i >= 2 * Rate - 1 => passed[c][j] - passed[c][i] > Window

=============================================================================
