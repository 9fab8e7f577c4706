--------------------------- MODULE ToolGateway_proofs ---------------------------
(***************************************************************************)
(* Theorems about ToolGateway, for any number of requests and operators,   *)
(* any policy, messages, upstreams and credentials, and any rate; and,     *)
(* first, about the RateLimiter in front of it.                            *)
(***************************************************************************)
EXTENDS ToolGateway, CommandCheck_proofs, FiniteSetTheorems, TLAPS

USE DEF limiterVars

-----------------------------------------------------------------------------
(* The rate limiter, for any number of clients, any rate and any window.   *)

(* The request that opened the client's window.                            *)
Opener(c) == Len(passed[c]) - entries[c].count + 1

WindowOK(c) ==
  entries[c] # NoEntry =>
    /\ entries[c].count \in 1..Rate /\ entries[c].count <= Len(passed[c])
    /\ passed[c][Opener(c)] = entries[c].start

InOrder(c) ==
  \A i, j \in 1..Len(passed[c]) :
    /\ i <= j => passed[c][i] <= passed[c][j]
    /\ passed[c][i] <= now

(* Request s opened a window: those that are a rate behind it are outside, *)
(* and so is whatever follows, unless the window is still in use.          *)
Opened(c, s) ==
  /\ \A j \in 1..Len(passed[c]) : j >= s + Rate => passed[c][j] - passed[c][s] > Window
  /\ \/ now - passed[c][s] > Window
     \/ entries[c] # NoEntry /\ s = Opener(c)

(* Of any rate of requests in a row, one opened a window.                  *)
WindowsFollow(c) ==
  \A i \in 1..Len(passed[c]) :
    i + Rate <= Len(passed[c]) + 1 =>
      \E s \in 1..Len(passed[c]) : i <= s /\ s < i + Rate /\ Opened(c, s)

LimiterInv ==
  /\ LimiterTypeOK
  /\ \A c \in Clients : WindowOK(c) /\ InOrder(c) /\ WindowsFollow(c)

-----------------------------------------------------------------------------
(* Of i and the requests behind it, less than a rate behind, one opened a  *)
(* window; one that is 2 * Rate - 1 behind i is outside of that window.    *)
LEMMA BoundFollows ==
  ASSUME LimiterInv
  PROVE  BurstIsBounded
  <1> SUFFICES ASSUME NEW c \in Clients, NEW i \in 1..Len(passed[c]),
                      NEW j \in 1..Len(passed[c]), j - i >= 2 * Rate - 1
               PROVE  passed[c][j] - passed[c][i] > Window
    BY DEF BurstIsBounded
  <1> DEFINE p == passed[c]
  <1>1. Window \in Int /\ MaxTime \in Nat
    BY RateAssumption
  <1>2. /\ p \in Seq(0..MaxTime) /\ Len(p) \in Nat /\ Rate \in Nat /\ Rate > 0
    BY RateAssumption DEF LimiterInv, LimiterTypeOK
  <1>3. i \in 1..Len(p) /\ j \in 1..Len(p) /\ i + Rate <= Len(p) + 1
    BY <1>2
  <1>4. PICK s \in 1..Len(p) : i <= s /\ s < i + Rate /\ Opened(c, s)
    BY <1>3 DEF LimiterInv, WindowsFollow
  <1>5. p[j] - p[s] > Window
    BY <1>2, <1>3, <1>4 DEF Opened
  <1>6. p[i] <= p[s]
    BY <1>3, <1>4 DEF LimiterInv, InOrder
  <1>7. p[i] \in Int /\ p[s] \in Int /\ p[j] \in Int
    <2>1. \A n \in 1..Len(p) : p[n] \in 0..MaxTime
      BY <1>1 DEF LimiterInv, LimiterTypeOK
    <2> HIDE DEF p
    <2>2. p[i] \in 0..MaxTime /\ p[s] \in 0..MaxTime /\ p[j] \in 0..MaxTime
      BY <1>3, <1>4, <2>1
    <2>3. QED
      BY <1>1, <2>2
  <1>8. QED
    BY <1>1, <1>5, <1>6, <1>7

-----------------------------------------------------------------------------
(* Every action keeps the invariant *)

LEMMA TickKeeps ==
  ASSUME LimiterInv, Tick
  PROVE  LimiterInv'
  <1>1. /\ now' = now + 1 /\ now \in Nat /\ now' \in 0..MaxTime
        /\ entries' = entries /\ passed' = passed
    BY RateAssumption DEF LimiterInv, LimiterTypeOK, Tick
  <1>2. LimiterTypeOK'
    BY <1>1 DEF LimiterInv, LimiterTypeOK
  <1>3. ASSUME NEW c \in Clients
        PROVE  WindowOK(c)' /\ InOrder(c)' /\ WindowsFollow(c)'
    <2>1. /\ passed[c] \in Seq(0..MaxTime) /\ Window \in Nat /\ MaxTime \in Nat
          /\ \A i \in 1..Len(passed[c]) : passed[c][i] \in 0..MaxTime
      BY RateAssumption DEF LimiterInv, LimiterTypeOK
    <2>2. WindowOK(c)'
      BY <1>1 DEF LimiterInv, WindowOK, Opener
    <2>3. InOrder(c)'
      BY <1>1, <2>1 DEF LimiterInv, InOrder
    <2>4. \A s \in 1..Len(passed[c]) : Opened(c, s) => Opened(c, s)'
      BY <1>1, <2>1 DEF Opened, Opener
    <2>5. WindowsFollow(c)'
      BY <1>1, <2>4 DEF LimiterInv, WindowsFollow
    <2>6. QED
      BY <2>2, <2>3, <2>5
  <1>4. QED
    BY <1>2, <1>3 DEF LimiterInv

(* What is dropped is a window that is over.                               *)
LEMMA CleanupKeeps ==
  ASSUME LimiterInv, Cleanup
  PROVE  LimiterInv'
  <1>1. /\ now' = now /\ now \in Nat /\ passed' = passed
        /\ \A c \in Clients : entries'[c] = entries[c] \/
             (entries'[c] = NoEntry /\ now - entries[c].start > 2 * Window)
    BY RateAssumption DEF LimiterInv, LimiterTypeOK, Cleanup
  <1>2. LimiterTypeOK'
    BY <1>1, RateAssumption DEF LimiterInv, LimiterTypeOK, Cleanup, NoEntry
  <1>3. ASSUME NEW c \in Clients
        PROVE  WindowOK(c)' /\ InOrder(c)' /\ WindowsFollow(c)'
    <2>1. InOrder(c)'
      BY <1>1 DEF LimiterInv, InOrder
    <2>2. CASE entries'[c] = entries[c]
      <3>1. WindowOK(c)'
        BY <1>1, <2>2 DEF LimiterInv, WindowOK, Opener
      <3>2. \A s \in 1..Len(passed[c]) : Opened(c, s) => Opened(c, s)'
        BY <1>1, <2>2 DEF Opened, Opener
      <3>3. WindowsFollow(c)'
        BY <1>1, <3>2 DEF LimiterInv, WindowsFollow
      <3>4. QED
        BY <2>1, <3>1, <3>3
    <2>3. CASE entries'[c] = NoEntry /\ now - entries[c].start > 2 * Window
      <3>1. WindowOK(c)'
        BY <2>3 DEF WindowOK
      <3>2. ASSUME NEW s \in 1..Len(passed[c]), Opened(c, s)
            PROVE  Opened(c, s)'
        <4>1. CASE now - passed[c][s] > Window
          BY <1>1, <3>2, <4>1 DEF Opened
        <4>2. CASE entries[c] # NoEntry /\ s = Opener(c)
          <5>1. passed[c][s] = entries[c].start
            BY <4>2 DEF LimiterInv, WindowOK
          <5>2. now - passed[c][s] > Window
            BY <1>1, <2>3, <5>1, RateAssumption DEF LimiterInv, LimiterTypeOK
          <5>3. QED
            BY <1>1, <3>2, <5>2 DEF Opened
        <4>3. QED
          BY <3>2, <4>1, <4>2 DEF Opened
      <3>3. WindowsFollow(c)'
        BY <1>1, <3>2 DEF LimiterInv, WindowsFollow
      <3>4. QED
        BY <2>1, <3>1, <3>3
    <2>4. QED
      BY <1>1, <2>2, <2>3
  <1>4. QED
    BY <1>2, <1>3 DEF LimiterInv

(* One more request leaves the opener of its window where it was, less     *)
(* than the rate behind.                                                   *)
LEMMA OpenerStands ==
  ASSUME NEW n \in Nat, NEW c \in 1..Rate
  PROVE  /\ n + 1 - (c + 1) + 1 = n - c + 1
         /\ c <= n => n - c + 1 \in 1..n /\ c + 1 <= n + 1
         /\ c < Rate => n - c + 1 + Rate > n + 1 /\ c + 1 \in 1..Rate
  BY RateAssumption

LEMMA OneMoreCounted ==
  ASSUME NEW T, NEW e \in [count : Nat, start : T]
  PROVE  [e EXCEPT !.count = @ + 1] = [count |-> e.count + 1, start |-> e.start]
  OBVIOUS

(* A request that is let through opens a window, or is at most the rate-th *)
(* of one; either way the opener of its window is close behind.            *)
LEMMA LetThroughKeeps ==
  ASSUME LimiterInv, NEW k \in Clients, LetThrough(k)
  PROVE  LimiterInv'
  <1> DEFINE e == entries[k]
             p == passed[k]
             n == Len(p)
  <1>1. /\ now' = now /\ now \in Nat /\ n \in Nat /\ Rate \in Nat /\ Rate > 0 /\ Window \in Nat
        /\ e.count \in Nat /\ e.start \in Nat
    BY RateAssumption DEF LimiterInv, LimiterTypeOK, LetThrough
  <1>2. \A i \in 1..n : p[i] \in Nat
    BY RateAssumption DEF LimiterInv, LimiterTypeOK
  <1>3. /\ now' = now /\ now \in 0..MaxTime /\ p \in Seq(0..MaxTime)
        /\ MaxTime \in Nat
        /\ e \in [count : Nat, start : 0..MaxTime]
    BY RateAssumption DEF LimiterInv, LimiterTypeOK, LetThrough
  <1>4. /\ passed' = [passed EXCEPT ![k] = Append(p, now)]
        /\ passed'[k] = Append(p, now)
        /\ \A c \in Clients \ {k} : passed'[c] = passed[c] /\ entries'[c] = entries[c]
    BY DEF LetThrough, LimiterInv, LimiterTypeOK
  <1>5. /\ Len(passed'[k]) = n + 1 /\ passed'[k][n + 1] = now
        /\ \A i \in 1..n : passed'[k][i] = p[i]
    BY <1>1, <1>3, <1>4
  <1>6. \/ entries'[k] = [count |-> 1, start |-> now] /\ (e = NoEntry \/ now - e.start > Window)
        \/ e # NoEntry /\ entries'[k] = [count |-> e.count + 1, start |-> e.start]
             /\ e.count < Rate
    <2>1. CASE e = NoEntry \/ WindowIsOver(e)
      <3>1. entries' = [entries EXCEPT ![k] = [count |-> 1, start |-> now]]
        BY <2>1 DEF LetThrough
      <3>2. QED
        BY <2>1, <3>1 DEF LimiterInv, LimiterTypeOK, WindowIsOver
    <2>2. CASE e # NoEntry /\ ~WindowIsOver(e)
      <3>1. entries' = [entries EXCEPT ![k] = [e EXCEPT !.count = @ + 1]]
        BY <2>2 DEF LetThrough
      <3>2. e.count < Rate
        BY <1>1, <2>2 DEF LetThrough, IsRefused
      <3>3. [e EXCEPT !.count = @ + 1] = [count |-> e.count + 1, start |-> e.start]
        BY <1>3, OneMoreCounted, Zenon
      <3>4. QED
        BY <2>2, <3>1, <3>2, <3>3 DEF LimiterInv, LimiterTypeOK
    <2>3. QED
      BY <2>1, <2>2
  <1>7. Opener(k)' = n + 1 - entries'[k].count + 1
    <2>1. Len(passed'[k]) = n + 1
      BY <1>5
    <2>2. entries'[k].count \in Nat /\ Len(passed'[k]) \in Nat
      BY <1>1, <1>5, <1>6
    <2>3. QED
      BY <2>1, <2>2, SMTT(30) DEF Opener
  <1>8. LimiterTypeOK'
    <2>1. entries'[k] \in [count : Nat, start : 0..MaxTime]
      BY <1>3, <1>6
    <2>2. DOMAIN entries' = Clients /\ entries' = [c \in Clients |-> entries'[c]]
      BY DEF LetThrough, LimiterInv, LimiterTypeOK
    <2>3. entries' \in [Clients -> [count : Nat, start : 0..MaxTime]]
      BY <1>4, <2>1, <2>2 DEF LimiterInv, LimiterTypeOK
    <2>4. passed' \in [Clients -> Seq(0..MaxTime)]
      BY <1>3, <1>4 DEF LimiterInv, LimiterTypeOK
    <2>5. QED
      BY <1>3, <2>3, <2>4 DEF LimiterTypeOK
  <1>9. ASSUME NEW c \in Clients \ {k}
        PROVE  WindowOK(c)' /\ InOrder(c)' /\ WindowsFollow(c)'
    <2>1. \A s \in 1..Len(passed[c]) : Opened(c, s) => Opened(c, s)'
      BY <1>1, <1>4 DEF Opened, Opener
    <2>2. QED
      BY <1>1, <1>4, <2>1 DEF LimiterInv, WindowOK, InOrder, WindowsFollow, Opener
  <1>10. WindowOK(k)'
    <2>1. CASE entries'[k] = [count |-> 1, start |-> now]
      BY <1>1, <1>5, <2>1 DEF WindowOK, Opener
    <2>2. CASE e # NoEntry /\ entries'[k] = [count |-> e.count + 1, start |-> e.start]
                 /\ e.count < Rate
      <3>1. /\ e.count \in 1..Rate /\ e.count <= n /\ p[n - e.count + 1] = e.start
        BY <2>2 DEF LimiterInv, WindowOK, Opener
      <3>2. entries'[k].count = e.count + 1 /\ entries'[k].start = e.start
        BY <2>2
      <3>3. Opener(k)' = n - e.count + 1 /\ n - e.count + 1 \in 1..n
        <4>1. Opener(k)' = n + 1 - (e.count + 1) + 1
          BY <1>7, <3>2, Zenon
        <4>2. QED
          BY <1>1, <3>1, <4>1, OpenerStands, Zenon
      <3>4. entries'[k].count \in 1..Rate /\ entries'[k].count <= Len(passed'[k])
        BY <1>1, <1>5, <2>2, <3>1, <3>2, OpenerStands, Zenon
      <3>5. passed'[k][Opener(k)'] = entries'[k].start
        BY <1>5, <3>1, <3>2, <3>3
      <3>6. QED
        BY <3>4, <3>5 DEF WindowOK
    <2>3. QED
      BY <1>6, <2>1, <2>2
  <1>11. InOrder(k)'
    <2>1. ASSUME NEW i \in 1..(n + 1)
          PROVE  passed'[k][i] <= now
      <3>1. CASE i = n + 1
        BY <1>1, <1>5, <3>1
      <3>2. CASE i \in 1..n
        <4>1. p[i] <= now
          BY <3>2 DEF LimiterInv, InOrder
        <4>2. QED
          BY <1>5, <3>2, <4>1
      <3>3. QED
        BY <1>1, <3>1, <3>2
    <2>2. ASSUME NEW i \in 1..(n + 1), NEW j \in 1..(n + 1), i <= j
          PROVE  passed'[k][i] <= passed'[k][j]
      <3>1. CASE j = n + 1
        BY <1>5, <2>1, <3>1
      <3>2. CASE j # n + 1
        <4>1. i \in 1..n /\ j \in 1..n
          BY <1>1, <2>2, <3>2
        <4>2. QED
          BY <1>5, <2>2, <4>1 DEF LimiterInv, InOrder
      <3>3. QED
        BY <3>1, <3>2
    <2>3. QED
      BY <1>1, <1>5, <2>1, <2>2 DEF InOrder
  <1>12. WindowsFollow(k)'
    <2>1. /\ entries'[k] # NoEntry /\ Opener(k)' \in 1..(n + 1)
          /\ Opener(k)' + Rate > n + 1
      <3>1. entries'[k].count \in 1..Rate /\ entries'[k].count <= n + 1
        <4>1. CASE entries'[k] = [count |-> 1, start |-> now]
          BY <1>1, <4>1
        <4>2. CASE e # NoEntry /\ entries'[k] = [count |-> e.count + 1, start |-> e.start]
                     /\ e.count < Rate
          BY <1>1, <4>2 DEF LimiterInv, WindowOK
        <4>3. QED
          BY <1>6, <4>1, <4>2
      <3>2. Opener(k)' \in 1..(n + 1) /\ Opener(k)' + Rate > n + 1
        BY <1>1, <1>7, <3>1
      <3>3. entries'[k] # NoEntry
        BY <3>1 DEF NoEntry
      <3>4. QED
        BY <3>2, <3>3
    <2>2. Opened(k, Opener(k))'
      BY <1>1, <1>5, <2>1 DEF Opened
    <2>3. ASSUME NEW s \in 1..n, Opened(k, s)
          PROVE  Opened(k, s)'
      <3>1. passed'[k][s] = p[s]
        BY <1>5
      <3>2. ASSUME NEW j \in 1..(n + 1), j >= s + Rate, now - p[s] > Window
            PROVE  passed'[k][j] - passed'[k][s] > Window
        <4>1. CASE j = n + 1
          BY <1>5, <3>1, <3>2, <4>1
        <4>2. CASE j # n + 1
          <5>1. j \in 1..n
            BY <1>1, <4>2
          <5>2. QED
            BY <1>5, <2>3, <3>1, <3>2, <5>1 DEF Opened
        <4>3. QED
          BY <4>1, <4>2
      <3>3. CASE now - p[s] > Window
        <4>1. \A j \in 1..(n + 1) : j >= s + Rate => passed'[k][j] - passed'[k][s] > Window
          BY <3>3, <3>2
        <4>2. now' - passed'[k][s] > Window
          BY <1>1, <3>1, <3>3
        <4>3. QED
          BY <1>5, <4>1, <4>2 DEF Opened
      <3>4. CASE e # NoEntry /\ s = Opener(k)
        <4>1. p[s] = e.start /\ e.count \in 1..Rate
          BY <3>4 DEF LimiterInv, WindowOK
        <4>2. CASE now - e.start > Window
          BY <3>3, <4>1, <4>2
        <4>3. CASE entries'[k] = [count |-> e.count + 1, start |-> e.start] /\ e.count < Rate
          <5>1. Opener(k)' = s /\ s + Rate > n + 1
            <6>1. entries'[k].count = e.count + 1 /\ s = n - e.count + 1
              BY <3>4, <4>3 DEF Opener
            <6>2. Opener(k)' = n + 1 - (e.count + 1) + 1
              BY <1>7, <6>1
            <6>3. QED
              BY <1>1, <4>1, <4>3, <6>1, <6>2, OpenerStands, Zenon
          <5>2. QED
            BY <1>1, <1>5, <2>1, <5>1 DEF Opened
        <4>4. QED
          BY <1>6, <3>4, <4>2, <4>3
      <3>5. QED
        BY <2>3, <3>3, <3>4 DEF Opened
    <2>4. ASSUME NEW i \in 1..(n + 1), i + Rate <= n + 2
          PROVE  \E s \in 1..(n + 1) : i <= s /\ s < i + Rate /\ Opened(k, s)'
      <3>1. CASE i + Rate <= n + 1
        <4>1. i \in 1..n
          BY <1>1, <3>1
        <4>2. PICK s \in 1..n : i <= s /\ s < i + Rate /\ Opened(k, s)
          BY <3>1, <4>1 DEF LimiterInv, WindowsFollow
        <4>3. QED
          BY <1>1, <2>3, <4>2
      <3>2. CASE i + Rate = n + 2
        <4>1. i <= Opener(k)' /\ Opener(k)' < i + Rate
          BY <1>1, <2>1, <3>2
        <4>2. QED
          BY <2>1, <2>2, <4>1
      <3>3. i + Rate <= n + 1 \/ i + Rate = n + 2
        BY <1>1, <2>4
      <3>4. QED
        BY <3>1, <3>2, <3>3
    <2>5. QED
      BY <1>5, <2>4 DEF WindowsFollow
  <1>13. QED
    BY <1>8, <1>9, <1>10, <1>11, <1>12 DEF LimiterInv

(* A request that is refused changes nothing.                              *)
LEMMA StutterKeeps ==
  ASSUME LimiterInv, UNCHANGED limiterVars
  PROVE  LimiterInv'
  BY DEF LimiterInv, LimiterTypeOK, WindowOK, InOrder, WindowsFollow, Opened, Opener

LEMMA InitHasInv ==
  ASSUME entries = [c \in Clients |-> NoEntry], passed = [c \in Clients |-> <<>>],
         now \in 0..MaxTime
  PROVE  LimiterInv
  <1>1. LimiterTypeOK
    BY RateAssumption DEF LimiterTypeOK, NoEntry
  <1>2. \A c \in Clients : entries[c] = NoEntry /\ Len(passed[c]) = 0
    OBVIOUS
  <1>3. QED
    BY <1>1, <1>2 DEF LimiterInv, WindowOK, InOrder, WindowsFollow

-----------------------------------------------------------------------------
(* However a client places its requests, and whenever its window is        *)
(* dropped, less than twice the rate passes in any interval of a window's  *)
(* length.  (auth.go, RateLimitMiddleware)                                 *)
THEOREM BurstsHold == LimiterSpec => []BurstIsBounded
  <1>1. LimiterInit => LimiterInv
    BY InitHasInv, RateAssumption DEF LimiterInit
  <1>2. LimiterInv /\ [LimiterNext]_limiterVars => LimiterInv'
    BY TickKeeps, CleanupKeeps, LetThroughKeeps, StutterKeeps DEF LimiterNext, Refuse
  <1>3. LimiterInv => BurstIsBounded
    BY BoundFollows
  <1>4. QED
    BY <1>1, <1>2, <1>3, PTL DEF LimiterSpec

HIDE DEF limiterVars

-----------------------------------------------------------------------------
(* The gateway: its inductive invariant. *)

USE DEF queueVars, vars

Proxied(r) == msg[r].via = "proxy"

Cleared(r) ==
  /\ ~msg[r].pii
  /\ \/ Verdict[msg[r]] = ActionAllow
     \/ Verdict[msg[r]] = ActionPending /\ Approved(r)

Told(r) ==
  LET d == Verdict[msg[r]]
      e == Last(events[r])
  IN  /\ e \in {"allow", "deny"}
      /\ e = "allow" => d = ActionAllow \/ (d = ActionPending /\ Approved(r))
      /\ d = ActionAllow => e = "allow"

(* What is known of a request at each place of its handler.                *)
PlaceOK(r) ==
  /\ at[r] = "idle" => r \notin sent
  /\ outcome[r] = "approved" => Approved(r)
  /\ at[r] = "waiting" =>
       /\ Verdict[msg[r]] = ActionPending
       /\ (Proxied(r) /\ ~msg[r].pii) \/ IsToolCall(r)
  /\ at[r] = "stream" => Proxied(r)
  /\ at[r] = "route" /\ Proxied(r) => Cleared(r)
  /\ r \in sent /\ Proxied(r) => Cleared(r)
  /\ at[r] \in {"route", "upstream", "done"} /\ IsToolCall(r) => Told(r)

Held == {r \in Requests : at[r] = "waiting" /\ IsToolCall(r)}

IInv ==
  /\ TypeOK /\ msg = [r \in Requests |-> msg[r]]
  /\ \A r \in Requests : PlaceOK(r)
  /\ CallsAreCounted
  /\ LimiterInv

LEMMA InvImplies ==
  ASSUME IInv
  PROVE  UpstreamWasCleared /\ VerdictIsReported
  BY DEF IInv, PlaceOK, Cleared, Told, Proxied, TypeOK, UpstreamWasCleared, VerdictIsReported

-----------------------------------------------------------------------------
(* What a step leaves alone *)

(* A request nobody touches keeps what is known of it: operators only add  *)
(* to what they asked for.                                                 *)
LEMMA PlaceStays ==
  ASSUME NEW r, PlaceOK(r), asked \subseteq asked',
         at'[r] = at[r], msg'[r] = msg[r], events'[r] = events[r],
         outcome'[r] = outcome[r], r \in sent' <=> r \in sent
  PROVE  PlaceOK(r)'
  BY DEF PlaceOK, Cleared, Told, Proxied, IsToolCall, Approved

(* A step of one handler is judged by what it does to its own request.     *)
LEMMA OthersStay ==
  ASSUME IInv, NEW r \in Requests, TypeOK', msg' = [q \in Requests |-> msg'[q]],
         asked \subseteq asked',
         \A q \in Requests \ {r} :
           /\ at'[q] = at[q] /\ msg'[q] = msg[q] /\ events'[q] = events[q]
           /\ outcome'[q] = outcome[q] /\ (q \in sent' <=> q \in sent),
         PlaceOK(r)', CallsAreCounted', UNCHANGED limiterVars
  PROVE  IInv'
  <1>1. \A q \in Requests : PlaceOK(q)'
    BY PlaceStays DEF IInv
  <1>2. LimiterInv'
    BY StutterKeeps DEF IInv
  <1>3. QED
    BY <1>1, <1>2 DEF IInv

-----------------------------------------------------------------------------
(* The calls that are held are counted with those that were decided *)

LEMMA HeldIsFinite ==
  IsFiniteSet(Held)
  <1>1. Held \subseteq Requests
    BY DEF Held
  <1>2. QED
    BY <1>1, GatewayAssumption, FS_Subset

LEMMA HeldJoins ==
  ASSUME NEW r, r \notin Held, Held' = Held \cup {r}
  PROVE  Cardinality(Held') = Cardinality(Held) + 1
  BY HeldIsFinite, FS_AddElement

LEMMA HeldLeaves ==
  ASSUME NEW r, r \in Held, Held' = Held \ {r}
  PROVE  Cardinality(Held') = Cardinality(Held) - 1
  BY HeldIsFinite, FS_RemoveElement

LEMMA HeldIsCounted ==
  /\ Cardinality(Held) \in Nat
  /\ CallsAreCounted <=>
       count["total"] = count["blocked"] + count["allowed"] + count["approved"] + Cardinality(Held)
  BY HeldIsFinite, FS_CardinalityType DEF CallsAreCounted, Held

-----------------------------------------------------------------------------
(* The parts of a step *)

(* The handler goes on: its request is at the place p.                     *)
LEMMA GoMoves ==
  ASSUME IInv, NEW r \in Requests, NEW p \in Places, NEW status \in Nat, Go(r, p, status)
  PROVE  /\ at' \in [Requests -> Places] /\ answer' \in [Requests -> Nat]
         /\ at'[r] = p /\ \A q \in Requests \ {r} : at'[q] = at[q]
  BY DEF IInv, TypeOK, Go

(* A report is the last event of its request.                              *)
LEMMA ReportAdds ==
  ASSUME IInv, NEW r \in Requests, NEW d \in {"allow", "deny", "pending"}, Reported(r, d)
  PROVE  /\ events' \in [Requests -> Seq({"allow", "deny", "pending"})]
         /\ Last(events'[r]) = d /\ \A q \in Requests \ {r} : events'[q] = events[q]
  <1>1. /\ events' = [events EXCEPT ![r] = Append(@, d)]
        /\ events \in [Requests -> Seq({"allow", "deny", "pending"})]
    BY DEF IInv, TypeOK, Reported
  <1>2. /\ events'[r] = Append(events[r], d)
        /\ events[r] \in Seq({"allow", "deny", "pending"})
    BY <1>1
  <1>3. Last(Append(events[r], d)) = d
    BY <1>2 DEF Last
  <1>4. QED
    BY <1>1, <1>2, <1>3

(* Counting adds one where it says so.                                     *)
LEMMA CountAdds ==
  ASSUME IInv, NEW K, Counted(K)
  PROVE  /\ count' \in [Counters -> Nat]
         /\ \A k \in Counters : count[k] \in Nat
         /\ \A k \in Counters : k \in K => count'[k] = count[k] + 1
         /\ \A k \in Counters : k \notin K => count'[k] = count[k]
  BY DEF IInv, TypeOK, Counted

(* A step that neither counts nor moves a held call keeps the account.     *)
LEMMA AccountStays ==
  ASSUME IInv, count' = count, Held' = Held
  PROVE  CallsAreCounted'
  <1>1. CallsAreCounted' <=>
          count'["total"] = count'["blocked"] + count'["allowed"] + count'["approved"]
                              + Cardinality(Held')
    BY DEF CallsAreCounted, Held
  <1>2. QED
    BY <1>1, HeldIsCounted DEF IInv

-----------------------------------------------------------------------------
(* Handlers *)

LEMMA ArriveKeeps ==
  ASSUME IInv, NEW r \in Requests, Arrive(r), UNCHANGED <<restarts, limiterVars>>
  PROVE  IInv'
  <1>1. /\ at[r] = "idle" /\ Go(r, "gate", 0) /\ events' = events /\ count' = count
        /\ outcome' = outcome /\ asked' = asked /\ late' = late /\ sent' = sent
    BY DEF Arrive, Unreported, Unasked
  <1>2. PICK m \in Messages[r] : msg' = [msg EXCEPT ![r] = m]
    BY DEF Arrive
  <1>3. /\ at' \in [Requests -> Places] /\ answer' \in [Requests -> Nat]
        /\ at'[r] = "gate" /\ \A q \in Requests \ {r} : at'[q] = at[q]
    <2>1. "gate" \in Places /\ 0 \in Nat
      BY DEF Places
    <2>2. QED
      BY <1>1, <2>1, GoMoves
  <1>4. /\ msg'[r] = m /\ \A q \in Requests \ {r} : msg'[q] = msg[q]
        /\ msg' = [q \in Requests |-> msg'[q]]
    BY <1>2 DEF IInv
  <1>5. TypeOK'
    BY <1>1, <1>3, <1>4 DEF IInv, TypeOK, LimiterTypeOK, limiterVars
  <1>6. PlaceOK(r)'
    BY <1>1, <1>3 DEF IInv, PlaceOK, Approved
  <1>7. CallsAreCounted'
    <2>1. Held' = Held
      BY <1>1, <1>3, <1>4 DEF Held, IsToolCall
    <2>2. QED
      BY <1>1, <2>1, AccountStays
  <1>8. QED
    BY <1>1, <1>3, <1>4, <1>5, <1>6, <1>7, OthersStay

(* Behind its gate a request is only carried on, and what goes upstream    *)
(* comes from the place before it.                                         *)
LEMMA OnwardKeeps ==
  ASSUME IInv, NEW r \in Requests, Onward(r), UNCHANGED <<restarts, limiterVars>>
  PROVE  IInv'
  <1>1. /\ events' = events /\ count' = count /\ msg' = msg
        /\ outcome' = outcome /\ asked' = asked /\ late' = late
    BY DEF Onward, Unreported, Unasked
  <1>2. \E p \in {"upstream", "stream", "done"} :
          /\ \E status \in Nat : Go(r, p, status)
          /\ \/ at[r] = "route" /\ p # "stream" /\ sent' \in {sent, sent \cup {r}}
             \/ at[r] = "upstream" /\ sent' = sent /\ (p = "stream" => Proxied(r))
             \/ at[r] = "stream" /\ p = "done" /\ sent' = sent
    <2>1. answer[r] \in Nat
      BY DEF IInv, TypeOK
    <2>2. CASE Unrouted(r)
      BY <2>2 DEF Unrouted
    <2>3. CASE Routed(r)
      BY <2>1, <2>3 DEF Routed, Send
    <2>4. CASE ProxyForward(r)
      BY <2>1, <2>4 DEF ProxyForward, Send
    <2>5. CASE ForwardFails(r) \/ ForwardAnswers(r)
      BY <2>5 DEF ForwardFails, ForwardAnswers
    <2>6. CASE StreamStarts(r) \/ StreamEnds(r)
      BY <2>6 DEF StreamStarts, StreamEnds, Proxied
    <2>7. QED
      BY <2>2, <2>3, <2>4, <2>5, <2>6 DEF Onward
  <1>3. PICK p \in {"upstream", "stream", "done"}, status \in Nat :
          /\ Go(r, p, status)
          /\ \/ at[r] = "route" /\ p # "stream" /\ sent' \in {sent, sent \cup {r}}
             \/ at[r] = "upstream" /\ sent' = sent /\ (p = "stream" => Proxied(r))
             \/ at[r] = "stream" /\ p = "done" /\ sent' = sent
    BY <1>2
  <1>4. /\ at' \in [Requests -> Places] /\ answer' \in [Requests -> Nat]
        /\ at'[r] = p /\ \A q \in Requests \ {r} : at'[q] = at[q]
    BY <1>3, GoMoves DEF Places
  <1>5. TypeOK'
    BY <1>1, <1>3, <1>4 DEF IInv, TypeOK, LimiterTypeOK, limiterVars
  <1>6. PlaceOK(r)'
    <2>1. PlaceOK(r)
      BY DEF IInv
    <2>2. /\ Cleared(r)' <=> Cleared(r)
          /\ Told(r)' <=> Told(r)
          /\ Proxied(r)' <=> Proxied(r)
          /\ IsToolCall(r)' <=> IsToolCall(r)
          /\ Approved(r)' <=> Approved(r)
      BY <1>1 DEF Cleared, Told, Proxied, IsToolCall, Approved
    <2>3. Proxied(r) => ~IsToolCall(r)
      BY DEF Proxied, IsToolCall
    <2>4. QED
      BY <1>1, <1>3, <1>4, <2>1, <2>2, <2>3 DEF PlaceOK
  <1>7. CallsAreCounted'
    <2>1. Held' = Held
      BY <1>1, <1>3, <1>4 DEF Held, IsToolCall
    <2>2. QED
      BY <1>1, <2>1, AccountStays
  <1>8. \A q \in Requests \ {r} : q \in sent' <=> q \in sent
    BY <1>3
  <1>9. msg' = [q \in Requests |-> msg'[q]]
    BY <1>1 DEF IInv
  <1>10. QED
    BY <1>1, <1>4, <1>5, <1>6, <1>7, <1>8, <1>9, OthersStay

(* At its gate a request is judged.  The first half: what leaves the       *)
(* telemetry and the metrics alone.                                        *)
LEMMA QuietGateKeeps ==
  ASSUME IInv, NEW r \in Requests, UNCHANGED <<msg, sent, restarts, limiterVars>>,
         HandleJSONRPC(r) \/ Intercept(r) \/ InterceptDecided(r)
  PROVE  IInv'
  <1>1. /\ events' = events /\ count' = count /\ ~IsToolCall(r)
        /\ at[r] \in {"gate", "waiting"}
    BY DEF HandleJSONRPC, Intercept, InterceptDecided, AtGate, Unreported, IsToolCall
  <1>2. \E p \in {"route", "waiting", "done"}, status \in Nat :
          /\ Go(r, p, status)
          /\ p = "waiting" => Proxied(r) /\ ~msg[r].pii /\ Verdict[msg[r]] = ActionPending
          /\ p = "route" /\ Proxied(r) => Cleared(r)
    <2>1. CASE HandleJSONRPC(r)
      BY <2>1 DEF HandleJSONRPC, AtGate, Proxied
    <2>2. CASE Intercept(r)
      BY <2>2 DEF Intercept, AtGate, Proxied, Cleared
    <2>3. CASE InterceptDecided(r)
      <3>1. at[r] = "waiting" /\ Proxied(r) /\ PlaceOK(r)
        BY <2>3 DEF InterceptDecided, Proxied, IInv
      <3>2. ~msg[r].pii /\ Verdict[msg[r]] = ActionPending
        BY <3>1 DEF PlaceOK, Proxied, IsToolCall
      <3>3. outcome[r] = "approved" => Cleared(r)
        BY <3>1, <3>2 DEF PlaceOK, Cleared
      <3>4. ExpiredStatus(msg[r]) \in Nat
        BY DEF ExpiredStatus
      <3>5. QED
        BY <2>3, <3>1, <3>3, <3>4 DEF InterceptDecided
    <2>4. QED
      BY <2>1, <2>2, <2>3
  <1>3. PICK p \in {"route", "waiting", "done"}, status \in Nat :
          /\ Go(r, p, status)
          /\ p = "waiting" => Proxied(r) /\ ~msg[r].pii /\ Verdict[msg[r]] = ActionPending
          /\ p = "route" /\ Proxied(r) => Cleared(r)
    BY <1>2
  <1>4. /\ at' \in [Requests -> Places] /\ answer' \in [Requests -> Nat]
        /\ at'[r] = p /\ \A q \in Requests \ {r} : at'[q] = at[q]
    BY <1>3, GoMoves DEF Places
  <1>5. /\ asked' = asked /\ late' = late
        /\ outcome' = outcome \/ outcome' = [outcome EXCEPT ![r] = "open"]
    BY DEF HandleJSONRPC, Intercept, InterceptDecided, Unasked, Queue!Ask
  <1>6. /\ outcome' \in [Requests -> {"none", "open", "lost"} \cup Queue!Answers]
        /\ outcome'[r] \in {outcome[r], "open"}
        /\ \A q \in Requests \ {r} : outcome'[q] = outcome[q]
    BY <1>5 DEF IInv, TypeOK
  <1>7. TypeOK'
    BY <1>1, <1>4, <1>5, <1>6 DEF IInv, TypeOK, LimiterTypeOK, limiterVars
  <1>8. PlaceOK(r)'
    <2>1. PlaceOK(r)
      BY DEF IInv
    <2>2. /\ Cleared(r)' <=> Cleared(r)
          /\ Proxied(r)' <=> Proxied(r)
          /\ IsToolCall(r)' <=> IsToolCall(r)
          /\ Approved(r)' <=> Approved(r)
      BY <1>5 DEF Cleared, Proxied, IsToolCall, Approved
    <2>3. QED
      BY <1>1, <1>3, <1>4, <1>6, <2>1, <2>2 DEF PlaceOK
  <1>9. CallsAreCounted'
    <2>1. Held' = Held
      BY <1>1, <1>4 DEF Held, IsToolCall
    <2>2. QED
      BY <1>1, <2>1, AccountStays
  <1>10. msg' = [q \in Requests |-> msg'[q]]
    BY DEF IInv
  <1>11. QED
    BY <1>1, <1>4, <1>5, <1>6, <1>7, <1>8, <1>9, <1>10, OthersStay

(* The other half: what is reported is the verdict, and the account moves  *)
(* with the call.  One of the sums below grows as the other does.          *)
Balanced(K, joins, leaves) ==
  LET One(b) == IF b THEN 1 ELSE 0 IN
  One("total" \in K) =
    One("blocked" \in K) + One("allowed" \in K) + One("approved" \in K) + One(joins) - One(leaves)

LEMMA AccountMoves ==
  ASSUME IInv, NEW r \in Requests, UNCHANGED msg, NEW K, Counted(K),
         \A q \in Requests \ {r} : at'[q] = at[q],
         Balanced(K, r \notin Held /\ r \in Held', r \in Held /\ r \notin Held')
  PROVE  CallsAreCounted'
  <1>1. /\ \A k \in Counters : count[k] \in Nat /\ count'[k] \in Nat
        /\ \A k \in Counters : k \in K => count'[k] = count[k] + 1
        /\ \A k \in Counters : k \notin K => count'[k] = count[k]
    BY CountAdds
  <1>2. \A q \in Requests \ {r} : q \in Held' <=> q \in Held
    BY DEF Held, IsToolCall
  <1>3. /\ Held \subseteq Requests /\ Held' \subseteq Requests
        /\ Cardinality(Held) \in Nat
    BY HeldIsCounted DEF Held
  <1> DEFINE One(b) == IF b THEN 1 ELSE 0
             joins == One(r \notin Held /\ r \in Held')
             leaves == One(r \in Held /\ r \notin Held')
  <1>4. Cardinality(Held') = Cardinality(Held) + joins - leaves
    <2>1. CASE r \notin Held /\ r \in Held'
      <3>1. Held' = Held \cup {r}
        BY <1>2, <1>3, <2>1
      <3>2. Cardinality(Held') = Cardinality(Held) + 1
        BY <2>1, <3>1, HeldJoins
      <3>3. QED
        BY <1>3, <2>1, <3>2
    <2>2. CASE r \in Held /\ r \notin Held'
      <3>1. Held' = Held \ {r}
        BY <1>2, <1>3, <2>2
      <3>2. Cardinality(Held') = Cardinality(Held) - 1
        BY <2>2, <3>1, HeldLeaves
      <3>3. QED
        BY <1>3, <2>2, <3>2
    <2>3. CASE r \in Held <=> r \in Held'
      <3>1. Held' = Held
        BY <1>2, <1>3, <2>3
      <3>2. QED
        BY <1>3, <2>3, <3>1
    <2>4. QED
      BY <2>1, <2>2, <2>3
  <1>5. \A k \in Counters : count'[k] = count[k] + One(k \in K)
    BY <1>1
  <1>6. {"total", "blocked", "allowed", "approved"} \subseteq Counters
    BY DEF Counters
  <1>7. One("total" \in K) =
          One("blocked" \in K) + One("allowed" \in K) + One("approved" \in K) + joins - leaves
    BY DEF Balanced
  <1>8. count["total"] = count["blocked"] + count["allowed"] + count["approved"] + Cardinality(Held)
    BY HeldIsCounted DEF IInv
  <1>9. count'["total"] = count'["blocked"] + count'["allowed"] + count'["approved"]
                            + Cardinality(Held')
    <2>1. /\ joins \in Nat /\ leaves \in Nat
          /\ One("total" \in K) \in Nat /\ One("blocked" \in K) \in Nat
          /\ One("allowed" \in K) \in Nat /\ One("approved" \in K) \in Nat
      OBVIOUS
    <2>2. HIDE DEF One, joins, leaves
    <2>3. QED
      BY <1>1, <1>3, <1>4, <1>5, <1>6, <1>7, <1>8, <2>1
  <1>10. QED
    BY <1>9 DEF CallsAreCounted, Held

(* What such a step comes to: the place it goes on to, what it reports and *)
(* what it counts.                                                         *)
Judged(r, p, d, K) ==
  /\ \E status \in Nat : Go(r, p, status)
  /\ Reported(r, d) /\ Counted(K)
  /\ p = "waiting" => Verdict[msg[r]] = ActionPending /\ IsToolCall(r)
  /\ p # "waiting" /\ IsToolCall(r) =>
       /\ d \in {"allow", "deny"}
       /\ d = "allow" =>
            Verdict[msg[r]] = ActionAllow \/ (Verdict[msg[r]] = ActionPending /\ Approved(r))
       /\ Verdict[msg[r]] = ActionAllow => d = "allow"
  /\ Balanced(K, r \notin Held /\ p = "waiting", r \in Held /\ p # "waiting")

LEMMA LoudIsJudged ==
  ASSUME IInv, NEW r \in Requests,
         handleToolsCall(r) \/ handleApproval(r) \/ handleResourcesRead(r)
  PROVE  \E p \in {"route", "waiting", "done"}, d \in {"allow", "deny", "pending"},
            K \in SUBSET Counters : Judged(r, p, d, K)
  <1> USE DEF Judged
  <1>1. CASE handleToolsCall(r)
    <2>1. r \notin Held /\ IsToolCall(r)
      BY <1>1 DEF handleToolsCall, AtGate, Held, IsToolCall
    <2>2. CASE Verdict[msg[r]] = ActionBlock
      <3>1. /\ Go(r, "route", 403) /\ Reported(r, "deny") /\ Counted({"total", "blocked"})
        <4>1. ReportOf(ActionBlock) = "deny" /\ {"total"} \cup CounterOf(ActionBlock) = {"total", "blocked"}
          BY DEF ReportOf, CounterOf, ActionAllow, ActionBlock
        <4>2. QED
          BY <1>1, <2>2, <4>1 DEF handleToolsCall, ActionAllow, ActionBlock, ActionPending
      <3>2. Balanced({"total", "blocked"}, r \notin Held /\ "route" = "waiting",
                     r \in Held /\ "route" # "waiting")
        BY <2>1 DEF Balanced
      <3>3. Judged(r, "route", "deny", {"total", "blocked"})
        BY <2>1, <2>2, <3>1, <3>2 DEF ActionAllow, ActionBlock
      <3>4. QED
        BY <3>3 DEF Counters
    <2>3. CASE Verdict[msg[r]] = ActionAllow
      <3>1. /\ Go(r, "route", 0) /\ Reported(r, "allow") /\ Counted({"total", "allowed"})
        <4>1. ReportOf(ActionAllow) = "allow" /\ {"total"} \cup CounterOf(ActionAllow) = {"total", "allowed"}
          BY DEF ReportOf, CounterOf, ActionAllow, ActionBlock
        <4>2. QED
          BY <1>1, <2>3, <4>1 DEF handleToolsCall, ActionAllow, ActionBlock, ActionPending
      <3>2. Balanced({"total", "allowed"}, FALSE, FALSE)
        BY DEF Balanced
      <3>3. Judged(r, "route", "allow", {"total", "allowed"})
        BY <2>1, <2>3, <3>1, <3>2
      <3>4. QED
        BY <3>3 DEF Counters
    <2>4. CASE Verdict[msg[r]] = ActionPending
      <3>1. /\ Go(r, "waiting", 0) /\ Reported(r, "pending") /\ Counted({"total"})
        <4>1. ReportOf(ActionPending) = "pending" /\ {"total"} \cup CounterOf(ActionPending) = {"total"}
          BY DEF ReportOf, CounterOf, ActionAllow, ActionBlock, ActionPending
        <4>2. QED
          BY <1>1, <2>4, <4>1 DEF handleToolsCall, ActionAllow, ActionBlock, ActionPending
      <3>2. Balanced({"total"}, TRUE, FALSE)
        BY DEF Balanced
      <3>3. Judged(r, "waiting", "pending", {"total"})
        BY <2>1, <2>4, <3>1, <3>2
      <3>4. QED
        BY <3>3 DEF Counters
    <2>5. QED
      BY <1>1, <2>2, <2>3, <2>4 DEF handleToolsCall
  <1>2. CASE handleApproval(r)
    <2>1. /\ r \in Held /\ IsToolCall(r) /\ Verdict[msg[r]] = ActionPending
          /\ outcome[r] = "approved" => Approved(r)
      BY <1>2 DEF handleApproval, IInv, PlaceOK, Proxied, IsToolCall, Held
    <2>2. /\ Balanced({"approved"}, r \notin Held /\ "done" = "waiting",
                       r \in Held /\ "done" # "waiting")
          /\ Balanced({"blocked"}, r \notin Held /\ "route" = "waiting",
                       r \in Held /\ "route" # "waiting")
      BY <2>1 DEF Balanced
    <2>3. \/ /\ Go(r, "done", 404) /\ Reported(r, "allow") /\ Counted({"approved"})
             /\ outcome[r] = "approved"
          \/ /\ \E status \in {403, 408} : Go(r, "route", status)
             /\ Reported(r, "deny") /\ Counted({"blocked"})
      BY <1>2 DEF handleApproval
    <2>4. \/ Judged(r, "done", "allow", {"approved"})
          \/ Judged(r, "route", "deny", {"blocked"})
      BY <2>1, <2>2, <2>3 DEF ActionAllow, ActionPending
    <2>5. QED
      BY <2>4 DEF Counters
  <1>3. CASE handleResourcesRead(r)
    <2>1. r \notin Held /\ ~IsToolCall(r)
      BY <1>3 DEF handleResourcesRead, AtGate, Held, IsToolCall
    <2>2. Balanced({"reads"}, FALSE, FALSE)
      BY DEF Balanced
    <2>3. PICK d \in {"allow", "deny", "pending"} : Reported(r, d) /\ Counted({"reads"})
      BY <1>3 DEF handleResourcesRead, ReportOf
    <2>4. PICK p \in {"route", "done"}, status \in Nat : Go(r, p, status)
      BY <1>3 DEF handleResourcesRead
    <2>5. Judged(r, p, d, {"reads"})
      BY <2>1, <2>2, <2>3, <2>4
    <2>6. QED
      BY <2>5 DEF Counters
  <1>4. QED
    BY <1>1, <1>2, <1>3

LEMMA LoudGateKeeps ==
  ASSUME IInv, NEW r \in Requests, UNCHANGED <<msg, sent, restarts, limiterVars>>,
         handleToolsCall(r) \/ handleApproval(r) \/ handleResourcesRead(r)
  PROVE  IInv'
  <1>1. PICK p \in {"route", "waiting", "done"}, d \in {"allow", "deny", "pending"},
             K \in SUBSET Counters : Judged(r, p, d, K)
    BY LoudIsJudged
  <1>2. ~Proxied(r) /\ at[r] \in {"gate", "waiting"}
    BY DEF handleToolsCall, handleApproval, handleResourcesRead, AtGate, Proxied
  <1>3. /\ at' \in [Requests -> Places] /\ answer' \in [Requests -> Nat]
        /\ at'[r] = p /\ \A q \in Requests \ {r} : at'[q] = at[q]
    BY <1>1, GoMoves DEF Judged, Places
  <1>4. /\ events' \in [Requests -> Seq({"allow", "deny", "pending"})]
        /\ Last(events'[r]) = d /\ \A q \in Requests \ {r} : events'[q] = events[q]
    BY <1>1, ReportAdds DEF Judged
  <1>5. /\ asked' = asked /\ late' = late
        /\ outcome' = outcome \/ outcome' = [outcome EXCEPT ![r] = "open"]
    BY DEF handleToolsCall, handleApproval, handleResourcesRead, Unasked, Queue!Ask
  <1>6. /\ outcome' \in [Requests -> {"none", "open", "lost"} \cup Queue!Answers]
        /\ outcome'[r] \in {outcome[r], "open"}
        /\ \A q \in Requests \ {r} : outcome'[q] = outcome[q]
    BY <1>5 DEF IInv, TypeOK
  <1>7. count' \in [Counters -> Nat]
    BY <1>1, CountAdds DEF Judged
  <1>8. TypeOK'
    BY <1>3, <1>4, <1>5, <1>6, <1>7 DEF IInv, TypeOK, LimiterTypeOK, limiterVars
  <1>9. PlaceOK(r)'
    <2>1. PlaceOK(r)
      BY DEF IInv
    <2>2. /\ ~Proxied(r)'
          /\ IsToolCall(r)' <=> IsToolCall(r)
          /\ Approved(r)' <=> Approved(r)
      BY <1>2, <1>5 DEF Proxied, IsToolCall, Approved
    <2>3. p # "waiting" /\ IsToolCall(r) => Told(r)'
      BY <1>1, <1>4, <2>2 DEF Judged, Told
    <2>4. QED
      BY <1>1, <1>3, <1>6, <2>1, <2>2, <2>3 DEF PlaceOK, Judged
  <1>10. CallsAreCounted'
    <2>1. r \in Held' <=> p = "waiting"
      BY <1>1, <1>3 DEF Held, IsToolCall, Judged
    <2>2. Balanced(K, r \notin Held /\ r \in Held', r \in Held /\ r \notin Held')
      BY <1>1, <2>1 DEF Judged
    <2>3. QED
      BY <1>1, <1>3, <2>2, AccountMoves DEF Judged
  <1>11. msg' = [q \in Requests |-> msg'[q]]
    BY DEF IInv
  <1>12. QED
    BY <1>3, <1>4, <1>5, <1>6, <1>8, <1>9, <1>10, <1>11, OthersStay

-----------------------------------------------------------------------------
(* Operators, the queue and restarts *)

(* A step that leaves all handlers alone is judged by the queue's promise  *)
(* and by the limiter.                                                     *)
LEMMA OutsideKeeps ==
  ASSUME IInv, UNCHANGED <<msg, at, answer, sent, events, count, restarts>>,
         outcome' \in [Requests -> {"none", "open", "lost"} \cup Queue!Answers],
         asked' \subseteq Requests \X Queue!Verdicts, asked \subseteq asked',
         late' \subseteq Requests,
         \A r \in Requests : outcome'[r] = "approved" => Approved(r)',
         LimiterInv'
  PROVE  IInv'
  <1>1. ASSUME NEW r \in Requests
        PROVE  PlaceOK(r)'
    <2>1. PlaceOK(r)
      BY DEF IInv
    <2>2. /\ Cleared(r) => Cleared(r)'
          /\ Told(r) => Told(r)'
          /\ Proxied(r)' <=> Proxied(r)
          /\ IsToolCall(r)' <=> IsToolCall(r)
      BY DEF Cleared, Told, Proxied, IsToolCall, Approved
    <2>3. QED
      BY <2>1, <2>2 DEF PlaceOK
  <1>2. CallsAreCounted'
    <2>1. Held' = Held
      BY DEF Held, IsToolCall
    <2>2. QED
      BY <2>1, AccountStays
  <1>3. TypeOK'
    BY DEF IInv, TypeOK, LimiterInv
  <1>4. msg' = [r \in Requests |-> msg'[r]]
    BY DEF IInv
  <1>5. QED
    BY <1>1, <1>2, <1>3, <1>4 DEF IInv

LEMMA OperatorsKeep ==
  ASSUME IInv, Operators
  PROVE  IInv'
  <1>1. /\ UNCHANGED <<msg, at, answer, sent, events, count, restarts>>
        /\ outcome' = outcome /\ late' = late
        /\ asked \subseteq asked' /\ asked' \subseteq Requests \X Queue!Verdicts
    <2>1. asked \subseteq Requests \X Queue!Verdicts
      BY DEF IInv, TypeOK
    <2>2. QED
      BY <2>1 DEF Operators, ApiCall, Limited, Unasked, Queue!Rule
  <1>2. LimiterInv'
    <2>1. LimiterInv
      BY DEF IInv
    <2>2. QED
      BY <2>1, TickKeeps, CleanupKeeps, LetThroughKeeps, StutterKeeps
         DEF Operators, ApiCall, Limited, Refuse
  <1>3. \A r \in Requests : outcome'[r] = "approved" => Approved(r)'
    BY <1>1 DEF IInv, PlaceOK, Approved
  <1>4. QED
    BY <1>1, <1>2, <1>3, OutsideKeeps DEF IInv, TypeOK

(* The queue answers "approved" only when an operator asked for it.        *)
LEMMA QueueKeeps ==
  ASSUME IInv, QueueSteps
  PROVE  IInv'
  <1>1. UNCHANGED <<msg, at, answer, sent, events, count, restarts, limiterVars>>
    BY DEF QueueSteps
  <1>2. /\ asked' = asked
        /\ outcome' \in [Requests -> {"none", "open", "lost"} \cup Queue!Answers]
        /\ late' \subseteq Requests
        /\ \A r \in Requests : outcome'[r] = "approved" => Approved(r)'
    <2>1. CASE \E r \in Requests : Queue!Answer(r)
      <3>1. PICK r \in Requests, a \in Queue!Answers :
              /\ Queue!Justified(r, a) /\ outcome' = [outcome EXCEPT ![r] = a]
              /\ asked' = asked /\ late' = late
        BY <2>1 DEF Queue!Answer
      <3>2. a = "approved" => Approved(r)
        BY <3>1 DEF Queue!Justified, Approved
      <3>3. outcome'[r] = a /\ \A q \in Requests \ {r} : outcome'[q] = outcome[q]
        BY <3>1 DEF IInv, TypeOK
      <3>4. QED
        BY <3>1, <3>2, <3>3 DEF IInv, TypeOK, PlaceOK, Approved
    <2>2. CASE \E r \in Requests : Queue!Pass(r)
      BY <2>2 DEF Queue!Pass, IInv, TypeOK, PlaceOK, Approved
    <2>3. QED
      BY <2>1, <2>2 DEF QueueSteps, QueueStep
  <1>3. LimiterInv'
    BY <1>1, StutterKeeps DEF IInv
  <1>4. QED
    BY <1>1, <1>2, <1>3, OutsideKeeps DEF IInv, TypeOK

(* A restart leaves no handler that is held, and counts from nothing.      *)
LEMMA RestartKeeps ==
  ASSUME IInv, Restart
  PROVE  IInv'
  <1>1. /\ msg' = msg /\ answer' = answer /\ sent' = sent /\ events' = events
        /\ restarts' \in 0..MaxRestarts /\ asked' = asked /\ late' = late
        /\ at' = [r \in Requests |-> IF Alive(r) THEN "dead" ELSE at[r]]
        /\ count' = [k \in Counters |-> 0]
        /\ outcome' = [r \in Requests |-> IF outcome[r] = "open" THEN "lost" ELSE outcome[r]]
    BY GatewayAssumption DEF Restart, Queue!Lose, IInv, TypeOK
  <1>2. LimiterInv'
    <2>1. /\ entries' = [c \in Clients |-> NoEntry] /\ passed' = [c \in Clients |-> <<>>]
          /\ now' = now /\ now \in 0..MaxTime
      BY DEF Restart, IInv, TypeOK, LimiterTypeOK
    <2>2. LimiterTypeOK'
      BY <2>1, RateAssumption DEF LimiterTypeOK, NoEntry
    <2>3. \A c \in Clients : entries'[c] = NoEntry /\ Len(passed'[c]) = 0
      BY <2>1
    <2>4. QED
      BY <2>2, <2>3 DEF LimiterInv, WindowOK, InOrder, WindowsFollow
  <1>3. TypeOK'
    <2>1. at' \in [Requests -> Places]
      BY <1>1 DEF IInv, TypeOK, Places
    <2>2. outcome' \in [Requests -> {"none", "open", "lost"} \cup Queue!Answers]
      BY <1>1 DEF IInv, TypeOK
    <2>3. QED
      BY <1>1, <1>2, <2>1, <2>2 DEF IInv, TypeOK, LimiterInv
  <1>4. ASSUME NEW r \in Requests
        PROVE  PlaceOK(r)'
    <2>1. PlaceOK(r)
      BY DEF IInv
    <2>2. /\ Cleared(r)' <=> Cleared(r)
          /\ Told(r)' <=> Told(r)
          /\ Proxied(r)' <=> Proxied(r)
          /\ IsToolCall(r)' <=> IsToolCall(r)
          /\ Approved(r)' <=> Approved(r)
      BY <1>1 DEF Cleared, Told, Proxied, IsToolCall, Approved
    <2>3. /\ at'[r] = "dead" \/ at'[r] = at[r]
          /\ outcome'[r] = "lost" \/ outcome'[r] = outcome[r]
      BY <1>1
    <2>4. QED
      BY <1>1, <2>1, <2>2, <2>3 DEF PlaceOK
  <1>5. CallsAreCounted'
    <2>1. Held' = {}
      BY <1>1 DEF Held, Alive
    <2>2. Cardinality(Held') = 0
      BY <2>1, FS_EmptySet
    <2>3. \A k \in {"total", "blocked", "allowed", "approved"} : count'[k] = 0
      BY <1>1 DEF Counters
    <2>4. QED
      BY <2>2, <2>3 DEF CallsAreCounted, Held
  <1>6. QED
    BY <1>1, <1>2, <1>3, <1>4, <1>5 DEF IInv

-----------------------------------------------------------------------------
(* The invariant holds in every state that can be reached.                 *)
THEOREM InvariantHolds == Spec => []IInv
  <1>1. Init => IInv
    <2> SUFFICES ASSUME Init PROVE IInv
      OBVIOUS
    <2>1. LimiterInv
      BY InitHasInv, RateAssumption DEF Init, LimiterInit
    <2>2. TypeOK
      BY <2>1, GatewayAssumption DEF Init, TypeOK, LimiterInv, Places, Queue!Init
    <2>3. \A r \in Requests : PlaceOK(r)
      BY DEF Init, PlaceOK, Queue!Init
    <2>4. CallsAreCounted
      <3>1. Held = {}
        BY DEF Init, Held
      <3>2. Cardinality(Held) = 0
        BY <3>1, FS_EmptySet
      <3>3. \A k \in {"total", "blocked", "allowed", "approved"} : count[k] = 0
        BY DEF Init, Counters
      <3>4. QED
        BY <3>2, <3>3 DEF CallsAreCounted, Held
    <2>5. QED
      BY <2>1, <2>2, <2>3, <2>4 DEF Init, IInv
  <1>2. ASSUME IInv, [Next]_vars
        PROVE  IInv'
    <2>1. ASSUME NEW r \in Requests, Handler(r)
          PROVE  IInv'
      <3>1. UNCHANGED <<restarts, limiterVars>>
        BY <2>1 DEF Handler
      <3>2. CASE Arrive(r)
        BY <1>2, <3>1, <3>2, ArriveKeeps
      <3>3. CASE Gate(r)
        BY <1>2, <3>1, <3>3, QuietGateKeeps, LoudGateKeeps DEF Gate
      <3>4. CASE Onward(r)
        BY <1>2, <3>1, <3>4, OnwardKeeps
      <3>5. QED
        BY <2>1, <3>2, <3>3, <3>4 DEF Handler
    <2>2. CASE UNCHANGED vars
      <3>1. LimiterInv'
        BY <1>2, <2>2, StutterKeeps DEF IInv
      <3>2. \A r \in Requests : outcome'[r] = "approved" => Approved(r)'
        BY <1>2, <2>2 DEF IInv, PlaceOK, Approved
      <3>3. QED
        BY <1>2, <2>2, <3>1, <3>2, OutsideKeeps DEF IInv, TypeOK
    <2>3. QED
      BY <1>2, <2>1, <2>2, OperatorsKeep, QueueKeeps, RestartKeeps DEF Next
  <1>3. QED
    BY <1>1, <1>2, PTL DEF Spec

(* Every variable keeps its type.                                          *)
THEOREM TypeCorrect == Spec => []TypeOK
  <1>1. IInv => TypeOK
    BY DEF IInv
  <1>2. QED
    BY <1>1, InvariantHolds, PTL

(* What the request proxy sends upstream its gate let pass, or an operator *)
(* approved while it was held: no denial, expiry, lost queue or restart    *)
(* lets a request through.  (proxy.go, Handler, handleOpenClawToolInvoke   *)
(* and checkToolCalls)                                                     *)
THEOREM OnlyClearedGoUpstream == Spec => []UpstreamWasCleared
  <1>1. IInv => UpstreamWasCleared
    BY InvImplies
  <1>2. QED
    BY <1>1, InvariantHolds, PTL

(* The metrics account for every MCP tool call of this process: decided in *)
(* one of three ways, or held.  (handler.go, the six places that count)    *)
THEOREM AccountHolds == Spec => []CallsAreCounted
  <1>1. IInv => CallsAreCounted
    BY DEF IInv
  <1>2. QED
    BY <1>1, InvariantHolds, PTL

(* The last event of a tool call that left its gate is its verdict.        *)
(* (handler.go, handleToolsCall and handleApproval)                        *)
THEOREM VerdictsAreTold == Spec => []VerdictIsReported
  <1>1. IInv => VerdictIsReported
    BY InvImplies
  <1>2. QED
    BY <1>1, InvariantHolds, PTL

(* The bound on bursts also holds where the process restarts and forgets   *)
(* its windows: the requests are counted from the restart.                 *)
(* (auth.go, RateLimitMiddleware)                                          *)
THEOREM GatewayBurstsHold == Spec => []BurstIsBounded
  <1>1. IInv => BurstIsBounded
    BY BoundFollows DEF IInv
  <1>2. QED
    BY <1>1, InvariantHolds, PTL

(* The gateway judges a command line by the simple commands in it, however *)
(* many they are and however the line dresses them.                        *)
(* (interceptor.go, Check)                                                 *)
THEOREM CommandsAreSeen ==
  ASSUME NEW W, AreWords(W), PatternsAreWords, Scripts \subseteq Seq(Commands(W)) \ {<<>>}
  PROVE  Spec => []PolicySeesEveryCommand
  <1>1. PolicySeesEveryCommand
    BY EveryCommandIsSeen DEF PolicySeesEveryCommand
  <1>2. QED
    BY <1>1, PTL
=============================================================================
