----------------------------- MODULE ApprovalQueue -----------------------------
(***************************************************************************)
(* The human-approval queue of internal/approval with everyone who uses    *)
(* it: the request handlers that Add a command and Wait for its verdict    *)
(* (the proxy and the MCP gateway), the dashboard calls that Approve or    *)
(* Deny, the two cleanup tickers, the passing of time, and a crash of the  *)
(* process followed by a restart on the same database.                     *)
(*                                                                         *)
(* Each action is one critical section (Queue.mu or Store.mu), one channel *)
(* operation, or one return.  Time is the set "late" of requests whose     *)
(* ExpiresAt has passed.                                                   *)
(***************************************************************************)
EXTENDS ApprovalStore

CONSTANTS Operators,    \* dashboard calls that may be running at once
          Persistent,   \* NewPersistentQueue (TRUE) or NewQueue (FALSE)
          McpIds,       \* requests of the MCP gateway: their context has a deadline
          MaxCrashes    \* bound on the number of restarts

ASSUME QueueAssumption ==
  /\ Persistent \in BOOLEAN
  /\ McpIds \subseteq Ids
  /\ MaxCrashes \in Nat

VARIABLES pending,   \* the keys of Queue.pending
          chan,      \* chan[id]: what pc.approved holds
          phase,     \* phase[id]: where the handler of id stands
          late,      \* requests whose ExpiresAt has passed
          op,        \* op[o]: the Approve or Deny call o is in
          asked,     \* history: the <<id, verdict>> an operator ever asked for
          crashes    \* number of restarts so far

queueVars == <<pending, chan, phase, late, op, asked, crashes>>
vars == <<storeVars, queueVars>>

\* The channel (capacity 1): still open, a verdict sent (and closed), or
\* closed without one.  All but "open" mean that pc.once has run.
Channels == {"open", "closed"} \cup Verdicts

Decisions == {"approved", "denied", "expired"}
Blocked   == {"adding", "notifying", "select", "removing", "status", "expiring"}
Phases    == {"new", "gone"} \cup Blocked \cup Decisions

\* A call knows its id and verdict, and whether the lookup found the entry.
Calls   == [pc: {"store", "log", "send", "remove", "panic"},
            id: Ids, verdict: Verdicts, found: BOOLEAN]
Idle    == [pc |-> "idle"]
Returned(o) == op' = [op EXCEPT ![o] = Idle]
At(o, where) == op[o].pc = where
Goto(o, where) == op' = [op EXCEPT ![o].pc = where]

TypeOK ==
  /\ StoreTypeOK
  /\ pending \subseteq Ids
  /\ chan \in [Ids -> Channels]
  /\ phase \in [Ids -> Phases]
  /\ late \subseteq Ids
  /\ op \in [Operators -> Calls \cup {Idle}]
  /\ asked \subseteq (Ids \X Verdicts)
  /\ crashes \in Nat

Init ==
  /\ StoreInit
  /\ pending = {}
  /\ chan = [id \in Ids |-> "open"]
  /\ phase = [id \in Ids |-> "new"]
  /\ late = {}
  /\ op = [o \in Operators |-> Idle]
  /\ asked = {}
  /\ crashes = 0

-----------------------------------------------------------------------------
(* The request handler.                                                    *)

Becomes(id, p) == phase' = [phase EXCEPT ![id] = p]

(* Add, first half: the entry goes into memory and is visible at once. *)
AddToMemory(id) ==
  /\ phase[id] = "new"
  /\ pending' = pending \cup {id}
  /\ Becomes(id, "adding")
  /\ UNCHANGED <<storeVars, chan, late, op, asked, crashes>>

(* Add, second half: the row is inserted; an error is ignored. *)
AddToStore(id) ==
  /\ phase[id] = "adding"
  /\ IF Persistent THEN InsertPending(id) ELSE UNCHANGED status
  /\ Becomes(id, "notifying")
  /\ UNCHANGED <<audit, pending, chan, late, op, asked, crashes>>

(* The webhooks have been called and Wait looks its entry up. *)
WaitLookup(id) ==
  /\ phase[id] = "notifying"
  /\ Becomes(id, IF id \in pending THEN "select"
                 ELSE IF Persistent THEN "status" ELSE "expired")
  /\ UNCHANGED <<storeVars, pending, chan, late, op, asked, crashes>>

\* Wrong on purpose: the status itself is the decision.
WaitStatusRaw(id) ==
  /\ phase[id] = "status"
  /\ Becomes(id, status[id])
  /\ UNCHANGED <<storeVars, pending, chan, late, op, asked, crashes>>

\* Wrong on purpose: a request the store does not know is let through.
WaitStatusFailsOpen(id) ==
  /\ phase[id] = "status"
  /\ Becomes(id, IF status[id] \in Events THEN status[id] ELSE "approved")
  /\ UNCHANGED <<storeVars, pending, chan, late, op, asked, crashes>>

\* Wrong on purpose: waits until the row is decided.
WaitStatusPolls(id) ==
  /\ phase[id] = "status"
  /\ status[id] \in Events
  /\ Becomes(id, status[id])
  /\ UNCHANGED <<storeVars, pending, chan, late, op, asked, crashes>>

(* Wait without an entry: the read of GetStatus and the switch on it.      *)
(* "pending", "not_found" and an error all end as DecisionExpired.         *)
WaitStatus(id) ==
  /\ phase[id] = "status"
  /\ \/ Becomes(id, CASE status[id] \in Events -> status[id]
                      [] status[id] = "pending" /\ id \in late -> "expiring"
                      [] OTHER -> "expired")
     \/ StoreFaults /\ Becomes(id, "expired")
  /\ UNCHANGED <<storeVars, pending, chan, late, op, asked, crashes>>

(* The write of GetStatus; it answers "expired" whatever the row now says. *)
WaitMarkExpired(id) ==
  /\ phase[id] = "expiring"
  /\ MarkExpired(id)
  /\ Becomes(id, "expired")
  /\ UNCHANGED <<audit, pending, chan, late, op, asked, crashes>>

\* Wrong on purpose: any receive is an approval.
ReceiveAnything(id) ==
  /\ phase[id] = "select"
  /\ chan[id] # "open"
  /\ Becomes(id, "approved")
  /\ UNCHANGED <<storeVars, pending, chan, late, op, asked, crashes>>

(* The select in Wait: a receive is ready.  A closed channel yields false. *)
Receive(id) ==
  /\ phase[id] = "select"
  /\ chan[id] # "open"
  /\ Becomes(id, IF chan[id] = "approved" THEN "approved" ELSE "denied")
  /\ UNCHANGED <<storeVars, pending, chan, late, op, asked, crashes>>

(* The select in Wait: the MCP gateway's context, created after Add with   *)
(* the queue's own five minutes, is done.  The entry stays in memory.      *)
ContextDone(id) ==
  /\ phase[id] = "select"
  /\ id \in McpIds \cap late
  /\ Becomes(id, "expired")
  /\ UNCHANGED <<storeVars, pending, chan, late, op, asked, crashes>>

(* The select in Wait: the timer fires, and then Remove runs. *)
TimerFires(id) ==
  /\ phase[id] = "select"
  /\ id \in late
  /\ Becomes(id, "removing")
  /\ UNCHANGED <<storeVars, pending, chan, late, op, asked, crashes>>

\* Wrong on purpose: a request nobody decided is let through.
RemoveAfterTimerFailsOpen(id) ==
  /\ phase[id] = "removing"
  /\ pending' = pending \ {id}
  /\ Becomes(id, "approved")
  /\ UNCHANGED <<storeVars, chan, late, op, asked, crashes>>

RemoveAfterTimer(id) ==
  /\ phase[id] = "removing"
  /\ pending' = pending \ {id}
  /\ Becomes(id, "expired")
  /\ UNCHANGED <<storeVars, chan, late, op, asked, crashes>>

Handler(id) ==
  \/ AddToStore(id)
  \/ WaitLookup(id)
  \/ WaitStatus(id)
  \/ WaitMarkExpired(id)
  \/ Receive(id)
  \/ ContextDone(id)
  \/ TimerFires(id)
  \/ RemoveAfterTimer(id)

-----------------------------------------------------------------------------
(* Approve and Deny.  They differ in the verdict only.                     *)

(* The lookup under Queue.mu.  Without a store and an entry it is all there *)
(* is to the call.                                                          *)
CallLookup(o) ==
  /\ op[o].pc \in {"idle", "panic"}
  /\ \E id \in Ids, v \in Verdicts :
       /\ phase[id] # "new"
       /\ asked' = asked \cup {<<id, v>>}
       /\ LET found == id \in pending
              call  == [pc |-> IF Persistent THEN "store" ELSE "send",
                        id |-> id, verdict |-> v, found |-> found]
          IN  op' = [op EXCEPT ![o] = IF found \/ Persistent THEN call ELSE Idle]
  /\ UNCHANGED <<storeVars, pending, chan, phase, late, crashes>>

(* The conditional UPDATE.  An update that took goes on to log pc.Command, *)
(* and dereferences nil when the lookup found nothing.                     *)
CallStore(o) ==
  /\ At(o, "store")
  /\ \E updated \in BOOLEAN :
       /\ UpdateStatus(op[o].id, op[o].verdict, updated)
       /\ CASE updated /\ op[o].found   -> Goto(o, "log")
            [] updated /\ ~op[o].found  -> Goto(o, "panic")
            [] ~updated /\ op[o].found  -> Goto(o, "send")
            [] ~updated /\ ~op[o].found -> Returned(o)
  /\ UNCHANGED <<audit, pending, chan, phase, late, asked, crashes>>

CallLog(o) ==
  /\ At(o, "log")
  /\ LogEvent({op[o].id}, op[o].verdict)
  /\ Goto(o, "send")
  /\ UNCHANGED <<status, pending, chan, phase, late, asked, crashes>>

\* Wrong on purpose: no Remove after the send.
CallSendOnly(o) ==
  /\ At(o, "send")
  /\ chan' = [chan EXCEPT ![op[o].id] = IF @ = "open" THEN op[o].verdict ELSE @]
  /\ Returned(o)
  /\ UNCHANGED <<storeVars, pending, phase, late, asked, crashes>>

\* Wrong on purpose: a send outside pc.once.
CallSendAgain(o) ==
  /\ At(o, "send")
  /\ chan' = [chan EXCEPT ![op[o].id] = op[o].verdict]
  /\ Goto(o, "remove")
  /\ UNCHANGED <<storeVars, pending, phase, late, asked, crashes>>

(* pc.once: the first of the callers and the cleanup decides the channel. *)
CallSend(o) ==
  /\ At(o, "send")
  /\ chan' = [chan EXCEPT ![op[o].id] = IF @ = "open" THEN op[o].verdict ELSE @]
  /\ Goto(o, "remove")
  /\ UNCHANGED <<storeVars, pending, phase, late, asked, crashes>>

CallRemove(o) ==
  /\ At(o, "remove")
  /\ pending' = pending \ {op[o].id}
  /\ Returned(o)
  /\ UNCHANGED <<storeVars, chan, phase, late, asked, crashes>>

CallStep(o) == CallStore(o) \/ CallLog(o) \/ CallSend(o) \/ CallRemove(o)

-----------------------------------------------------------------------------
(* Tickers, time and crashes.                                              *)

\* Wrong on purpose: deletes the entries and leaves their channels open.
CleanupWithoutClose ==
  LET overdue == pending \cap late IN
  /\ overdue # {}
  /\ pending' = pending \ overdue
  /\ IF Persistent THEN LogEvent(overdue, "expired") ELSE UNCHANGED audit
  /\ UNCHANGED <<status, chan, phase, late, op, asked, crashes>>

\* Wrong on purpose: skips the entries nobody waits for any more.
CleanupOfWaiting ==
  LET overdue == {id \in pending \cap late : phase[id] \in Blocked} IN
  /\ overdue # {}
  /\ chan' = [id \in Ids |-> IF id \in overdue /\ chan[id] = "open"
                             THEN "closed" ELSE chan[id]]
  /\ pending' = pending \ overdue
  /\ IF Persistent THEN LogEvent(overdue, "expired") ELSE UNCHANGED audit
  /\ UNCHANGED <<status, phase, late, op, asked, crashes>>

(* One tick of cleanupExpired, all under Queue.mu. *)
CleanupExpired ==
  LET overdue == pending \cap late IN
  /\ overdue # {}
  /\ chan' = [id \in Ids |-> IF id \in overdue /\ chan[id] = "open"
                             THEN "closed" ELSE chan[id]]
  /\ pending' = pending \ overdue
  /\ IF Persistent THEN LogEvent(overdue, "expired") ELSE UNCHANGED audit
  /\ UNCHANGED <<status, phase, late, op, asked, crashes>>

\* Wrong on purpose: expires the rows of listed requests only.
StoreCleanupOfListed ==
  /\ \E id \in late \cap pending : status[id] = "pending"
  /\ ExpireOverdue(late \cap pending)
  /\ UNCHANGED <<audit, queueVars>>

(* One tick of Store.cleanupLoop that finds a row. *)
StoreCleanup ==
  /\ \E id \in late : status[id] = "pending"
  /\ ExpireOverdue(late)
  /\ UNCHANGED <<audit, queueVars>>

ExpiresAtPasses(id) ==
  /\ phase[id] # "new"
  /\ id \notin late
  /\ late' = late \cup {id}
  /\ UNCHANGED <<storeVars, pending, chan, phase, op, asked, crashes>>

(* The process dies and starts again: NewStore on the same file and a new, *)
(* empty queue.  Blocked handlers and running calls are gone.              *)
CrashRestart ==
  /\ crashes < MaxCrashes
  /\ crashes' = crashes + 1
  /\ pending' = {}
  /\ chan' = [id \in Ids |-> "open"]
  /\ phase' = [id \in Ids |-> IF phase[id] \in Blocked THEN "gone" ELSE phase[id]]
  /\ op' = [o \in Operators |-> Idle]
  /\ UNCHANGED <<storeVars, late, asked>>

Next ==
  \/ \E id \in Ids : AddToMemory(id) \/ Handler(id) \/ ExpiresAtPasses(id)
  \/ \E o \in Operators : CallLookup(o) \/ CallStep(o)
  \/ CleanupExpired
  \/ StoreCleanup
  \/ CrashRestart

Spec == Init /\ [][Next]_vars

(* Goroutines are scheduled, timers and tickers fire and time passes.      *)
(* Nothing makes a request arrive, an operator decide or the process die.  *)
Fairness ==
  /\ \A id \in Ids : WF_vars(Handler(id)) /\ WF_vars(ExpiresAtPasses(id))
  /\ \A o \in Operators : WF_vars(CallStep(o))
  /\ WF_vars(CleanupExpired)
  /\ WF_vars(StoreCleanup)

FairSpec == Spec /\ Fairness

-----------------------------------------------------------------------------
(* Safety.                                                                 *)

(* A handler lets its command through only if an operator asked for that,  *)
(* and so do the channel and the row that carry the verdict to it: neither *)
(* a timeout, a closed channel, a restart nor a store error approves.      *)
ApprovedWasAsked ==
  \A id \in Ids :
    \/ <<id, "approved">> \in asked
    \/ phase[id] # "approved" /\ chan[id] # "approved" /\ status[id] # "approved"

(* A handler blocked on a channel that nobody will find in the map again   *)
(* has its answer in the channel: no removal orphans a waiter.             *)
NoOrphanedWaiter ==
  \A id \in Ids :
    phase[id] = "select" /\ id \notin pending => chan[id] # "open"

(* The dashboard's list shows a decided request only while the call that   *)
(* decided it (or lost the race for once) is about to remove it.           *)
ListedIsUndecided ==
  \A id \in pending :
    chan[id] # "open" => \E o \in Operators : At(o, "remove") /\ op[o].id = id

(* The audit trail has at most one verdict per request, and the row says   *)
(* the same, whatever calls, tickers and restarts ran in between.          *)
AuditMatchesRow ==
  \A id \in Ids, v \in Verdicts :
    /\ audit[id][v] <= 1
    /\ audit[id][v] = 1 => status[id] = v

(* A decided row stays as it is: neither the cleanup, nor the write lock   *)
(* GetStatus takes after it read, nor a second operator changes it.        *)
RowIsFinal ==
  [][\A id \in Ids : status[id] \in Events => status'[id] = status[id]]_vars

(* pc.once: a channel gets one verdict or one close.  A second send or a   *)
(* second close would block or panic; only a restart forgets the channel.  *)
OneVerdictPerChannel ==
  [][\A id \in Ids : chan[id] # "open" =>
       chan'[id] = chan[id] \/ crashes' # crashes]_vars

-----------------------------------------------------------------------------
(* Liveness.                                                               *)

(* A blocked handler returns or dies with its process. *)
HandlersReturn ==
  \A id \in Ids : phase[id] \in Blocked ~> phase[id] \notin Blocked

(* No entry leaks from the map, also when nobody waits for it any more. *)
EntriesLeave == \A id \in Ids : id \in pending ~> id \notin pending

(* A pending row is resolved in the end, also one whose handler, entry and *)
(* process are gone.                                                       *)
RowsResolve ==
  \A id \in Ids : status[id] = "pending" ~> status[id] # "pending"

-----------------------------------------------------------------------------
(* The queue implements ApprovalPromise.                                   *)

Outcome(p) ==
  CASE p = "new"      -> "none"
    [] p = "gone"     -> "lost"
    [] p \in Blocked  -> "open"
    [] OTHER          -> p

Promise == INSTANCE ApprovalPromise
             WITH outcome <- [id \in Ids |-> Outcome(phase[id])]

(* Every run of the queue is a run of the promise: one answer per request, *)
(* justified, irrevocable and, with the program's own fairness, given.     *)
KeepsPromise == Promise!Spec

-----------------------------------------------------------------------------
(* What comments and messages of the code say, and the code does not do.   *)

(* "Already removed from memory, but may have been in storage": a decision *)
(* on such a request returns; it does not fail on the missing entry.       *)
CallsReturn == \A o \in Operators : ~At(o, "panic")

(* "request was not approved in time": a request expires when it is late. *)
ExpiredIsLate == \A id \in Ids : phase[id] = "expired" => id \in late

=============================================================================
