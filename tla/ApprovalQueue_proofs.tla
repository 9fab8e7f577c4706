-------------------------- MODULE ApprovalQueue_proofs --------------------------
(***************************************************************************)
(* Theorems about ApprovalQueue, for any sets of requests and operators,   *)
(* with and without the store, its faults and restarts.                    *)
(***************************************************************************)
EXTENDS ApprovalQueue, TLAPS

\* The state changes of Handler, CallStep and the tickers by name, for leaves.
USE DEF storeVars, queueVars, vars, Becomes, At, Goto, Returned

(* The calls of Goto and Returned stay within the type of op. *)
LEMMA CallTypes ==
  ASSUME NEW o \in Operators, op \in [Operators -> Calls \cup {Idle}],
         op[o].pc # "idle"
  PROVE  /\ op[o] \in Calls
         /\ op[o].id \in Ids
         /\ op[o].verdict \in Verdicts
         /\ op[o].found \in BOOLEAN
         /\ \A w \in {"store", "log", "send", "remove", "panic"} :
              Goto(o, w) => op' \in [Operators -> Calls \cup {Idle}]
         /\ Returned(o) => op' \in [Operators -> Calls \cup {Idle}]
  <1>1. op[o] \in Calls
    BY DEF Calls, Idle
  <1>2. QED
    BY <1>1 DEF Calls, Idle

(* What any step of a call does: it may settle its own row while that is   *)
(* pending, it leaves the other calls alone and keeps its id and verdict.  *)
LEMMA CallStepEffect ==
  ASSUME NEW o \in Operators, op \in [Operators -> Calls \cup {Idle}], CallStep(o)
  PROVE  /\ op[o] \in Calls
         /\ \A p \in Operators : p # o => op'[p] = op[p]
         /\ \/ op'[o] = Idle
            \/ op'[o].id = op[o].id /\ op'[o].verdict = op[o].verdict
         /\ \/ status' = status
            \/ /\ At(o, "store")
               /\ status[op[o].id] = "pending"
               /\ status' = [status EXCEPT ![op[o].id] = op[o].verdict]
         /\ UNCHANGED <<phase, asked, late, crashes>>
  <1>1. op[o].pc # "idle" /\ op[o] \in Calls
    BY CallTypes DEF CallStep, CallStore, CallLog, CallSend, CallRemove
  <1>2. CASE CallStore(o)
    <2>1. PICK updated \in BOOLEAN :
            /\ UpdateStatus(op[o].id, op[o].verdict, updated)
            /\ CASE updated /\ op[o].found   -> Goto(o, "log")
                 [] updated /\ ~op[o].found  -> Goto(o, "panic")
                 [] ~updated /\ op[o].found  -> Goto(o, "send")
                 [] ~updated /\ ~op[o].found -> Returned(o)
      BY <1>2 DEF CallStore
    <2>2. Goto(o, "log") \/ Goto(o, "panic") \/ Goto(o, "send") \/ Returned(o)
      BY <1>1, <2>1 DEF Calls
    <2>3. \/ status' = status
          \/ /\ status[op[o].id] = "pending"
             /\ status' = [status EXCEPT ![op[o].id] = op[o].verdict]
      BY <2>1 DEF UpdateStatus
    <2>4. \/ op'[o] = Idle
          \/ op'[o].id = op[o].id /\ op'[o].verdict = op[o].verdict
      BY <1>1, <2>2 DEF Calls
    <2>5. \A p \in Operators : p # o => op'[p] = op[p]
      BY <2>2
    <2>6. QED
      BY <1>1, <1>2, <2>3, <2>4, <2>5 DEF CallStore
  <1>3. CASE CallLog(o) \/ CallSend(o) \/ CallRemove(o)
    BY <1>1, <1>3 DEF CallLog, CallSend, CallRemove, Calls
  <1>4. QED
    BY <1>2, <1>3 DEF CallStep

(* LogEvent counts at most one more row of the event it is given, for the  *)
(* requests it is given, and keeps the counters counters.                  *)
LEMMA LogEventAdds ==
  ASSUME NEW S, NEW e \in Events, audit \in [Ids -> [Events -> Nat]], LogEvent(S, e)
  PROVE  /\ audit' \in [Ids -> [Events -> Nat]]
         /\ \A id \in Ids, f \in Events :
              \/ audit'[id][f] = audit[id][f]
              \/ id \in S /\ f = e /\ audit'[id][f] = audit[id][f] + 1
  <1>1. PICK logged \in SUBSET S :
          audit' = [id \in Ids |-> IF id \in logged THEN [audit[id] EXCEPT ![e] = @ + 1]
                                                   ELSE audit[id]]
    BY DEF LogEvent
  <1>2. \A id \in Ids : audit'[id] \in [Events -> Nat]
    BY <1>1
  <1>3. audit' \in [Ids -> [Events -> Nat]]
    BY <1>1, <1>2
  <1>4. ASSUME NEW id \in Ids, NEW f \in Events
        PROVE  \/ audit'[id][f] = audit[id][f]
               \/ id \in S /\ f = e /\ audit'[id][f] = audit[id][f] + 1
    BY <1>1
  <1>5. QED
    BY <1>3, <1>4

(* Type correctness: every variable keeps its type in every reachable state. *)
THEOREM TypeCorrect == Spec => []TypeOK
  <1>1. Init => TypeOK
    BY QueueAssumption DEF Init, TypeOK, StoreInit, StoreTypeOK, Statuses, Events,
       Verdicts, Channels, Phases, Blocked, Decisions, Idle
  <1>2. TypeOK /\ [Next]_vars => TypeOK'
    <2> SUFFICES ASSUME TypeOK, [Next]_vars PROVE TypeOK'
      OBVIOUS
    <2> USE DEF TypeOK, StoreTypeOK
    <2>1. ASSUME NEW id \in Ids, AddToMemory(id) PROVE TypeOK'
      BY <2>1 DEF AddToMemory, Phases, Blocked
    <2>2. ASSUME NEW id \in Ids, Handler(id) PROVE TypeOK'
      <3>1. CASE AddToStore(id)
        BY <3>1 DEF AddToStore, InsertPending, Phases, Blocked, Statuses
      <3>2. CASE WaitLookup(id)
        BY <3>2 DEF WaitLookup, Phases, Blocked, Decisions
      <3>3. CASE WaitStatus(id)
        BY <3>3 DEF WaitStatus, Phases, Blocked, Decisions, Events, Verdicts
      <3>4. CASE WaitMarkExpired(id)
        BY <3>4 DEF WaitMarkExpired, MarkExpired, Phases, Decisions, Statuses, Events
      <3>5. CASE Receive(id)
        BY <3>5 DEF Receive, Phases, Decisions
      <3>6. CASE ContextDone(id)
        BY <3>6 DEF ContextDone, Phases, Decisions
      <3>7. CASE TimerFires(id)
        BY <3>7 DEF TimerFires, Phases, Blocked
      <3>8. CASE RemoveAfterTimer(id)
        BY <3>8 DEF RemoveAfterTimer, Phases, Decisions
      <3>9. QED
        BY <2>2, <3>1, <3>2, <3>3, <3>4, <3>5, <3>6, <3>7, <3>8 DEF Handler
    <2>3. ASSUME NEW o \in Operators, CallLookup(o) PROVE TypeOK'
      <3>1. PICK id \in Ids, v \in Verdicts :
              /\ asked' = asked \cup {<<id, v>>}
              /\ LET found == id \in pending
                     call  == [pc |-> IF Persistent THEN "store" ELSE "send",
                               id |-> id, verdict |-> v, found |-> found]
                 IN  op' = [op EXCEPT ![o] = IF found \/ Persistent THEN call ELSE Idle]
        BY <2>3 DEF CallLookup
      <3>2. op' \in [Operators -> Calls \cup {Idle}]
        BY <3>1 DEF Calls
      <3>3. QED
        BY <2>3, <3>1, <3>2 DEF CallLookup
    <2>4. ASSUME NEW o \in Operators, CallStep(o) PROVE TypeOK'
      <3>1. CASE CallStore(o)
        BY <3>1, CallTypes DEF CallStore, UpdateStatus, Statuses, Events
      <3>2. CASE CallLog(o)
        <4>1. audit' \in [Ids -> [Events -> Nat]]
          BY <3>2, CallTypes, LogEventAdds DEF CallLog, Calls, Events
        <4>2. QED
          BY <3>2, <4>1, CallTypes DEF CallLog
      <3>3. CASE CallSend(o)
        BY <3>3, CallTypes DEF CallSend, Channels
      <3>4. CASE CallRemove(o)
        BY <3>4, CallTypes DEF CallRemove
      <3>5. QED
        BY <2>4, <3>1, <3>2, <3>3, <3>4 DEF CallStep
    <2>5. CASE CleanupExpired
      <3>1. audit' \in [Ids -> [Events -> Nat]]
        BY <2>5, LogEventAdds DEF CleanupExpired, Events
      <3>2. QED
        BY <2>5, <3>1 DEF CleanupExpired, Channels
    <2>6. CASE StoreCleanup
      BY <2>6 DEF StoreCleanup, ExpireOverdue, Statuses, Events
    <2>7. ASSUME NEW id \in Ids, ExpiresAtPasses(id) PROVE TypeOK'
      BY <2>7 DEF ExpiresAtPasses
    <2>8. CASE CrashRestart
      BY <2>8 DEF CrashRestart, Channels, Phases, Idle
    <2>9. CASE UNCHANGED vars
      BY <2>9
    <2>10. QED
      BY <2>1, <2>2, <2>3, <2>4, <2>5, <2>6, <2>7, <2>8, <2>9 DEF Next
  <1>3. QED
    BY <1>1, <1>2, PTL DEF Spec

-----------------------------------------------------------------------------
(***************************************************************************)
(* Every verdict can be traced to an operator.  ApprovedWasAsked alone is  *)
(* not inductive: a call carries a verdict from the lookup to the row and  *)
(* to the channel, and the handler reads it there.  AskedInv follows it    *)
(* along that way; what it says of closed channels is what lets the        *)
(* promise call a denial without an operator late.                         *)
(***************************************************************************)
CarriedWasAsked ==
  \A o \in Operators :
    ~At(o, "idle") => /\ <<op[o].id, op[o].verdict>> \in asked
                      /\ phase[op[o].id] # "new"

SentWasAsked ==
  \A id \in Ids :
    /\ \A v \in Verdicts : chan[id] = v => <<id, v>> \in asked
    /\ chan[id] = "closed" => id \in late

RowWasAsked ==
  \A id \in Ids, v \in Verdicts : status[id] = v => <<id, v>> \in asked

AnswerWasAsked ==
  \A id \in Ids : phase[id] = "approved" => <<id, "approved">> \in asked

AskedInv ==
  /\ TypeOK
  /\ CarriedWasAsked
  /\ SentWasAsked
  /\ RowWasAsked
  /\ AnswerWasAsked

LEMMA AskedInductive == Spec => []AskedInv
  <1>1. Init => CarriedWasAsked /\ SentWasAsked /\ RowWasAsked /\ AnswerWasAsked
    BY DEF Init, StoreInit, CarriedWasAsked, SentWasAsked, RowWasAsked,
       AnswerWasAsked, Idle, Verdicts
  <1>2. AskedInv /\ TypeOK' /\ [Next]_vars => AskedInv'
    <2> SUFFICES ASSUME AskedInv, TypeOK', [Next]_vars PROVE AskedInv'
      OBVIOUS
    <2> USE DEF AskedInv, CarriedWasAsked, SentWasAsked, RowWasAsked, AnswerWasAsked
    <2>1. ASSUME NEW id \in Ids, AddToMemory(id) PROVE AskedInv'
      BY <2>1 DEF AddToMemory, TypeOK
    <2>2. ASSUME NEW id \in Ids, Handler(id) PROVE AskedInv'
      <3>1. CASE AddToStore(id)
        BY <3>1 DEF AddToStore, InsertPending, TypeOK, StoreTypeOK, Verdicts
      <3>2. CASE WaitLookup(id)
        BY <3>2 DEF WaitLookup, TypeOK
      <3>3. CASE WaitStatus(id)
        <4>1. phase'[id] = "approved" => status[id] = "approved"
          BY <3>3 DEF WaitStatus, TypeOK
        <4>2. QED
          BY <3>3, <4>1 DEF WaitStatus, TypeOK, Verdicts, Events
      <3>4. CASE WaitMarkExpired(id)
        BY <3>4 DEF WaitMarkExpired, MarkExpired, TypeOK, StoreTypeOK, Verdicts
      <3>5. CASE Receive(id)
        BY <3>5 DEF Receive, TypeOK, Verdicts
      <3>6. CASE ContextDone(id)
        BY <3>6 DEF ContextDone, TypeOK
      <3>7. CASE TimerFires(id)
        BY <3>7 DEF TimerFires, TypeOK
      <3>8. CASE RemoveAfterTimer(id)
        BY <3>8 DEF RemoveAfterTimer, TypeOK
      <3>9. QED
        BY <2>2, <3>1, <3>2, <3>3, <3>4, <3>5, <3>6, <3>7, <3>8 DEF Handler
    <2>3. ASSUME NEW o \in Operators, CallLookup(o) PROVE AskedInv'
      BY <2>3 DEF CallLookup, TypeOK, Idle
    <2>4. ASSUME NEW o \in Operators, CallStep(o) PROVE AskedInv'
      <3>1. /\ op[o].id \in Ids
            /\ op[o].verdict \in Verdicts
            /\ <<op[o].id, op[o].verdict>> \in asked
            /\ phase[op[o].id] # "new"
        BY <2>4, CallStepEffect DEF TypeOK, Calls
      <3>2. CarriedWasAsked'
        BY <2>4, <3>1, CallStepEffect DEF TypeOK, Idle
      <3>3. \/ chan' = chan
            \/ chan' = [chan EXCEPT ![op[o].id] = IF @ = "open" THEN op[o].verdict ELSE @]
        <4>1. CASE CallStore(o) \/ CallLog(o) \/ CallRemove(o)
          BY <4>1 DEF CallStore, CallLog, CallRemove
        <4>2. CASE CallSend(o)
          BY <4>2 DEF CallSend
        <4>3. QED
          BY <2>4, <4>1, <4>2 DEF CallStep
      <3>4. phase' = phase /\ asked' = asked /\ late' = late
        BY <2>4, CallStepEffect DEF TypeOK
      <3>5. AnswerWasAsked'
        BY <3>4
      <3>6. ASSUME NEW id \in Ids
            PROVE  \/ chan'[id] = chan[id]
                   \/ chan'[id] = op[o].verdict /\ id = op[o].id
        BY <3>1, <3>3 DEF TypeOK
      <3>7. SentWasAsked'
        <4>1. op[o].verdict # "closed"
          BY <3>1 DEF Verdicts
        <4>2. ASSUME NEW id \in Ids
              PROVE  /\ \A v \in Verdicts : chan'[id] = v => <<id, v>> \in asked
                     /\ chan'[id] = "closed" => id \in late
          <5>1. CASE chan'[id] = chan[id]
            BY <5>1
          <5>2. CASE chan'[id] = op[o].verdict /\ id = op[o].id
            BY <5>2, <3>1, <4>1
          <5>3. QED
            BY <3>6, <5>1, <5>2
        <4>3. QED
          BY <3>4, <4>2
      <3>8. RowWasAsked'
        <4>1. ASSUME NEW id \in Ids
              PROVE  \/ status'[id] = status[id]
                     \/ status'[id] = op[o].verdict /\ id = op[o].id
          BY <2>4, <3>1, CallStepEffect DEF TypeOK, StoreTypeOK
        <4>2. QED
          BY <3>4, <3>1, <4>1
      <3>9. QED
        BY <3>2, <3>5, <3>7, <3>8
    <2>5. CASE CleanupExpired
      BY <2>5 DEF CleanupExpired, TypeOK, Verdicts
    <2>6. CASE StoreCleanup
      BY <2>6 DEF StoreCleanup, ExpireOverdue, TypeOK, Verdicts
    <2>7. ASSUME NEW id \in Ids, ExpiresAtPasses(id) PROVE AskedInv'
      BY <2>7 DEF ExpiresAtPasses
    <2>8. CASE CrashRestart
      BY <2>8 DEF CrashRestart, TypeOK, Verdicts, Idle
    <2>9. CASE UNCHANGED vars
      BY <2>9
    <2>10. QED
      BY <2>1, <2>2, <2>3, <2>4, <2>5, <2>6, <2>7, <2>8, <2>9 DEF Next
  <1>3. QED
    BY <1>1, <1>2, TypeCorrect, PTL DEF Spec, AskedInv

(* No approval without an operator who asked for it: for any number of     *)
(* requests, operators, faults of the store and restarts.                  *)
THEOREM ApprovalsAreAsked == Spec => []ApprovedWasAsked
  <1>1. AskedInv => ApprovedWasAsked
    BY DEF AskedInv, SentWasAsked, RowWasAsked, AnswerWasAsked, ApprovedWasAsked,
       Verdicts
  <1>2. QED
    BY <1>1, AskedInductive, PTL

-----------------------------------------------------------------------------
(***************************************************************************)
(* No removal orphans a waiter.  The two removals that are not the         *)
(* waiter's own come after the channel has been decided: a call's Remove   *)
(* (RemovalIsDecided remembers that it sent first) and the cleanup's.      *)
(***************************************************************************)
RemovalIsDecided ==
  \A o \in Operators : At(o, "remove") => chan[op[o].id] # "open"

WaiterInv == TypeOK /\ NoOrphanedWaiter /\ RemovalIsDecided

THEOREM WaitersAreServed == Spec => []NoOrphanedWaiter
  <1>1. Init => NoOrphanedWaiter /\ RemovalIsDecided
    BY DEF Init, NoOrphanedWaiter, RemovalIsDecided, Idle
  <1>2. WaiterInv /\ [Next]_vars => NoOrphanedWaiter' /\ RemovalIsDecided'
    <2> SUFFICES ASSUME WaiterInv, [Next]_vars
                 PROVE  NoOrphanedWaiter' /\ RemovalIsDecided'
      OBVIOUS
    <2> USE DEF WaiterInv, NoOrphanedWaiter, RemovalIsDecided
    <2>1. ASSUME NEW id \in Ids, AddToMemory(id)
          PROVE  NoOrphanedWaiter' /\ RemovalIsDecided'
      BY <2>1 DEF AddToMemory, TypeOK
    <2>2. ASSUME NEW id \in Ids, Handler(id)
          PROVE  NoOrphanedWaiter' /\ RemovalIsDecided'
      <3>1. CASE WaitStatus(id)
        <4>1. phase'[id] # "select"
          BY <3>1 DEF WaitStatus, TypeOK, Events, Verdicts
        <4>2. QED
          BY <3>1, <4>1 DEF WaitStatus, TypeOK
      <3>2. CASE ~WaitStatus(id)
        BY <2>2, <3>2 DEF Handler, AddToStore, WaitLookup, WaitMarkExpired, Receive,
           ContextDone, TimerFires, RemoveAfterTimer, TypeOK
      <3>3. QED
        BY <3>1, <3>2
    <2>3. ASSUME NEW o \in Operators, CallLookup(o)
          PROVE  NoOrphanedWaiter' /\ RemovalIsDecided'
      BY <2>3 DEF CallLookup, TypeOK, Idle
    <2>4. ASSUME NEW o \in Operators, CallStep(o)
          PROVE  NoOrphanedWaiter' /\ RemovalIsDecided'
      <3>1. op[o] \in Calls
        BY <2>4, CallStepEffect DEF TypeOK
      <3>2. CASE CallStore(o)
        <4>1. op'[o].pc # "remove"
          <5>1. PICK updated \in BOOLEAN :
                  CASE updated /\ op[o].found   -> Goto(o, "log")
                    [] updated /\ ~op[o].found  -> Goto(o, "panic")
                    [] ~updated /\ op[o].found  -> Goto(o, "send")
                    [] ~updated /\ ~op[o].found -> Returned(o)
            BY <3>2 DEF CallStore
          <5>2. Goto(o, "log") \/ Goto(o, "panic") \/ Goto(o, "send") \/ Returned(o)
            BY <3>1, <5>1 DEF Calls
          <5>3. QED
            BY <3>1, <5>2 DEF TypeOK, Calls, Idle
        <4>2. QED
          BY <3>2, <4>1, CallStepEffect DEF CallStore, TypeOK
      <3>3. CASE CallLog(o)
        BY <3>1, <3>3 DEF CallLog, TypeOK, Calls
      <3>4. CASE CallSend(o)
        <4>1. \A id \in Ids : chan[id] # "open" => chan'[id] # "open"
          BY <3>4 DEF CallSend, TypeOK
        <4>2. chan'[op[o].id] # "open"
          BY <3>1, <3>4 DEF CallSend, TypeOK, Calls, Verdicts
        <4>3. op'[o].id = op[o].id /\ \A p \in Operators : p # o => op'[p] = op[p]
          BY <3>1, <3>4 DEF CallSend, TypeOK, Calls
        <4>4. \A p \in Operators : op[p].pc = "remove" => op[p].id \in Ids
          BY DEF TypeOK, Calls, Idle
        <4>5. QED
          BY <3>4, <4>1, <4>2, <4>3, <4>4 DEF CallSend
      <3>5. CASE CallRemove(o)
        <4>1. op'[o].pc # "remove" /\ \A p \in Operators : p # o => op'[p] = op[p]
          BY <3>5 DEF CallRemove, TypeOK, Idle
        <4>2. QED
          BY <3>5, <4>1 DEF CallRemove
      <3>6. QED
        BY <2>4, <3>2, <3>3, <3>4, <3>5 DEF CallStep
    <2>5. CASE CleanupExpired
      <3>1. \A id \in Ids : chan[id] # "open" => chan'[id] # "open"
        BY <2>5 DEF CleanupExpired
      <3>2. \A id \in pending \ pending' : chan'[id] # "open"
        BY <2>5 DEF CleanupExpired, TypeOK
      <3>3. \A p \in Operators : op[p].pc = "remove" => op[p].id \in Ids
        BY DEF TypeOK, Calls, Idle
      <3>4. QED
        BY <2>5, <3>1, <3>2, <3>3 DEF CleanupExpired
    <2>6. CASE StoreCleanup
      BY <2>6 DEF StoreCleanup
    <2>7. ASSUME NEW id \in Ids, ExpiresAtPasses(id)
          PROVE  NoOrphanedWaiter' /\ RemovalIsDecided'
      BY <2>7 DEF ExpiresAtPasses
    <2>8. CASE CrashRestart
      BY <2>8 DEF CrashRestart, TypeOK, Blocked, Idle
    <2>9. CASE UNCHANGED vars
      BY <2>9
    <2>10. QED
      BY <2>1, <2>2, <2>3, <2>4, <2>5, <2>6, <2>7, <2>8, <2>9 DEF Next
  <1>3. QED
    BY <1>1, <1>2, TypeCorrect, PTL DEF Spec, WaiterInv

(* pc.once: no channel is sent to or closed twice. *)
THEOREM ChannelsAreDecidedOnce == Spec => OneVerdictPerChannel
  <1>1. TypeOK /\ [Next]_vars =>
          [\A id \in Ids : chan[id] # "open" => chan'[id] = chan[id] \/ crashes' # crashes]_vars
    <2> SUFFICES ASSUME TypeOK, Next, NEW id \in Ids, chan[id] # "open"
                 PROVE  chan'[id] = chan[id] \/ crashes' # crashes
      OBVIOUS
    <2>1. CASE \E i \in Ids : AddToMemory(i) \/ Handler(i) \/ ExpiresAtPasses(i)
      BY <2>1 DEF AddToMemory, Handler, AddToStore, WaitLookup, WaitStatus,
         WaitMarkExpired, Receive, ContextDone, TimerFires, RemoveAfterTimer,
         ExpiresAtPasses
    <2>2. ASSUME NEW o \in Operators, CallLookup(o) \/ CallStep(o)
          PROVE  chan'[id] = chan[id]
      <3>1. CASE CallSend(o)
        BY <3>1 DEF CallSend, TypeOK
      <3>2. CASE ~CallSend(o)
        BY <2>2, <3>2 DEF CallLookup, CallStep, CallStore, CallLog, CallRemove
      <3>3. QED
        BY <3>1, <3>2
    <2>3. CASE CleanupExpired
      BY <2>3 DEF CleanupExpired
    <2>4. CASE StoreCleanup
      BY <2>4 DEF StoreCleanup
    <2>5. CASE CrashRestart
      BY <2>5 DEF CrashRestart, TypeOK
    <2>6. QED
      BY <2>1, <2>2, <2>3, <2>4, <2>5 DEF Next
  <1>2. QED
    BY <1>1, TypeCorrect, PTL DEF Spec, OneVerdictPerChannel

-----------------------------------------------------------------------------
(***************************************************************************)
(* A settled row is final.  The insert is the one write without a guard;   *)
(* NoRowYet says that it finds no row.                                     *)
(***************************************************************************)
NoRowYet == \A id \in Ids : phase[id] \in {"new", "adding"} => status[id] = "none"

LEMMA RowStep ==
  ASSUME TypeOK, NoRowYet, [Next]_vars, NEW id \in Ids
  PROVE  \/ status'[id] = status[id]
         \/ status[id] = "pending"
         \/ status[id] = "none" /\ phase[id] = "adding" /\ phase'[id] = "notifying"
  <1> USE DEF TypeOK, StoreTypeOK
  <1>1. ASSUME NEW i \in Ids, AddToStore(i)
        PROVE  \/ status'[id] = status[id]
               \/ status[id] = "none" /\ phase[id] = "adding" /\ phase'[id] = "notifying"
    BY <1>1 DEF AddToStore, InsertPending, NoRowYet
  <1>2. ASSUME NEW i \in Ids, AddToMemory(i) \/ Handler(i) \/ ExpiresAtPasses(i),
               ~AddToStore(i)
        PROVE  status'[id] = status[id] \/ status[id] = "pending"
    <2>1. CASE WaitMarkExpired(i)
      BY <2>1 DEF WaitMarkExpired, MarkExpired
    <2>2. CASE ~WaitMarkExpired(i)
      BY <1>2, <2>2 DEF AddToMemory, Handler, WaitLookup, WaitStatus, Receive,
         ContextDone, TimerFires, RemoveAfterTimer, ExpiresAtPasses
    <2>3. QED
      BY <2>1, <2>2
  <1>3. ASSUME NEW o \in Operators, CallLookup(o) \/ CallStep(o)
        PROVE  status'[id] = status[id] \/ status[id] = "pending"
    <2>1. CASE CallLookup(o)
      BY <2>1 DEF CallLookup
    <2>2. CASE CallStep(o)
      BY <2>2, CallStepEffect
    <2>3. QED
      BY <1>3, <2>1, <2>2
  <1>4. CASE StoreCleanup
    BY <1>4 DEF StoreCleanup, ExpireOverdue
  <1>5. CASE CleanupExpired \/ CrashRestart \/ UNCHANGED vars
    BY <1>5 DEF CleanupExpired, CrashRestart
  <1>6. QED
    BY <1>1, <1>2, <1>3, <1>4, <1>5 DEF Next

LEMMA PhaseStep ==
  ASSUME TypeOK, [Next]_vars, NEW id \in Ids, phase'[id] \in {"new", "adding"}
  PROVE  phase[id] \in {"new", "adding"}
  <1>1. ASSUME NEW i \in Ids, WaitStatus(i) PROVE phase[id] \in {"new", "adding"}
    BY <1>1 DEF WaitStatus, TypeOK, Events, Verdicts
  <1>2. ASSUME NEW i \in Ids, Handler(i), ~WaitStatus(i)
        PROVE  phase[id] \in {"new", "adding"}
    BY <1>2 DEF Handler, AddToStore, WaitLookup, WaitMarkExpired, Receive,
       ContextDone, TimerFires, RemoveAfterTimer, TypeOK
  <1>3. ASSUME NEW i \in Ids, AddToMemory(i) \/ ExpiresAtPasses(i)
        PROVE  phase[id] \in {"new", "adding"}
    BY <1>3 DEF AddToMemory, ExpiresAtPasses, TypeOK
  <1>4. ASSUME NEW o \in Operators, CallLookup(o) \/ CallStep(o)
        PROVE  phase[id] \in {"new", "adding"}
    BY <1>4, CallStepEffect DEF CallLookup, TypeOK
  <1>5. CASE CrashRestart
    BY <1>5 DEF CrashRestart, TypeOK
  <1>6. CASE CleanupExpired \/ StoreCleanup \/ UNCHANGED vars
    BY <1>6 DEF CleanupExpired, StoreCleanup
  <1>7. QED
    BY <1>1, <1>2, <1>3, <1>4, <1>5, <1>6 DEF Next

LEMMA RowInvariant == Spec => [](TypeOK /\ NoRowYet)
  <1>1. Init => NoRowYet
    BY DEF Init, StoreInit, NoRowYet
  <1>2. TypeOK /\ NoRowYet /\ [Next]_vars => NoRowYet'
    <2> SUFFICES ASSUME TypeOK, NoRowYet, [Next]_vars,
                        NEW id \in Ids, phase'[id] \in {"new", "adding"}
                 PROVE  status'[id] = "none"
      BY DEF NoRowYet
    <2>1. phase[id] \in {"new", "adding"} /\ status[id] = "none"
      BY PhaseStep DEF NoRowYet
    <2>2. QED
      BY <2>1, RowStep
  <1>3. QED
    BY <1>1, <1>2, TypeCorrect, PTL DEF Spec

(* A decided row stays as it is, across operators, tickers and restarts. *)
THEOREM RowsAreFinal == Spec => RowIsFinal
  <1>1. TypeOK /\ NoRowYet /\ [Next]_vars =>
          [\A id \in Ids : status[id] \in Events => status'[id] = status[id]]_vars
    BY RowStep DEF Events, Verdicts
  <1>2. QED
    BY <1>1, RowInvariant, PTL DEF Spec, RowIsFinal

-----------------------------------------------------------------------------
(***************************************************************************)
(* The audit trail agrees with the rows.  Between the UPDATE and the       *)
(* LogEvent of a call the trail lags behind; LogIsDue says that such a     *)
(* call has settled its row, has not logged it and is the only one to.     *)
(***************************************************************************)
LogIsDue ==
  \A o \in Operators : At(o, "log") =>
    /\ status[op[o].id] = op[o].verdict
    /\ audit[op[o].id][op[o].verdict] = 0
    /\ \A p \in Operators : At(p, "log") /\ p # o => op[p].id # op[o].id

AuditInv == TypeOK /\ NoRowYet /\ AuditMatchesRow /\ LogIsDue

THEOREM AuditAgreesWithRows == Spec => []AuditMatchesRow
  <1>1. Init => AuditMatchesRow /\ LogIsDue
    BY DEF Init, StoreInit, AuditMatchesRow, LogIsDue, Idle, Events, Verdicts
  <1>2. AuditInv /\ [Next]_vars => AuditMatchesRow' /\ LogIsDue'
    <2> SUFFICES ASSUME AuditInv, [Next]_vars PROVE AuditMatchesRow' /\ LogIsDue'
      OBVIOUS
    <2> USE DEF AuditInv, AuditMatchesRow, LogIsDue
    <2>1. ASSUME NEW id \in Ids, NEW v \in Verdicts, status[id] = v
          PROVE  status'[id] = v
      BY <2>1, RowStep DEF Verdicts
    <2>2. \A p \in Operators : At(p, "log") => op[p].id \in Ids /\ op[p].verdict \in Verdicts
      BY DEF TypeOK, Calls, Idle
    <2>3. ASSUME audit' = audit, \A p \in Operators : op'[p].pc = "log" => op'[p] = op[p]
          PROVE  AuditMatchesRow' /\ LogIsDue'
      BY <2>1, <2>2, <2>3
    <2>4. ASSUME NEW id \in Ids, AddToMemory(id) \/ Handler(id) \/ ExpiresAtPasses(id)
          PROVE  audit' = audit /\ op' = op
      BY <2>4 DEF AddToMemory, Handler, AddToStore, WaitLookup, WaitStatus,
         WaitMarkExpired, Receive, ContextDone, TimerFires, RemoveAfterTimer,
         ExpiresAtPasses
    <2>5. ASSUME NEW o \in Operators, CallLookup(o)
          PROVE  AuditMatchesRow' /\ LogIsDue'
      BY <2>3, <2>5 DEF CallLookup, TypeOK, Idle
    <2>6. ASSUME NEW o \in Operators, CallStep(o)
          PROVE  AuditMatchesRow' /\ LogIsDue'
      <3>1. op[o] \in Calls /\ \A p \in Operators : p # o => op'[p] = op[p]
        BY <2>6, CallStepEffect DEF TypeOK
      <3>2. CASE CallStore(o)
        <4>1. PICK updated \in BOOLEAN :
                /\ UpdateStatus(op[o].id, op[o].verdict, updated)
                /\ CASE updated /\ op[o].found   -> Goto(o, "log")
                     [] updated /\ ~op[o].found  -> Goto(o, "panic")
                     [] ~updated /\ op[o].found  -> Goto(o, "send")
                     [] ~updated /\ ~op[o].found -> Returned(o)
          BY <3>2 DEF CallStore
        <4>2. CASE updated /\ op[o].found
          <5>1. op[o].id \in Ids /\ op[o].verdict \in Verdicts
            BY <3>1 DEF Calls
          <5>2. status[op[o].id] = "pending" /\ status'[op[o].id] = op[o].verdict
            BY <4>1, <4>2, <5>1 DEF UpdateStatus, TypeOK, StoreTypeOK
          <5>3. audit' = audit /\ audit[op[o].id][op[o].verdict] = 0
            <6>1. audit' = audit
              BY <3>2 DEF CallStore
            <6>2. audit[op[o].id][op[o].verdict] \in Nat
              BY <5>1 DEF TypeOK, StoreTypeOK, Events
            <6>3. audit[op[o].id][op[o].verdict] # 1
              BY <5>1, <5>2 DEF Verdicts
            <6>4. audit[op[o].id][op[o].verdict] <= 1
              BY <5>1
            <6>5. QED
              BY <6>1, <6>2, <6>3, <6>4
          <5>4. \A p \in Operators : At(p, "log") => op[p].id # op[o].id
            BY <2>2, <5>2 DEF Verdicts
          <5>5. op'[o].pc = "log" /\ op'[o].id = op[o].id /\ op'[o].verdict = op[o].verdict
            BY <3>1, <4>1, <4>2 DEF TypeOK, Calls
          <5>6. AuditMatchesRow'
            <6>1. audit' = audit
              BY <5>3
            <6>2. QED
              BY <2>1, <6>1
          <5>7. ASSUME NEW p \in Operators, op'[p].pc = "log"
                PROVE  /\ status'[op'[p].id] = op'[p].verdict
                       /\ audit'[op'[p].id][op'[p].verdict] = 0
                       /\ \A q \in Operators :
                            op'[q].pc = "log" /\ q # p => op'[q].id # op'[p].id
            <6>1. CASE p = o
              BY <3>1, <5>2, <5>3, <5>4, <5>5, <6>1
            <6>2. CASE p # o
              BY <2>1, <2>2, <3>1, <5>3, <5>4, <5>5, <5>7, <6>2
            <6>3. QED
              BY <6>1, <6>2
          <5>8. QED
            BY <5>6, <5>7
        <4>3. CASE ~(updated /\ op[o].found)
          <5>1. Goto(o, "panic") \/ Goto(o, "send") \/ Returned(o)
            BY <3>1, <4>1, <4>3 DEF Calls
          <5>2. op'[o].pc # "log"
            BY <3>1, <5>1 DEF TypeOK, Calls, Idle
          <5>3. QED
            BY <2>3, <3>1, <3>2, <5>2 DEF CallStore
        <4>4. QED
          BY <4>2, <4>3
      <3>3. CASE CallLog(o)
        <4>1. /\ op[o].id \in Ids
              /\ op[o].verdict \in Verdicts
              /\ audit[op[o].id][op[o].verdict] = 0
              /\ status'[op[o].id] = op[o].verdict
              /\ op'[o].pc = "send"
          BY <2>1, <3>1, <3>3 DEF CallLog, TypeOK, Calls
        <4>2. ASSUME NEW id \in Ids, NEW v \in Verdicts
              PROVE  \/ audit'[id][v] = audit[id][v]
                     \/ id = op[o].id /\ v = op[o].verdict /\ audit'[id][v] = 1
          <5>1. LogEvent({op[o].id}, op[o].verdict)
            BY <3>3 DEF CallLog
          <5>2. v \in Events /\ op[o].verdict \in Events /\ audit \in [Ids -> [Events -> Nat]]
            BY <4>1 DEF TypeOK, StoreTypeOK, Events
          <5>3. \/ audit'[id][v] = audit[id][v]
                \/ /\ id \in {op[o].id} /\ v = op[o].verdict
                   /\ audit'[id][v] = audit[id][v] + 1
            BY <5>1, <5>2, LogEventAdds
          <5>4. QED
            BY <4>1, <5>3
        <4>3. AuditMatchesRow'
          BY <2>1, <4>1, <4>2
        <4>4. ASSUME NEW p \in Operators, op'[p].pc = "log"
              PROVE  op'[p] = op[p] /\ p # o /\ op[p].id # op[o].id
          BY <3>1, <3>3, <4>1, <4>4 DEF CallLog
        <4>5. LogIsDue'
          BY <2>1, <2>2, <4>2, <4>4
        <4>6. QED
          BY <4>3, <4>5
      <3>4. CASE CallSend(o) \/ CallRemove(o)
        <4>1. op'[o].pc # "log" /\ audit' = audit
          BY <3>1, <3>4 DEF CallSend, CallRemove, TypeOK, Calls, Idle
        <4>2. QED
          BY <2>3, <3>1, <4>1
      <3>5. QED
        BY <2>6, <3>2, <3>3, <3>4 DEF CallStep
    <2>7. CASE CleanupExpired
      <3>1. op' = op /\ \A id \in Ids, v \in Verdicts : audit'[id][v] = audit[id][v]
        BY <2>7, LogEventAdds DEF CleanupExpired, TypeOK, StoreTypeOK, Events, Verdicts
      <3>2. QED
        BY <2>1, <2>2, <3>1
    <2>8. CASE StoreCleanup \/ CrashRestart \/ UNCHANGED vars
      BY <2>3, <2>8 DEF StoreCleanup, CrashRestart, Idle
    <2>9. QED
      BY <2>3, <2>4, <2>5, <2>6, <2>7, <2>8 DEF Next
  <1>3. QED
    BY <1>1, <1>2, RowInvariant, PTL DEF Spec, AuditInv

-----------------------------------------------------------------------------
(***************************************************************************)
(* The list shows no decided request, except while it is being removed.    *)
(* A channel is decided by a call, which then removes, or by the cleanup,  *)
(* which does both at once; a new entry has a fresh channel (NewIsFresh).  *)
(***************************************************************************)
NewIsFresh ==
  \A id \in Ids : phase[id] = "new" => chan[id] = "open" /\ id \notin pending

ListedInv == AskedInv /\ ListedIsUndecided /\ NewIsFresh

THEOREM DecidedLeaveTheList == Spec => []ListedIsUndecided
  <1>1. Init => ListedIsUndecided /\ NewIsFresh
    BY DEF Init, ListedIsUndecided, NewIsFresh
  <1>2. ListedInv /\ [Next]_vars => ListedIsUndecided' /\ NewIsFresh'
    <2> SUFFICES ASSUME ListedInv, [Next]_vars PROVE ListedIsUndecided' /\ NewIsFresh'
      OBVIOUS
    <2> USE DEF ListedInv, ListedIsUndecided, NewIsFresh
    <2>1. TypeOK /\ \A o \in Operators : ~At(o, "idle") => phase[op[o].id] # "new"
      BY DEF AskedInv, CarriedWasAsked
    <2>2. ASSUME NEW id \in Ids, phase'[id] = "new" PROVE phase[id] = "new"
      <3>1. ASSUME NEW i \in Ids, WaitStatus(i) PROVE phase[id] = "new"
        BY <2>1, <2>2, <3>1 DEF WaitStatus, TypeOK, Events, Verdicts
      <3>2. ASSUME NEW i \in Ids, Handler(i), ~WaitStatus(i) PROVE phase[id] = "new"
        BY <2>1, <2>2, <3>2 DEF Handler, AddToStore, WaitLookup, WaitMarkExpired, Receive,
           ContextDone, TimerFires, RemoveAfterTimer, TypeOK
      <3>3. ASSUME NEW i \in Ids, AddToMemory(i) \/ ExpiresAtPasses(i)
            PROVE  phase[id] = "new"
        BY <2>1, <2>2, <3>3 DEF AddToMemory, ExpiresAtPasses, TypeOK
      <3>4. ASSUME NEW o \in Operators, CallLookup(o) \/ CallStep(o)
            PROVE  phase[id] = "new"
        BY <2>1, <2>2, <3>4, CallStepEffect DEF CallLookup, TypeOK
      <3>5. CASE CrashRestart
        BY <2>1, <2>2, <3>5 DEF CrashRestart, TypeOK
      <3>6. CASE CleanupExpired \/ StoreCleanup \/ UNCHANGED vars
        BY <2>2, <3>6 DEF CleanupExpired, StoreCleanup
      <3>7. QED
        BY <3>1, <3>2, <3>3, <3>4, <3>5, <3>6 DEF Next
    <2>3. ASSUME pending' \subseteq pending, chan' = chan,
                 \A o \in Operators : op[o].pc = "remove" => op'[o] = op[o]
          PROVE  ListedIsUndecided' /\ NewIsFresh'
      BY <2>1, <2>2, <2>3 DEF TypeOK
    <2>4. ASSUME NEW id \in Ids, AddToMemory(id) PROVE ListedIsUndecided' /\ NewIsFresh'
      BY <2>1, <2>2, <2>4 DEF AddToMemory, TypeOK
    <2>5. ASSUME NEW id \in Ids, Handler(id) \/ ExpiresAtPasses(id)
          PROVE  ListedIsUndecided' /\ NewIsFresh'
      BY <2>3, <2>5 DEF Handler, AddToStore, WaitLookup, WaitStatus, WaitMarkExpired,
         Receive, ContextDone, TimerFires, RemoveAfterTimer, ExpiresAtPasses
    <2>6. ASSUME NEW o \in Operators, CallLookup(o)
          PROVE  ListedIsUndecided' /\ NewIsFresh'
      BY <2>1, <2>3, <2>6 DEF CallLookup, TypeOK
    <2>7. ASSUME NEW o \in Operators, CallStep(o)
          PROVE  ListedIsUndecided' /\ NewIsFresh'
      <3>1. op[o] \in Calls /\ \A p \in Operators : p # o => op'[p] = op[p]
        BY <2>1, <2>7, CallStepEffect DEF TypeOK
      <3>2. CASE CallStore(o) \/ CallLog(o)
        BY <2>3, <3>1, <3>2 DEF CallStore, CallLog
      <3>3. CASE CallSend(o)
        <4>1. op'[o].pc = "remove" /\ op'[o].id = op[o].id
          BY <2>1, <3>1, <3>3 DEF CallSend, TypeOK, Calls
        <4>2. \A id \in Ids : id # op[o].id => chan'[id] = chan[id]
          BY <2>1, <3>3 DEF CallSend, TypeOK
        <4>3. op[o].pc # "remove" /\ phase[op[o].id] # "new" /\ pending' = pending
          BY <2>1, <3>3 DEF CallSend
        <4>4. ListedIsUndecided'
          BY <2>1, <3>1, <4>1, <4>2, <4>3 DEF TypeOK
        <4>5. QED
          BY <2>2, <4>2, <4>3, <4>4
      <3>4. CASE CallRemove(o)
        <4>1. pending' = pending \ {op[o].id} /\ chan' = chan
          BY <3>4 DEF CallRemove
        <4>2. ASSUME NEW id \in pending', chan'[id] # "open"
              PROVE  \E p \in Operators : op'[p].pc = "remove" /\ op'[p].id = id
          <5>1. PICK p \in Operators : op[p].pc = "remove" /\ op[p].id = id
            BY <4>1, <4>2
          <5>2. QED
            BY <3>1, <4>1, <4>2, <5>1
        <4>3. QED
          BY <2>2, <4>1, <4>2
      <3>5. QED
        BY <2>7, <3>2, <3>3, <3>4 DEF CallStep
    <2>8. CASE CleanupExpired
      BY <2>1, <2>2, <2>8 DEF CleanupExpired, TypeOK
    <2>9. CASE CrashRestart
      BY <2>1, <2>2, <2>9 DEF CrashRestart, TypeOK
    <2>10. CASE StoreCleanup \/ UNCHANGED vars
      BY <2>3, <2>10 DEF StoreCleanup
    <2>11. QED
      BY <2>4, <2>5, <2>6, <2>7, <2>8, <2>9, <2>10 DEF Next
  <1>3. QED
    BY <1>1, <1>2, AskedInductive, PTL DEF Spec, ListedInv

-----------------------------------------------------------------------------
(***************************************************************************)
(* Who is told "expired" too early.  The code can answer "expired" to a    *)
(* request whose time has not passed (the run ApprovalQueue_lostapproval,  *)
(* and a crash or a failed insert), but only when an operator decided it:  *)
(* the entry is missing before its time for no other reason, and every     *)
(* other way to that answer has seen its time pass.                        *)
(***************************************************************************)
Excused(id) == id \in late \/ \E v \in Verdicts : <<id, v>> \in asked

(* A request that ends as expired was overdue or decided by an operator. *)
EarlyExpiryWasDecided ==
  \A id \in Ids : phase[id] = "expired" => Excused(id)

MissingIsExcused ==
  \A id \in Ids :
    /\ phase[id] \in {"adding", "notifying"} => id \in pending \/ Excused(id)
    /\ phase[id] = "status" => Excused(id)

ExpiringIsLate ==
  \A id \in Ids :
    /\ phase[id] \in {"removing", "expiring"} => id \in late
    /\ status[id] = "expired" => id \in late

ExpiryInv == AskedInv /\ EarlyExpiryWasDecided /\ MissingIsExcused /\ ExpiringIsLate

(* The steps of a handler: what they answer is excused. *)
LEMMA HandlerExpires ==
  ASSUME ExpiryInv, NEW id \in Ids, Handler(id)
  PROVE  /\ UNCHANGED <<asked, late>>
         /\ EarlyExpiryWasDecided' /\ MissingIsExcused' /\ ExpiringIsLate'
  <1> USE DEF ExpiryInv, EarlyExpiryWasDecided, MissingIsExcused, ExpiringIsLate
  <1>1. TypeOK
    BY DEF AskedInv
  <1>2. UNCHANGED <<asked, late>>
    BY DEF Handler, AddToStore, WaitLookup, WaitStatus, WaitMarkExpired, Receive,
       ContextDone, TimerFires, RemoveAfterTimer
  <1>3. \A i \in Ids : Excused(i)' <=> Excused(i)
    BY <1>2 DEF Excused
  <1> DEFINE Good(i, p) == /\ p = "expired" => Excused(i)
                           /\ p \in {"adding", "notifying"} => i \in pending' \/ Excused(i)
                           /\ p = "status" => Excused(i)
                           /\ p \in {"removing", "expiring"} => i \in late
  <1>4. SUFFICES /\ \A i \in Ids : Good(i, phase'[i])
                 /\ \A i \in Ids : status'[i] = "expired" => i \in late
    BY <1>2, <1>3
  <1>5. ASSUME NEW p, phase' = [phase EXCEPT ![id] = p], Good(id, p),
               pending' \subseteq pending, pending \ pending' \subseteq {id}
        PROVE  \A i \in Ids : Good(i, phase'[i])
    <2>1. phase'[id] = p /\ \A i \in Ids : i # id => phase'[i] = phase[i]
      BY <1>1, <1>5 DEF TypeOK
    <2>2. ASSUME NEW i \in Ids, i # id PROVE Good(i, phase[i])
      BY <1>5, <2>2
    <2>3. QED
      BY <1>5, <2>1, <2>2
  <1>6. CASE AddToStore(id)
    <2>1. Good(id, "notifying")
      BY <1>6 DEF AddToStore
    <2>2. \A i \in Ids : status'[i] = "expired" => i \in late
      BY <1>1, <1>6 DEF AddToStore, InsertPending, TypeOK, StoreTypeOK
    <2>3. QED
      BY <1>5, <1>6, <2>1, <2>2 DEF AddToStore
  <1>7. CASE WaitStatus(id)
    <2>1. PICK p \in {"expiring"} \cup Events :
            /\ phase' = [phase EXCEPT ![id] = p]
            /\ p = "expiring" => id \in late
      BY <1>7 DEF WaitStatus, Events, Verdicts
    <2>2. Good(id, p)
      BY <1>7, <2>1 DEF WaitStatus, Events, Verdicts
    <2>3. QED
      BY <1>5, <1>7, <2>1, <2>2 DEF WaitStatus
  <1>8. CASE WaitMarkExpired(id)
    <2>1. Good(id, "expired") /\ id \in late
      BY <1>8 DEF WaitMarkExpired, Excused
    <2>2. \A i \in Ids : status'[i] = "expired" => i \in late
      BY <1>1, <1>8, <2>1 DEF WaitMarkExpired, MarkExpired, TypeOK, StoreTypeOK
    <2>3. QED
      BY <1>5, <1>8, <2>1, <2>2 DEF WaitMarkExpired
  <1>9. CASE WaitLookup(id)
    <2>1. PICK p \in {"select", "status", "expired"} :
            /\ phase' = [phase EXCEPT ![id] = p]
            /\ p # "select" => id \notin pending
      BY <1>9 DEF WaitLookup
    <2>2. Good(id, p)
      BY <1>9, <2>1 DEF WaitLookup
    <2>3. QED
      BY <1>5, <1>9, <2>1, <2>2 DEF WaitLookup
  <1>10. CASE Receive(id)
    BY <1>5, <1>10 DEF Receive
  <1>11. CASE ContextDone(id)
    <2>1. Good(id, "expired")
      BY <1>11 DEF ContextDone, Excused
    <2>2. QED
      BY <1>5, <1>11, <2>1 DEF ContextDone
  <1>12. CASE TimerFires(id)
    BY <1>5, <1>12 DEF TimerFires
  <1>13. CASE RemoveAfterTimer(id)
    <2>1. Good(id, "expired")
      BY <1>13 DEF RemoveAfterTimer, Excused
    <2>2. QED
      BY <1>5, <1>13, <2>1 DEF RemoveAfterTimer
  <1>14. QED
    BY <1>6, <1>7, <1>8, <1>9, <1>10, <1>11, <1>12, <1>13 DEF Handler

(* No request expires before its time unless an operator decided it: the   *)
(* answers the findings of this module lose are all lost to a decision.    *)
THEOREM EarlyExpiriesWereDecided == Spec => []EarlyExpiryWasDecided
  <1>1. Init => EarlyExpiryWasDecided /\ MissingIsExcused /\ ExpiringIsLate
    BY DEF Init, StoreInit, EarlyExpiryWasDecided, MissingIsExcused, ExpiringIsLate
  <1>2. ExpiryInv /\ [Next]_vars =>
          EarlyExpiryWasDecided' /\ MissingIsExcused' /\ ExpiringIsLate'
    <2> SUFFICES ASSUME ExpiryInv, [Next]_vars
                 PROVE  EarlyExpiryWasDecided' /\ MissingIsExcused' /\ ExpiringIsLate'
      OBVIOUS
    <2> USE DEF ExpiryInv, EarlyExpiryWasDecided, MissingIsExcused, ExpiringIsLate
    <2>1. TypeOK /\ CarriedWasAsked
      BY DEF AskedInv
    <2>2. ASSUME late \subseteq late', asked \subseteq asked'
          PROVE  \A i \in Ids : Excused(i) => Excused(i)'
      BY <2>2 DEF Excused
    <2>3. ASSUME NEW id \in Ids, AddToMemory(id)
          PROVE  EarlyExpiryWasDecided' /\ MissingIsExcused' /\ ExpiringIsLate'
      BY <2>1, <2>2, <2>3 DEF AddToMemory, TypeOK
    <2>4. ASSUME NEW id \in Ids, Handler(id)
          PROVE  EarlyExpiryWasDecided' /\ MissingIsExcused' /\ ExpiringIsLate'
      BY <2>4, HandlerExpires
    <2>5. ASSUME NEW o \in Operators, CallLookup(o)
          PROVE  EarlyExpiryWasDecided' /\ MissingIsExcused' /\ ExpiringIsLate'
      <3>1. asked \subseteq asked' /\ UNCHANGED <<status, pending, phase, late>>
        BY <2>5 DEF CallLookup
      <3>2. QED
        BY <2>2, <3>1
    <2>6. ASSUME NEW o \in Operators, CallStep(o)
          PROVE  EarlyExpiryWasDecided' /\ MissingIsExcused' /\ ExpiringIsLate'
      <3>1. op[o] \in Calls /\ UNCHANGED <<phase, asked, late>>
        BY <2>1, <2>6, CallStepEffect DEF TypeOK
      <3>2. op[o].verdict \in Verdicts /\ <<op[o].id, op[o].verdict>> \in asked
        BY <2>1, <3>1 DEF CarriedWasAsked, Calls
      <3>3. \A i \in Ids : i \in pending => i \in pending' \/ i = op[o].id
        BY <2>6 DEF CallStep, CallStore, CallLog, CallSend, CallRemove
      <3>4. Excused(op[o].id)
        BY <3>2 DEF Excused
      <3>5. \A i \in Ids : status'[i] = "expired" => status[i] = "expired"
        BY <2>1, <2>6, <3>1, <3>2, CallStepEffect DEF TypeOK, StoreTypeOK, Verdicts
      <3>6. \A i \in Ids : Excused(i) => Excused(i)'
        BY <2>2, <3>1
      <3>7. MissingIsExcused'
        BY <3>1, <3>3, <3>4, <3>6
      <3>8. QED
        BY <3>1, <3>5, <3>6, <3>7
    <2>7. CASE CleanupExpired
      <3>1. /\ UNCHANGED <<status, phase, late, asked>>
            /\ \A i \in Ids : i \in pending => i \in pending' \/ i \in late
        BY <2>7 DEF CleanupExpired
      <3>2. QED
        BY <2>2, <3>1 DEF Excused
    <2>8. CASE StoreCleanup
      <3>1. /\ UNCHANGED <<pending, phase, late, asked>>
            /\ \A i \in Ids : status'[i] = status[i] \/ i \in late
        BY <2>8 DEF StoreCleanup, ExpireOverdue
      <3>2. QED
        BY <2>2, <3>1
    <2>9. ASSUME NEW id \in Ids, ExpiresAtPasses(id)
          PROVE  EarlyExpiryWasDecided' /\ MissingIsExcused' /\ ExpiringIsLate'
      <3>1. late \subseteq late' /\ UNCHANGED <<status, pending, phase, asked>>
        BY <2>9 DEF ExpiresAtPasses
      <3>2. QED
        BY <2>2, <3>1
    <2>10. CASE CrashRestart
      <3>1. /\ UNCHANGED <<status, late, asked>>
            /\ \A i \in Ids : phase'[i] \notin Blocked
                              /\ (phase'[i] = "expired" => phase[i] = "expired")
        BY <2>10 DEF CrashRestart, Blocked
      <3>2. QED
        BY <2>2, <3>1 DEF Blocked
    <2>11. CASE UNCHANGED vars
      <3>1. UNCHANGED <<status, pending, phase, late, asked>>
        BY <2>11
      <3>2. QED
        BY <2>2, <3>1
    <2>12. QED
      BY <2>3, <2>4, <2>5, <2>6, <2>7, <2>8, <2>9, <2>10, <2>11 DEF Next
  <1>3. QED
    BY <1>1, <1>2, AskedInductive, PTL DEF Spec, ExpiryInv

-----------------------------------------------------------------------------
(***************************************************************************)
(* The queue implements the safety part of ApprovalPromise: its initial    *)
(* states are initial there, and each of its steps is a step or a stutter. *)
(***************************************************************************)
LEMMA OutcomeOf ==
  /\ Outcome("new") = "none"
  /\ Outcome("gone") = "lost"
  /\ \A p \in Blocked : Outcome(p) = "open"
  /\ \A p \in Decisions : Outcome(p) = p
  BY DEF Outcome, Blocked, Decisions

(* The steps of a handler answer its own request or stay open. *)
LEMMA HandlerAnswers ==
  ASSUME AskedInv, NEW id \in Ids, Handler(id)
  PROVE  /\ phase[id] \in Blocked
         /\ UNCHANGED <<asked, late>>
         /\ \E p \in Blocked \cup Decisions :
              /\ phase' = [phase EXCEPT ![id] = p]
              /\ p \in Decisions => Promise!Justified(id, p)
  <1> USE DEF AskedInv, TypeOK, StoreTypeOK
  <1>1. CASE AddToStore(id) \/ WaitLookup(id) \/ WaitMarkExpired(id) \/ ContextDone(id)
             \/ TimerFires(id) \/ RemoveAfterTimer(id)
    BY <1>1 DEF AddToStore, WaitLookup, WaitMarkExpired, ContextDone, TimerFires,
       RemoveAfterTimer, Blocked, Decisions, Promise!Justified
  <1>2. CASE WaitStatus(id)
    <2>1. PICK p \in {"expiring"} \cup Events :
            /\ phase' = [phase EXCEPT ![id] = p]
            /\ p \in Verdicts => status[id] = p
      BY <1>2 DEF WaitStatus, Events, Verdicts
    <2>2. p \in Decisions => Promise!Justified(id, p)
      BY <2>1 DEF Promise!Justified, RowWasAsked, Decisions, Verdicts
    <2>3. p \in Blocked \cup Decisions
      BY DEF Blocked, Decisions, Events, Verdicts
    <2>4. QED
      BY <1>2, <2>1, <2>2, <2>3 DEF WaitStatus, Blocked
  <1>3. CASE Receive(id)
    <2>1. chan[id] = "approved" \/ chan[id] = "denied" \/ chan[id] = "closed"
      BY <1>3 DEF Receive, Channels, Verdicts
    <2>2. /\ chan[id] = "approved" => Promise!Justified(id, "approved")
          /\ chan[id] # "approved" => Promise!Justified(id, "denied")
      BY <2>1 DEF Promise!Justified, SentWasAsked, Verdicts
    <2>3. QED
      BY <1>3, <2>2 DEF Receive, Blocked, Decisions
  <1>4. QED
    BY <1>1, <1>2, <1>3 DEF Handler

(* One answer per request, never revoked, and never "approved" or, in time, *)
(* "denied" without an operator: whatever the queue and the store do.       *)
THEOREM PromiseIsKept == Spec => Promise!Init /\ [][Promise!Next]_(Promise!vars)
  <1>1. Init => Promise!Init
    BY OutcomeOf DEF Init, Promise!Init
  <1>2. AskedInv /\ [Next]_vars => [Promise!Next]_(Promise!vars)
    <2> SUFFICES ASSUME AskedInv, [Next]_vars PROVE Promise!Next \/ UNCHANGED Promise!vars
      OBVIOUS
    <2> DEFINE out == [id \in Ids |-> Outcome(phase[id])]
    <2> USE DEF Promise!vars
    <2>1. TypeOK
      BY DEF AskedInv
    <2>2. ASSUME NEW id \in Ids, AddToMemory(id) PROVE Promise!Ask(id)
      <3>1. Outcome("adding") = "open"
        BY OutcomeOf DEF Blocked
      <3>2. QED
        BY <2>1, <2>2, <3>1, OutcomeOf DEF AddToMemory, Promise!Ask, TypeOK
    <2>3. ASSUME NEW id \in Ids, Handler(id)
          PROVE  Promise!Answer(id) \/ UNCHANGED Promise!vars
      <3>1. PICK p \in Blocked \cup Decisions :
              /\ phase' = [phase EXCEPT ![id] = p]
              /\ p \in Decisions => Promise!Justified(id, p)
        BY <2>3, HandlerAnswers
      <3>2. out[id] = "open" /\ out' = [out EXCEPT ![id] = Outcome(p)]
              /\ UNCHANGED <<asked, late>>
        BY <2>1, <2>3, <3>1, HandlerAnswers, OutcomeOf DEF TypeOK
      <3>3. CASE p \in Blocked
        BY <3>2, <3>3, OutcomeOf
      <3>4. CASE p \in Decisions
        BY <3>1, <3>2, <3>4, OutcomeOf DEF Promise!Answer, Promise!Answers,
           Promise!Verdicts, Decisions
      <3>5. QED
        BY <3>3, <3>4
    <2>4. ASSUME NEW o \in Operators, CallLookup(o)
          PROVE  \E id \in Ids, v \in Promise!Verdicts : Promise!Rule(id, v)
      <3>1. PICK id \in Ids, v \in Verdicts :
              phase[id] # "new" /\ asked' = asked \cup {<<id, v>>}
        BY <2>4 DEF CallLookup
      <3>2. Outcome(phase[id]) # "none"
        BY <2>1, <3>1, OutcomeOf DEF TypeOK, Phases, Blocked, Decisions
      <3>3. UNCHANGED <<out, late>>
        BY <2>4 DEF CallLookup
      <3>4. QED
        BY <3>1, <3>2, <3>3 DEF Promise!Rule, Promise!Verdicts, Verdicts
    <2>5. ASSUME NEW o \in Operators, CallStep(o) PROVE UNCHANGED Promise!vars
      BY <2>1, <2>5, CallStepEffect DEF TypeOK
    <2>6. ASSUME NEW id \in Ids, ExpiresAtPasses(id) PROVE Promise!Pass(id)
      <3>1. Outcome(phase[id]) # "none"
        BY <2>1, <2>6, OutcomeOf DEF ExpiresAtPasses, TypeOK, Phases, Blocked, Decisions
      <3>2. QED
        BY <2>6, <3>1 DEF ExpiresAtPasses, Promise!Pass
    <2>7. CASE CrashRestart
      <3>1. ASSUME NEW id \in Ids
            PROVE  Outcome(phase'[id]) = IF Outcome(phase[id]) = "open" THEN "lost"
                                                         ELSE Outcome(phase[id])
        <4>1. phase[id] \in Blocked <=> Outcome(phase[id]) = "open"
          BY <2>1, OutcomeOf DEF TypeOK, Phases, Decisions
        <4>2. QED
          BY <2>1, <2>7, <4>1, OutcomeOf DEF CrashRestart, TypeOK
      <3>2. QED
        BY <2>7, <3>1 DEF CrashRestart, Promise!Lose, Promise!Next
    <2>8. CASE CleanupExpired \/ StoreCleanup \/ UNCHANGED vars
      BY <2>8 DEF CleanupExpired, StoreCleanup
    <2>9. QED
      BY <2>2, <2>3, <2>4, <2>5, <2>6, <2>7, <2>8 DEF Next, Promise!Next
  <1>3. QED
    BY <1>1, <1>2, AskedInductive, PTL DEF Spec

=============================================================================
