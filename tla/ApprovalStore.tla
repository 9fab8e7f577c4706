----------------------------- MODULE ApprovalStore -----------------------------
(***************************************************************************)
(* The SQLite store behind the approval queue (internal/storage): one row  *)
(* of pending_commands per request and the rows of audit_log, counted per  *)
(* request and event.                                                      *)
(*                                                                         *)
(* Every operation holds Store.mu for its whole length, so each one is one *)
(* step.  GetStatus is the exception: it drops its read lock before it     *)
(* takes the write lock to mark a row expired, so it is two operations     *)
(* here (the read is a plain look at status, the write is MarkExpired).    *)
(* With StoreFaults an operation may fail and change nothing: the disk is  *)
(* full, or main has closed the database while the servers still run.      *)
(***************************************************************************)
EXTENDS Naturals

CONSTANTS Ids,          \* request ids (the first 8 characters of a UUID)
          StoreFaults   \* may a database call fail?

ASSUME StoreFaultsAssumption == StoreFaults \in BOOLEAN

VARIABLES status,   \* status[id]: column status of the row, "none" without a row
          audit     \* audit[id][e]: rows of audit_log with command_id id, event e

storeVars == <<status, audit>>

Verdicts == {"approved", "denied"}
Events   == Verdicts \cup {"expired"}
Statuses == {"none", "pending"} \cup Events

StoreTypeOK ==
  /\ status \in [Ids -> Statuses]
  /\ audit \in [Ids -> [Events -> Nat]]

StoreInit ==
  /\ status = [id \in Ids |-> "none"]
  /\ audit = [id \in Ids |-> [e \in Events |-> 0]]

(* Store.Add: the insert of a new row. *)
InsertPending(id) ==
  \/ status' = [status EXCEPT ![id] = "pending"]
  \/ StoreFaults /\ UNCHANGED status

\* Wrong on purpose: an UPDATE without "AND status = 'pending'".
UpdateStatusAlways(id, v, updated) ==
  /\ updated
  /\ status' = [status EXCEPT ![id] = IF @ = "none" THEN @ ELSE v]

(* Store.UpdateStatus: only a pending row changes; "updated" is what the   *)
(* caller is told (an error counts as FALSE).                              *)
UpdateStatus(id, v, updated) ==
  \/ /\ updated
     /\ status[id] = "pending"
     /\ status' = [status EXCEPT ![id] = v]
  \/ /\ ~updated
     /\ status[id] # "pending" \/ StoreFaults
     /\ UNCHANGED status

\* Wrong on purpose: trusts the status read before the lock was dropped.
MarkExpiredUnchecked(id) == status' = [status EXCEPT ![id] = "expired"]

(* The UPDATE at the end of GetStatus, under the write lock. *)
MarkExpired(id) ==
  \/ status' = [status EXCEPT ![id] = IF @ = "pending" THEN "expired" ELSE @]
  \/ StoreFaults /\ UNCHANGED status

(* One tick of Store.cleanupLoop; late: the ids whose expires_at has passed. *)
ExpireOverdue(late) ==
  status' = [id \in Ids |-> IF status[id] = "pending" /\ id \in late
                            THEN "expired" ELSE status[id]]

(* Store.LogEvent for every id of S; each insert may fail on its own. *)
LogEvent(S, e) ==
  \E logged \in SUBSET S :
    /\ logged = S \/ StoreFaults
    /\ audit' = [id \in Ids |-> IF id \in logged THEN [audit[id] EXCEPT ![e] = @ + 1]
                                                ELSE audit[id]]

=============================================================================
