------------------------------ MODULE SDRCollector ------------------------------
(***************************************************************************)
(* The telemetry pipeline of internal/telemetry inside one process, with   *)
(* what survives it: callers of Record link a record to the agent's hash   *)
(* chain and put it on a bounded queue without blocking; the export loop   *)
(* batches the queue into the JSONL spool; the head of the chain is saved  *)
(* every FsyncInterval records; main stops the loop and the collector      *)
(* while the servers, and so the callers, still run.                       *)
(*                                                                         *)
(* A record is its hash and the hash it links to.  Hashes are 1, 2, ... in *)
(* the order the records are made (each has an SDRID of its own, so no two *)
(* are equal); 0 is "genesis".  The spool is the records written whole, an *)
(* export is one step; the torn line a crash or a failed write can leave   *)
(* behind them belongs to the reader of the spool (SpoolUploader).         *)
(***************************************************************************)
EXTENDS Integers, Sequences, FiniteSets

CONSTANTS Callers,         \* goroutines that call Record
          QueueSize,       \* capacity of Collector.queue
          BatchSize,       \* 50 in exportLoop
          FsyncInterval,   \* fsyncInterval of chain_state.go
          DiskFaults,      \* may the disk fail: the spool, the chain state?
          MaxRecords,      \* bound on the records made
          MaxRestarts      \* bound on the processes after the first

ASSUME CollectorAssumption ==
  /\ IsFiniteSet(Callers)
  /\ QueueSize \in Nat \ {0}
  /\ BatchSize \in Nat \ {0}
  /\ FsyncInterval \in Nat \ {0}
  /\ DiskFaults \in BOOLEAN
  /\ MaxRecords \in Nat
  /\ MaxRestarts \in Nat

VARIABLES chain,      \* ChainState in memory: PrevHash and Sequence
          dirty,      \* ChainState.dirtyCount
          failed,     \* history: saves failed since the last that succeeded
          disk,       \* the chain state file
          caller,     \* caller[c]: the call of Record that c is in
          queue,      \* Collector.queue
          open,       \* FALSE once exportLoop has closed the queue
          batch,      \* exportLoop's batch
          loop,       \* exportLoop: "run", "drain", "done"
          main,       \* main: "serving", "stopping", "closed"
          count,      \* eventsRecorded, eventsDropped, and calls that panicked
          spool,      \* the records in the JSONL file
          broken,     \* the exporter's bufio.Writer has failed: its error stays
          lost,       \* history: records whose export failed, in this process
          made,       \* history: records made, the supply of hashes
          sent,       \* history: the spool found, and then what the queue took
          life        \* history: restarts so far, and chain.seq and made at the last

chainVars  == <<chain, dirty, disk, failed>>
spoolVars  == <<spool, broken, lost>>
exportVars == <<queue, open, batch, loop, spoolVars>>
histVars   == <<made, sent, life>>
vars == <<chainVars, exportVars, histVars, caller, main, count>>

Genesis == 0
Hashes  == Nat
Records == [hash: Hashes, prev: Hashes]
Heads   == [head: Hashes, seq: Nat]
Calls   == [at: {"idle", "linked"}, prev: Hashes] \cup [at: {"built"}, rec: Records]
Idle    == [at |-> "idle", prev |-> Genesis]

TypeOK ==
  /\ chain \in Heads
  /\ disk \in Heads
  /\ dirty \in Nat
  /\ failed \in Nat
  /\ caller \in [Callers -> Calls]
  /\ queue \in Seq(Records)
  /\ Len(queue) <= QueueSize
  /\ batch \in Seq(Records)
  /\ Len(batch) < BatchSize
  /\ spool \in Seq(Records)
  /\ broken \in BOOLEAN
  /\ lost \in Seq(Records)
  /\ sent \in Seq(Records)
  /\ open \in BOOLEAN
  /\ loop \in {"run", "drain", "done"}
  /\ main \in {"serving", "stopping", "closed"}
  /\ count \in [recorded: Nat, dropped: Nat, panicked: Nat]
  /\ made \in Nat
  /\ life \in [restarts: Nat, seq: Nat, made: Nat]

Init ==
  /\ chain = [head |-> Genesis, seq |-> 0]
  /\ disk = chain
  /\ dirty = 0
  /\ failed = 0
  /\ caller = [c \in Callers |-> Idle]
  /\ queue = <<>>
  /\ batch = <<>>
  /\ spool = <<>>
  /\ broken = FALSE
  /\ lost = <<>>
  /\ sent = <<>>
  /\ open = TRUE
  /\ loop = "run"
  /\ main = "serving"
  /\ count = [recorded |-> 0, dropped |-> 0, panicked |-> 0]
  /\ made = 0
  /\ life = [restarts |-> 0, seq |-> 0, made |-> 0]

-----------------------------------------------------------------------------
(* Record.                                                                 *)

(* GetChainInfo, under the lock of the chain state. *)
Link(c) ==
  /\ caller[c].at = "idle"
  /\ caller' = [caller EXCEPT ![c] = [at |-> "linked", prev |-> chain.head]]
  /\ UNCHANGED <<chainVars, exportVars, histVars, main, count>>

(* Wrong on purpose: the dirty count is reset before the file is written. *)
SaveResetsFirst(newChain, newDirty) ==
  \/ disk' = newChain /\ dirty' = 0 /\ failed' = 0
  \/ DiskFaults /\ disk' = disk /\ dirty' = 0 /\ failed' = failed + 1

(* syncLocked with the new state: a temporary file, fsync and rename.      *)
Save(newChain, newDirty) ==
  \/ disk' = newChain /\ dirty' = 0 /\ failed' = 0
  \/ DiskFaults /\ disk' = disk /\ dirty' = newDirty /\ failed' = failed + 1

(* Wrong on purpose: PrevHash is left alone, the sequence moves on. *)
AdvanceSequenceOnly(c) ==
  /\ caller[c].at = "linked"
  /\ made < MaxRecords
  /\ made' = made + 1
  /\ chain' = [chain EXCEPT !.seq = @ + 1]
  /\ IF dirty + 1 >= FsyncInterval THEN Save(chain', dirty + 1)
     ELSE dirty' = dirty + 1 /\ UNCHANGED <<disk, failed>>
  /\ caller' = [caller EXCEPT ![c] =
       [at |-> "built", rec |-> [hash |-> made + 1, prev |-> caller[c].prev]]]
  /\ UNCHANGED <<exportVars, sent, life, main, count>>

(* The record is built, hashed and signed; then Advance, under the lock.   *)
Advance(c) ==
  /\ caller[c].at = "linked"
  /\ made < MaxRecords
  /\ made' = made + 1
  /\ chain' = [head |-> made + 1, seq |-> chain.seq + 1]
  /\ IF dirty + 1 >= FsyncInterval THEN Save(chain', dirty + 1)
     ELSE dirty' = dirty + 1 /\ UNCHANGED <<disk, failed>>
  /\ caller' = [caller EXCEPT ![c] =
       [at |-> "built", rec |-> [hash |-> made + 1, prev |-> caller[c].prev]]]
  /\ UNCHANGED <<exportVars, sent, life, main, count>>

(* Wrong on purpose: a record that finds the queue full is not counted. *)
EnqueueUncounted(c) ==
  /\ caller[c].at = "built"
  /\ IF open /\ Len(queue) < QueueSize
     THEN /\ queue' = Append(queue, caller[c].rec)
          /\ sent' = Append(sent, caller[c].rec)
          /\ count' = [count EXCEPT !.recorded = @ + 1]
     ELSE /\ count' = [count EXCEPT !.panicked = IF open THEN @ ELSE @ + 1]
          /\ UNCHANGED <<queue, sent>>
  /\ caller' = [caller EXCEPT ![c] = Idle]
  /\ UNCHANGED <<chainVars, open, batch, loop, spoolVars, made, life, main>>

(* The select with a default: queued, dropped, or, once exportLoop has     *)
(* closed the queue, a panic.  The fiber servers recover from it; a        *)
(* connection of the forward proxy does not, and its panic is the death of *)
(* the process, which Restart allows at any moment.                        *)
Enqueue(c) ==
  /\ caller[c].at = "built"
  /\ \/ /\ ~open
        /\ count' = [count EXCEPT !.panicked = @ + 1]
        /\ UNCHANGED <<queue, sent>>
     \/ /\ open /\ Len(queue) < QueueSize
        /\ queue' = Append(queue, caller[c].rec)
        /\ sent' = Append(sent, caller[c].rec)
        /\ count' = [count EXCEPT !.recorded = @ + 1]
     \/ /\ open /\ Len(queue) >= QueueSize
        /\ count' = [count EXCEPT !.dropped = @ + 1]
        /\ UNCHANGED <<queue, sent>>
  /\ caller' = [caller EXCEPT ![c] = Idle]
  /\ UNCHANGED <<chainVars, open, batch, loop, spoolVars, made, life, main>>

-----------------------------------------------------------------------------
(* exportLoop.                                                             *)

(* flush and JSONLExporter.Export: the records are in the file when Export *)
(* returns, or the write fails, after any number of them.  The writer      *)
(* keeps its first error, so every later export of the process fails, too; *)
(* flush throws the error away, and the batch with it.                     *)
Export(records) ==
  \/ /\ ~broken
     /\ spool' = spool \o records
     /\ UNCHANGED <<broken, lost>>
  \/ /\ ~broken /\ DiskFaults
     /\ broken' = TRUE
     /\ \E k \in 0..Len(records) - 1 :
          /\ spool' = spool \o SubSeq(records, 1, k)
          /\ lost' = lost \o SubSeq(records, k + 1, Len(records))
  \/ /\ broken
     /\ lost' = lost \o records
     /\ UNCHANGED <<spool, broken>>

(* Wrong on purpose: the batch is flushed one record too late. *)
ReceiveLate ==
  /\ loop = "run"
  /\ queue # <<>>
  /\ queue' = Tail(queue)
  /\ LET full == Append(batch, Head(queue)) IN
       \/ Len(full) > BatchSize /\ Export(full) /\ batch' = <<>>
       \/ Len(full) <= BatchSize /\ batch' = full /\ UNCHANGED spoolVars
  /\ UNCHANGED <<chainVars, open, loop, histVars, caller, main, count>>

(* A receive; a full batch is flushed at once. *)
Receive ==
  /\ loop = "run"
  /\ queue # <<>>
  /\ queue' = Tail(queue)
  /\ LET full == Append(batch, Head(queue)) IN
       \/ Len(full) >= BatchSize /\ Export(full) /\ batch' = <<>>
       \/ Len(full) < BatchSize /\ batch' = full /\ UNCHANGED spoolVars
  /\ UNCHANGED <<chainVars, open, loop, histVars, caller, main, count>>

(* Wrong on purpose: the batch is flushed and kept. *)
TickKeeps ==
  /\ loop = "run"
  /\ batch # <<>>
  /\ Export(batch)
  /\ UNCHANGED <<chainVars, queue, batch, open, loop, histVars, caller, main, count>>

(* Wrong on purpose: a tick flushes full batches only. *)
TickWhenFull ==
  /\ loop = "run"
  /\ Len(batch) >= BatchSize
  /\ Export(batch)
  /\ batch' = <<>>
  /\ UNCHANGED <<chainVars, queue, open, loop, histVars, caller, main, count>>

(* A tick of the 100 ms ticker. *)
Tick ==
  /\ loop = "run"
  /\ batch # <<>>
  /\ Export(batch)
  /\ batch' = <<>>
  /\ UNCHANGED <<chainVars, queue, open, loop, histVars, caller, main, count>>

(* The context is done: the queue is closed ... *)
CloseQueue ==
  /\ loop = "run"
  /\ main # "serving"
  /\ open' = FALSE
  /\ loop' = "drain"
  /\ UNCHANGED <<chainVars, queue, batch, spoolVars, histVars, caller, main, count>>

(* Wrong on purpose: done is not closed. *)
DrainWithoutDone ==
  /\ loop = "drain"
  /\ Export(batch \o queue)
  /\ batch' = <<>>
  /\ queue' = <<>>
  /\ UNCHANGED <<chainVars, open, loop, histVars, caller, main, count>>

(* ... and what it held is flushed with the batch. *)
Drain ==
  /\ loop = "drain"
  /\ Export(batch \o queue)
  /\ batch' = <<>>
  /\ queue' = <<>>
  /\ loop' = "done"
  /\ UNCHANGED <<chainVars, open, histVars, caller, main, count>>

ExportStep == Receive \/ Tick \/ CloseQueue \/ Drain

-----------------------------------------------------------------------------
(* main and the process.                                                   *)

Signal ==
  /\ main = "serving"
  /\ main' = "stopping"
  /\ UNCHANGED <<chainVars, exportVars, histVars, caller, count>>

(* Wrong on purpose: Close does not wait for the loop. *)
CloseCollectorAtOnce ==
  /\ main = "stopping"
  /\ main' = "closed"
  /\ Save(chain, dirty)
  /\ UNCHANGED <<chain, exportVars, histVars, caller, count>>

(* Collector.Close: waits for the loop, saves the chain and closes the     *)
(* exporters.  The servers are shut down only after it.                    *)
CloseCollector ==
  /\ main = "stopping"
  /\ loop = "done"
  /\ main' = "closed"
  /\ Save(chain, dirty)
  /\ UNCHANGED <<chain, exportVars, histVars, caller, count>>

(* The process exits, or is killed at any moment, and the next one starts  *)
(* with LoadChainState and the file it finds, or with genesis when it      *)
(* cannot read it; and it opens the spool anew.                            *)
Restart ==
  /\ life.restarts < MaxRestarts
  /\ \/ chain' = disk
     \/ DiskFaults /\ chain' = [head |-> Genesis, seq |-> 0]
  /\ dirty' = 0
  /\ failed' = 0
  /\ caller' = [c \in Callers |-> Idle]
  /\ queue' = <<>>
  /\ batch' = <<>>
  /\ open' = TRUE
  /\ loop' = "run"
  /\ main' = "serving"
  /\ count' = [recorded |-> 0, dropped |-> 0, panicked |-> 0]
  /\ broken' = FALSE
  /\ lost' = <<>>
  /\ sent' = spool
  /\ life' = [restarts |-> life.restarts + 1, seq |-> chain'.seq, made |-> made]
  /\ UNCHANGED <<disk, spool, made>>

Next ==
  \/ \E c \in Callers : Link(c) \/ Advance(c) \/ Enqueue(c)
  \/ ExportStep
  \/ Signal
  \/ CloseCollector
  \/ Restart

Spec == Init /\ [][Next]_vars

(* The loop and main are scheduled; requests, signals and crashes are not  *)
(* anybody's obligation.                                                   *)
FairSpec ==
  Spec /\ WF_vars(ExportStep) /\ WF_vars(CloseCollector)

-----------------------------------------------------------------------------
(* Properties.                                                             *)

(* Every record the queue took is in the spool, lost to a failed write, in *)
(* the batch or in the queue, in the order it was taken, once.  Batching,  *)
(* ticking, closing the queue under its senders and a restart neither      *)
(* lose, repeat nor reorder one; and because the writer keeps its error,   *)
(* what a failure loses is the end of what was taken: the spool never has  *)
(* a hole, and in a process whose writer is sound nothing is lost.         *)
SpoolInOrder ==
  /\ spool \o (lost \o (batch \o queue)) = sent
  /\ broken \/ lost = <<>>

(* When Collector.Close has returned, everything taken is in the spool, or *)
(* lost if the writer has failed: none is left in the queue or the batch.  *)
CloseExportsAll ==
  main = "closed" => spool \o lost = sent /\ (broken \/ spool = sent)

(* The chain on disk lags the chain in memory by exactly the dirty count,  *)
(* through failed saves and restarts, unless the process could not read    *)
(* its file and has saved nothing since: then all of the chain is dirty.   *)
(* The lag, which is what a crash can make the agent forget, is less than  *)
(* FsyncInterval, and one more for each save in a row that has failed.     *)
DiskLag ==
  /\ \/ chain.seq = disk.seq + dirty
     \/ DiskFaults /\ life.seq = 0 /\ chain.seq = dirty
  /\ dirty < FsyncInterval + failed

(* Each record the chain advanced over since the start is recorded,        *)
(* dropped, failed on the closed queue, or still in the hands of a caller. *)
EveryRecordIsAccounted ==
  chain.seq - life.seq =
    count.recorded + count.dropped + count.panicked
      + Cardinality({c \in Callers : caller[c].at = "built"})

(* Reading the head and advancing it are two critical sections, so callers *)
(* can link to the same record; but in one process no record has more      *)
(* children than there are callers (one caller: the records form a chain). *)
Children(h) == {i \in 1..Len(sent) : sent[i].hash > life.made /\ sent[i].prev = h}
ForksAreBounded ==
  \A i \in 1..Len(sent) : Cardinality(Children(sent[i].prev)) <= Cardinality(Callers)

(* Main gets through Collector.Close, whatever the callers are doing. *)
CloseReturns == main = "stopping" ~> main # "stopping"

(* A queued record reaches the spool, in a batch that never fills as well, *)
(* unless the writer fails or the process ends before.                     *)
IsIn(h, records) == \E i \in 1..Len(records) : records[i].hash = h
RecordsAreExported ==
  \A h \in 1..MaxRecords, n \in 0..MaxRestarts :
    life.restarts = n /\ IsIn(h, batch \o queue)
      ~> IsIn(h, spool) \/ broken \/ life.restarts > n

(* "Records must be sorted by their position in the chain (i.e., each      *)
(* record's prev_hash must equal the preceding record's record_hash)":     *)
(* sdr.ValidateChain accepts the spool.                                    *)
ValidChain(records) ==
  \A i \in 1..Len(records) :
    records[i].prev = IF i = 1 THEN Genesis ELSE records[i-1].hash
SpoolIsValidChain == ValidChain(spool)

(* "Non-blocking. Drops the event if the queue is full.": Record returns. *)
RecordReturns == count.panicked = 0

=============================================================================
