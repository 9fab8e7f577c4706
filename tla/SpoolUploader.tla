------------------------------ MODULE SpoolUploader ------------------------------
(***************************************************************************)
(* The spool between the collector and Parachute Pro: JSONLExporter        *)
(* appends records to a file, HTTPBatchExporter reads the file from a      *)
(* saved offset, posts what it reads in batches and moves the offset.      *)
(* Nothing but the file is shared: there is no lock between them, and the  *)
(* process may die between any two steps.                                  *)
(*                                                                         *)
(* The file is a sequence of cells.  A line is the two halves of a record  *)
(* and a newline, so a line can be cut before, inside and after its JSON,  *)
(* and an offset can be right, short, or past the end of the file.         *)
(* Records are 1, 2, ... in the order they are exported.                   *)
(***************************************************************************)
EXTENDS Integers, Sequences, FiniteSets

CONSTANTS MaxRecords,   \* bound on the records exported
          MaxExport,    \* records in one call of Export
          BatchSize,    \* HTTPBatchConfig.BatchSize
          Torn,         \* may a batch be written in part: over 64 KB, or failing?
          MaxFaults     \* bound on crashes, lost answers and failed writes

ASSUME UploaderAssumption ==
  /\ MaxRecords \in Nat
  /\ MaxExport \in Nat \ {0}
  /\ BatchSize \in Nat \ {0}
  /\ Torn \in BOOLEAN
  /\ MaxFaults \in Nat

VARIABLES file,      \* the cells of the JSONL file
          buffer,    \* the cells Export has still to write
          made,      \* number of records exported so far
          saved,     \* content of the offset file; Empty when it holds nothing
          pc,        \* uploadPending: "idle", "scan", "send", "truncate", "write"
          offset,    \* its variable offset
          bytesRead, \* its variable bytesRead
          batch,     \* its variable batch
          atEOF,     \* has the scanner seen the end of the file?
          got,       \* Pro: the batches with which it heard something new, in order
          faults,    \* number of faults so far
          again,     \* history: has Pro received a record twice?
          torn       \* history: records whose line was not written in one piece

readerVars == <<pc, offset, bytesRead, batch, atEOF>>
vars == <<file, buffer, made, saved, readerVars, got, faults, again, torn>>

Ids     == 1..MaxRecords
Half(r, k) == [rec |-> r, half |-> k]
Newline == [rec |-> 0, half |-> 0]
Cells   == [rec: Ids, half: {1, 2}] \cup {Newline}
Body(r) == <<Half(r, 1), Half(r, 2)>>
Line(r) == Append(Body(r), Newline)
Empty   == -1

TypeOK ==
  /\ file \in Seq(Cells)
  /\ buffer \in Seq(Cells)
  /\ made \in 0..MaxRecords
  /\ saved \in Nat \cup {Empty}
  /\ pc \in {"idle", "scan", "send", "truncate", "write"}
  /\ offset \in Nat
  /\ bytesRead \in Nat
  /\ batch \in Seq(Ids)
  /\ Len(batch) <= BatchSize
  /\ atEOF \in BOOLEAN
  /\ got \in Seq(Seq(Ids))
  /\ faults \in 0..MaxFaults
  /\ again \in BOOLEAN
  /\ torn \subseteq Ids

Init ==
  /\ file = <<>>
  /\ buffer = <<>>
  /\ made = 0
  /\ saved = Empty
  /\ pc = "idle"
  /\ offset = 0
  /\ bytesRead = 0
  /\ batch = <<>>
  /\ atEOF = FALSE
  /\ got = <<>>
  /\ faults = 0
  /\ again = FALSE
  /\ torn = {}

-----------------------------------------------------------------------------
(* JSONLExporter.                                                          *)

Unterminated(cells) == cells # <<>> /\ cells[Len(cells)] # Newline

(* Export of the next n records: their lines go into the buffer.  The first *)
(* of them is spoilt if the file ends in half a line.                       *)
Lines(first, n) == [i \in 1..3 * n |-> Line(first + ((i - 1) \div 3))[((i - 1) % 3) + 1]]

Export(n) ==
  /\ buffer = <<>>
  /\ made + n <= MaxRecords
  /\ buffer' = Lines(made + 1, n)
  /\ made' = made + n
  /\ torn' = IF Unterminated(file) THEN torn \cup {made + 1} ELSE torn
  /\ UNCHANGED <<file, saved, readerVars, got, faults, again>>

(* A write of the file: all of the buffer, or, when it does not fit, the   *)
(* first 64 KB of it, wherever that cuts a line.  A write that fails       *)
(* leaves such a part, and the writer keeps its error: for the reader that *)
(* is a process that stops writing here until it dies.                     *)
Write(k) ==
  /\ k = Len(buffer) \/ Torn
  /\ file' = file \o SubSeq(buffer, 1, k)
  /\ buffer' = SubSeq(buffer, k + 1, Len(buffer))
  /\ torn' = IF k < Len(buffer) /\ buffer[k] # Newline
             THEN torn \cup {buffer[k].rec} ELSE torn
  /\ UNCHANGED <<made, saved, readerVars, got, faults, again>>

-----------------------------------------------------------------------------
(* HTTPBatchExporter.uploadPending.                                        *)

LoadOffset == IF saved = Empty THEN 0 ELSE saved

(* A tick of the flush interval. *)
Tick ==
  /\ pc = "idle"
  /\ file # <<>>
  /\ pc' = "scan"
  /\ offset' = LoadOffset
  /\ bytesRead' = 0
  /\ batch' = <<>>
  /\ atEOF' = FALSE
  /\ UNCHANGED <<file, buffer, made, saved, got, faults, again, torn>>

(* What json.Unmarshal makes of a line: a record only of an intact one. *)
Parsed(line) == {r \in Ids : line = Body(r)}
\* Wrong on purpose: puts the newest record first.
WithRecordFirst(line) == IF Parsed(line) = {} THEN batch
                         ELSE <<CHOOSE r \in Parsed(line) : TRUE>> \o batch

WithRecord(line) == IF Parsed(line) = {} THEN batch
                    ELSE Append(batch, CHOOSE r \in Parsed(line) : TRUE)

(* One round of the loop over the scanner.  The rest of the file after its *)
(* last newline is a line for the scanner, too, and the last one it gives. *)
Position == offset + bytesRead
LineEnds(from) == {i \in from + 1..Len(file) : file[i] = Newline}
First(S) == CHOOSE i \in S : \A j \in S : i <= j

\* Wrong on purpose: sends a batch one record too late.
ScanLate ==
  /\ pc = "scan"
  /\ LET ends    == LineEnds(Position)
         last    == IF ends = {} THEN Len(file) ELSE First(ends) - 1
         line    == SubSeq(file, Position + 1, last)
         isToken == ends # {} \/ line # <<>>
         more    == IF isToken THEN WithRecord(line) ELSE batch
         done    == atEOF \/ ends = {}
     IN  /\ atEOF' = done
         /\ batch' = more
         /\ bytesRead' = IF isToken THEN bytesRead + Len(line) + 1 ELSE bytesRead
         /\ pc' = IF Len(more) > BatchSize \/ (done /\ more # <<>>) THEN "send"
                  ELSE IF done THEN "idle" ELSE "scan"
  /\ UNCHANGED <<file, buffer, made, saved, offset, got, faults, again, torn>>

\* Wrong on purpose: what is left at the end of the file is not sent.
ScanFullBatches ==
  /\ pc = "scan"
  /\ LET ends    == LineEnds(Position)
         last    == IF ends = {} THEN Len(file) ELSE First(ends) - 1
         line    == SubSeq(file, Position + 1, last)
         isToken == ends # {} \/ line # <<>>
         more    == IF isToken THEN WithRecord(line) ELSE batch
         done    == atEOF \/ ends = {}
     IN  /\ atEOF' = done
         /\ batch' = more
         /\ bytesRead' = IF isToken THEN bytesRead + Len(line) + 1 ELSE bytesRead
         /\ pc' = IF Len(more) >= BatchSize THEN "send"
                  ELSE IF done THEN "idle" ELSE "scan"
  /\ UNCHANGED <<file, buffer, made, saved, offset, got, faults, again, torn>>

Scan ==
  /\ pc = "scan"
  /\ LET ends    == LineEnds(Position)
         last    == IF ends = {} THEN Len(file) ELSE First(ends) - 1
         line    == SubSeq(file, Position + 1, last)
         isToken == ends # {} \/ line # <<>>
         more    == IF isToken THEN WithRecord(line) ELSE batch
         done    == atEOF \/ ends = {}
     IN  /\ atEOF' = done
         /\ batch' = more
         /\ bytesRead' = IF isToken THEN bytesRead + Len(line) + 1 ELSE bytesRead
         /\ pc' = IF Len(more) >= BatchSize \/ (done /\ more # <<>>) THEN "send"
                  ELSE IF done THEN "idle" ELSE "scan"
  /\ UNCHANGED <<file, buffer, made, saved, offset, got, faults, again, torn>>

(* What Pro has when it has received the batch once more. *)
Holds(b, r) == \E i \in 1..Len(b) : b[i] = r
Received(r) == \E p \in 1..Len(got) : Holds(got[p], r)
Receives ==
  /\ got' = IF \A r \in Ids : Holds(batch, r) => Received(r) THEN got ELSE Append(got, batch)
  /\ again' = (again \/ \E r \in Ids : Holds(batch, r) /\ Received(r))

(* sendBatch: Pro answers ... *)
SendAnswered ==
  /\ pc = "send"
  /\ Receives
  /\ pc' = "truncate"
  /\ UNCHANGED <<file, buffer, made, saved, offset, bytesRead, batch, atEOF, faults, torn>>

(* ... or it has the batch and the answer is lost, late or an error ...    *)
SendUnanswered ==
  /\ pc = "send"
  /\ faults < MaxFaults
  /\ faults' = faults + 1
  /\ Receives
  /\ pc' = "idle"
  /\ UNCHANGED <<file, buffer, made, saved, offset, bytesRead, batch, atEOF, torn>>

\* Wrong on purpose: does not look at the error.
SendFailsUnseen ==
  /\ pc = "send"
  /\ pc' = "truncate"
  /\ UNCHANGED <<file, buffer, made, saved, offset, bytesRead, batch, atEOF, got, faults,
                 again, torn>>

(* ... or it does not have it.  Both are retried at the next tick.       *)
SendFails ==
  /\ pc = "send"
  /\ pc' = "idle"
  /\ UNCHANGED <<file, buffer, made, saved, offset, bytesRead, batch, atEOF, got, faults,
                 again, torn>>

(* saveOffset: os.WriteFile truncates the file and then writes it; either  *)
(* may fail, and nobody asks.                                              *)
Truncate ==
  /\ pc = "truncate"
  /\ saved' = Empty
  /\ pc' = "write"
  /\ UNCHANGED <<file, buffer, made, offset, bytesRead, batch, atEOF, got, faults, again,
                 torn>>

NextRound ==
  /\ offset' = offset + bytesRead
  /\ bytesRead' = 0
  /\ batch' = <<>>
  /\ pc' = IF atEOF THEN "idle" ELSE "scan"
  /\ UNCHANGED atEOF

\* Wrong on purpose: saves the length of the batch.
SaveLength ==
  /\ pc = "write"
  /\ saved' = bytesRead
  /\ NextRound
  /\ UNCHANGED <<file, buffer, made, got, faults, again, torn>>

SaveOffset ==
  /\ pc = "write"
  /\ saved' = offset + bytesRead
  /\ NextRound
  /\ UNCHANGED <<file, buffer, made, got, faults, again, torn>>

SaveFails ==
  /\ pc \in {"truncate", "write"}
  /\ faults < MaxFaults
  /\ faults' = faults + 1
  /\ NextRound
  /\ UNCHANGED <<file, buffer, made, saved, got, again, torn>>

Upload == Tick \/ Scan \/ SendAnswered \/ SendUnanswered \/ SendFails
            \/ Truncate \/ SaveOffset \/ SaveFails

-----------------------------------------------------------------------------
(* The process dies, or exits without waiting for the uploader; the next   *)
(* one appends to the file and reads the offset it finds.                  *)
Crash ==
  /\ faults < MaxFaults
  /\ faults' = faults + 1
  /\ buffer' = <<>>
  /\ pc' = "idle"
  /\ UNCHANGED <<file, made, saved, offset, bytesRead, batch, atEOF, got, again, torn>>

Next ==
  \/ \E n \in 1..MaxExport : Export(n)
  \/ \E k \in 1..Len(buffer) : Write(k)
  \/ Upload
  \/ Crash

Spec == Init /\ [][Next]_vars

(* Both loops are scheduled, and Pro answers again and again: what it may  *)
(* not do is fail for ever.                                                *)
FairSpec ==
  /\ Spec
  /\ WF_vars(\E k \in 1..Len(buffer) : Write(k))
  /\ WF_vars(Tick) /\ WF_vars(Scan) /\ WF_vars(Truncate \/ SaveOffset \/ SaveFails)
  /\ SF_vars(SendAnswered)

-----------------------------------------------------------------------------
(* Properties.                                                             *)

(* Record r is in the file from cell i+1 on, whole and with its newline. *)
Whole(r, i) == SubSeq(file, i + 1, i + 3) = Line(r)
WholeBefore(end) == {r \in Ids : \E i \in 0..end - 3 : Whole(r, i)}

(* The offset on disk has passed a record only when Pro has it, unless its *)
(* line was not written in one piece: crashes, lost answers and failed     *)
(* writes of the offset cost no record.                                    *)
OffsetFollowsPro ==
  \A r \in WholeBefore(IF saved <= Len(file) THEN saved ELSE Len(file)) :
    Received(r) \/ r \in torn

(* Pro first hears of the records in the order they were exported, retries *)
(* and re-reads from the start of the file included: an untorn record that *)
(* comes after a newer one has come before it as well.                     *)
FirstCopiesInOrder ==
  \A p, q \in 1..Len(got) : \A i \in 1..Len(got[p]), j \in 1..Len(got[q]) :
    got[q][j] < got[p][i] /\ got[q][j] \notin torn =>
      \E b \in 1..p : \E k \in 1..Len(got[b]) : (b < p \/ k < i) /\ got[b][k] = got[q][j]

(* A record goes twice only after a fault: a failed attempt that did not   *)
(* reach Pro, and the loop's own bookkeeping, repeat nothing.              *)
NoNeedlessCopies == again => faults > 0

(* Every record that reaches the file in one piece reaches Pro, however    *)
(* often the process dies and Pro fails to answer.                         *)
RecordsArrive ==
  \A r \in Ids :
    r \in WholeBefore(Len(file)) ~> Received(r) \/ r \in torn

(* "It also serves as the write-ahead log for the HTTP batch exporter":    *)
(* what is in the log, and behind the offset, has been exported.           *)
LogIsExported ==
  \A r \in WholeBefore(IF saved <= Len(file) THEN saved ELSE Len(file)) : Received(r)

=============================================================================
