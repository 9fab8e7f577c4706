-------------------------- MODULE SpoolUploader_proofs --------------------------
(***************************************************************************)
(* The offset of the uploader never passes a record that Pro does not      *)
(* have, for files, batches and numbers of faults of any size.             *)
(*                                                                         *)
(* The argument is about places in the file.  An offset, whether saved or  *)
(* held by the loop, stands behind a newline, behind a cell of a torn      *)
(* record, or one past an end that is not a newline (AtMark).  So the next *)
(* line the scanner finds is a record of its own or belongs to a torn one, *)
(* and what is whole before the place has been read (ReadBefore) and, once *)
(* Pro has answered, sent (SentBefore).                                    *)
(***************************************************************************)
EXTENDS SpoolUploader, SequenceTheorems, WellFoundedInduction, TLAPS

Places == {"idle", "scan", "send", "truncate", "write"}

(* Record r is whole and its newline is cell n. *)
EndsAt(r, n) ==
  /\ n \in 3..Len(file)
  /\ file[n - 2] = Half(r, 1) /\ file[n - 1] = Half(r, 2) /\ file[n] = Newline

Kept(r) == Received(r) \/ r \in torn

SentBefore(p) == \A r \in Ids, n \in 3..Len(file) : n <= p /\ EndsAt(r, n) => Kept(r)
ReadBefore(p) ==
  \A r \in Ids, n \in 3..Len(file) : n <= p /\ EndsAt(r, n) => Kept(r) \/ Holds(batch, r)

AtMark(p) ==
  /\ p <= Len(file) + 1
  /\ p \in 1..Len(file) => file[p] = Newline \/ file[p].rec \in torn
  /\ p = Len(file) + 1 => Unterminated(file)

(* The buffer is lines but for its first one, which a write may have cut.  *)
BufferIsLines ==
  \A j \in 1..Len(buffer) - 1 :
    /\ buffer[j].half = 1 => buffer[j + 1] = Half(buffer[j].rec, 2)
    /\ buffer[j].half = 2 => buffer[j + 1] = Newline

(* What the buffer adds to an unfinished line belongs to a torn record.    *)
CutIsTorn ==
  Unterminated(file) /\ buffer # <<>> =>
    IF buffer[1] = Newline THEN file[Len(file)].rec \in torn ELSE buffer[1].rec \in torn

(* So does a record that starts in the middle of a line.                   *)
SpoiltIsTorn ==
  \A r \in Ids, j \in 1..Len(file) - 1 :
    file[j] # Newline /\ file[j + 1] = Half(r, 1) => r \in torn

BatchIsOpen == pc = "scan" => Len(batch) < BatchSize

OffsetOK ==
  /\ saved # Empty => AtMark(saved) /\ SentBefore(saved)
  /\ pc \in {"scan", "send"} => AtMark(Position) /\ ReadBefore(Position)
  /\ pc \in {"truncate", "write"} => AtMark(Position) /\ SentBefore(Position)

FileOK == BufferIsLines /\ CutIsTorn /\ SpoiltIsTorn
IInv == TypeOK /\ BatchIsOpen /\ FileOK /\ OffsetOK

(* Until something fails the file is the records in order, three cells     *)
(* each, and what Pro has ends where the loop stands or before.            *)
InPlace ==
  /\ Len(file) + Len(buffer) = 3 * made
  /\ \A i \in 1..Len(file) : file[i].half = 1 => i = 3 * file[i].rec - 2
  /\ \A j \in 1..Len(buffer) : buffer[j].half = 1 => Len(file) + j = 3 * buffer[j].rec - 2

SentOnce ==
  /\ ~again
  /\ pc \in {"idle", "scan", "send"} =>
       \A r \in Ids : Received(r) => saved # Empty /\ 3 * r <= saved
  /\ pc \in {"scan", "send"} =>
       /\ offset = LoadOffset
       /\ \A r \in Ids : Holds(batch, r) => offset < 3 * r /\ 3 * r <= Position
  /\ pc \in {"truncate", "write"} => \A r \in Ids : Received(r) => 3 * r <= Position

FaultlessOK == faults = 0 => InPlace /\ SentOnce

(* The records stand in the file and behind it in the order they were made.*)
Ordered(i, f, j, g) == f[i] # Newline /\ g[j] # Newline => f[i].rec <= g[j].rec

SortedOK ==
  /\ \A i, j \in 1..Len(file) : i <= j => Ordered(i, file, j, file)
  /\ \A i, j \in 1..Len(buffer) : i <= j => Ordered(i, buffer, j, buffer)
  /\ \A i \in 1..Len(file), j \in 1..Len(buffer) : Ordered(i, file, j, buffer)
  /\ \A i \in 1..Len(file) : file[i] # Newline => file[i].rec <= made
  /\ \A j \in 1..Len(buffer) : buffer[j] # Newline => buffer[j].rec <= made

(* A line that does not end yet, or ends in another, is a torn one.        *)
EndsAreTorn ==
  /\ Unterminated(file) => file[Len(file)].rec \in torn
  /\ buffer # <<>> => buffer[Len(buffer)] = Newline
  /\ \A r \in Ids, m \in 1..Len(file) - 1 :
       file[m] = Half(r, 2) /\ file[m + 1] # Newline => r \in torn

(* Both halves of the record are in the file.                              *)
Appears(r) == \E m \in 1..Len(file) - 1 : file[m] = Half(r, 1) /\ file[m + 1] = Half(r, 2)
Missed(s, r) == s < r /\ Appears(s) /\ s \notin torn

(* A record goes after all the older ones, in the batch and at Pro.        *)
BatchInOrder ==
  pc \in {"scan", "send"} =>
    \A i \in 1..Len(batch) :
      /\ Appears(batch[i])
      /\ \A s \in Ids :
           Missed(s, batch[i]) => Received(s) \/ \E k \in 1..i - 1 : batch[k] = s

GotInOrder ==
  \A p \in 1..Len(got) : \A i \in 1..Len(got[p]) :
    /\ Appears(got[p][i])
    /\ \A s \in Ids : Missed(s, got[p][i]) =>
         \E b \in 1..p : \E k \in 1..Len(got[b]) : (b < p \/ k < i) /\ got[b][k] = s

OrderOK == SortedOK /\ EndsAreTorn /\ BatchInOrder /\ GotInOrder

-----------------------------------------------------------------------------
(* A nonempty set of numbers has a least one: what First stands for.       *)
LEMMA LeastOf ==
  ASSUME NEW S, S \subseteq Nat, S # {}
  PROVE  First(S) \in S /\ \A j \in S : First(S) <= j
<1>1. IsWellFoundedOn(OpToRel(<, Nat), Nat)  BY NatLessThanWellFounded
<1>2. PICK i \in S : \A j \in S : ~(<<j, i>> \in OpToRel(<, Nat))
  BY <1>1, WFMin
<1>3. ASSUME NEW j \in S PROVE i <= j
  <2>1. ~(<<j, i>> \in OpToRel(<, Nat))  BY <1>2
  <2>2. i \in Nat /\ j \in Nat          OBVIOUS
  <2>3. ~(j < i)                         BY <2>1, <2>2 DEF OpToRel
  <2>. QED  BY <2>2, <2>3
<1>. QED  BY <1>3 DEF First

(* The two halves of a record and the newline are three different cells.   *)
LEMMA CellsDiffer ==
  /\ \A r, k : Half(r, k).rec = r /\ Half(r, k).half = k
  /\ Newline.half = 0 /\ Newline.rec = 0
  /\ \A r, k : k \in {1, 2} => Half(r, k) # Newline
  /\ \A r \in Ids, k \in {1, 2} : Half(r, k) \in Cells
  /\ Newline \in Cells
  /\ \A c \in Cells : c # Newline => c.rec \in Ids /\ c.half \in {1, 2} /\ c = Half(c.rec, c.half)
  BY DEF Half, Newline, Cells, Ids

LEMMA LineIsThreeCells ==
  ASSUME NEW r \in Ids
  PROVE  /\ Body(r) \in Seq(Cells) /\ Len(Body(r)) = 2
         /\ Body(r)[1] = Half(r, 1) /\ Body(r)[2] = Half(r, 2)
         /\ Line(r) \in Seq(Cells) /\ Len(Line(r)) = 3
         /\ Line(r)[1] = Half(r, 1) /\ Line(r)[2] = Half(r, 2) /\ Line(r)[3] = Newline
<1>1. Half(r, 1) \in Cells /\ Half(r, 2) \in Cells /\ Newline \in Cells  BY CellsDiffer
<1>2. Body(r) \in Seq(Cells) /\ Len(Body(r)) = 2 /\ Body(r)[1] = Half(r, 1)
        /\ Body(r)[2] = Half(r, 2)
  BY <1>1 DEF Body
<1>3. ASSUME NEW b \in Seq(Cells), Len(b) = 2
      PROVE  /\ Append(b, Newline) \in Seq(Cells) /\ Len(Append(b, Newline)) = 3
             /\ Append(b, Newline)[3] = Newline
             /\ \A i \in 1..2 : Append(b, Newline)[i] = b[i]
  <2>1. /\ Append(b, Newline) \in Seq(Cells) /\ Len(Append(b, Newline)) = Len(b) + 1
        /\ Append(b, Newline)[Len(b) + 1] = Newline
        /\ \A i \in 1..Len(b) : Append(b, Newline)[i] = b[i]
    BY <1>1, AppendProperties
  <2>. QED  BY <1>3, <2>1
<1>4. Line(r) = Append(Body(r), Newline)  BY DEF Line
<1>. QED  BY <1>2, <1>3, <1>4

(* The cells of the lines of n records, and what follows what in them.     *)
LEMMA LinesAreLines ==
  ASSUME NEW first \in Nat \ {0}, NEW n \in Nat \ {0}, first + n - 1 <= MaxRecords,
         MaxRecords \in Nat
  PROVE  /\ Lines(first, n) \in Seq(Cells)
         /\ Len(Lines(first, n)) = 3 * n
         /\ Lines(first, n)[1] = Half(first, 1)
         /\ \A j \in 1..3 * n : Lines(first, n)[j].half = 1 =>
              j = 3 * (Lines(first, n)[j].rec - first) + 1
         /\ \A j \in 1..3 * n - 1 :
              /\ Lines(first, n)[j].half = 1 =>
                   Lines(first, n)[j + 1] = Half(Lines(first, n)[j].rec, 2)
              /\ Lines(first, n)[j].half = 2 => Lines(first, n)[j + 1] = Newline
         /\ Lines(first, n)[3 * n] = Newline
         /\ \A i, j \in 1..3 * n : i <= j => Ordered(i, Lines(first, n), j, Lines(first, n))
         /\ \A j \in 1..3 * n : Lines(first, n)[j] # Newline =>
              first <= Lines(first, n)[j].rec /\ Lines(first, n)[j].rec <= first + n - 1
<1>. DEFINE rec(j) == first + ((j - 1) \div 3)
            cell(j) == Lines(first, n)[j]
<1>1. \A j \in 1..3 * n : rec(j) \in Ids  BY DEF Ids
<1>2. \A r \in Ids :
        Line(r)[1] = Half(r, 1) /\ Line(r)[2] = Half(r, 2) /\ Line(r)[3] = Newline
  BY LineIsThreeCells
<1>3. ASSUME NEW j \in 1..3 * n
      PROVE  \/ (j - 1) % 3 = 0 /\ cell(j) = Half(rec(j), 1)
             \/ (j - 1) % 3 = 1 /\ cell(j) = Half(rec(j), 2)
             \/ (j - 1) % 3 = 2 /\ cell(j) = Newline
  <2>1. cell(j) = Line(rec(j))[((j - 1) % 3) + 1]  BY DEF Lines
  <2>2. (j - 1) % 3 \in {0, 1, 2}  OBVIOUS
  <2>. QED  BY <2>1, <2>2, <1>1, <1>2
<1>4. \A j \in 1..3 * n : cell(j) \in Cells  BY <1>1, <1>3, CellsDiffer
<1>5. Lines(first, n) \in Seq(Cells) /\ Len(Lines(first, n)) = 3 * n
  <2>1. Lines(first, n) = [j \in 1..3 * n |-> cell(j)]  BY DEF Lines
  <2>2. 3 * n \in Nat  OBVIOUS
  <2>. QED  BY <2>1, <2>2, <1>4
<1>6. cell(1) = Half(first, 1)
  <2>1. 1 \in 1..3 * n /\ rec(1) = first /\ (1 - 1) % 3 = 0  OBVIOUS
  <2>. QED  BY <2>1, <1>3
<1>7. ASSUME NEW j \in 1..3 * n, cell(j).half = 1 PROVE j = 3 * (cell(j).rec - first) + 1
  <2>1. (j - 1) % 3 = 0 /\ cell(j) = Half(rec(j), 1)  BY <1>3, <1>7, CellsDiffer
  <2>2. j - 1 = 3 * ((j - 1) \div 3)  BY <2>1
  <2>3. cell(j).rec = rec(j)  BY <2>1, CellsDiffer
  <2>. QED  BY <2>2, <2>3
<1>8. ASSUME NEW j \in 1..3 * n - 1
      PROVE  /\ cell(j).half = 1 => cell(j + 1) = Half(cell(j).rec, 2)
             /\ cell(j).half = 2 => cell(j + 1) = Newline
  <2>1. j \in 1..3 * n /\ j + 1 \in 1..3 * n  OBVIOUS
  <2>2. ASSUME cell(j).half = 1 PROVE cell(j + 1) = Half(cell(j).rec, 2)
    <3>1. (j - 1) % 3 = 0 /\ cell(j) = Half(rec(j), 1)  BY <2>1, <2>2, <1>3, CellsDiffer
    <3>2. (j + 1 - 1) % 3 = 1 /\ rec(j + 1) = rec(j)  BY <3>1
    <3>3. cell(j + 1) = Half(rec(j + 1), 2)  BY <3>2, <2>1, <1>3
    <3>4. cell(j).rec = rec(j)  BY <3>1, CellsDiffer
    <3>. HIDE DEF cell, rec
    <3>. QED  BY <3>2, <3>3, <3>4
  <2>3. ASSUME cell(j).half = 2 PROVE cell(j + 1) = Newline
    <3>1. (j - 1) % 3 = 1  BY <2>1, <2>3, <1>3, CellsDiffer
    <3>2. (j + 1 - 1) % 3 = 2  BY <3>1
    <3>. QED  BY <3>2, <2>1, <1>3
  <2>. QED  BY <2>2, <2>3
<1>9. cell(3 * n) = Newline
  <2>1. 3 * n \in 1..3 * n /\ (3 * n - 1) % 3 = 2  OBVIOUS
  <2>. QED  BY <2>1, <1>3, CellsDiffer
<1>10. \A j \in 1..3 * n : cell(j) # Newline => cell(j).rec = rec(j)  BY <1>3, CellsDiffer
<1>. HIDE DEF cell
<1>11. \A j \in 1..3 * n : cell(j) # Newline => first <= cell(j).rec /\ cell(j).rec <= first + n - 1
  <2>1. \A j \in 1..3 * n : first <= rec(j) /\ rec(j) <= first + n - 1  OBVIOUS
  <2>. QED  BY <1>10, <2>1
<1>12. ASSUME NEW i \in 1..3 * n, NEW j \in 1..3 * n, i <= j, cell(i) # Newline, cell(j) # Newline
       PROVE  cell(i).rec <= cell(j).rec
  <2>1. rec(i) <= rec(j)  BY <1>12
  <2>. QED  BY <1>10, <1>12, <2>1
<1>. QED  BY <1>5, <1>6, <1>7, <1>8, <1>9, <1>11, <1>12 DEF cell, Ordered

-----------------------------------------------------------------------------
(* What the steps do, cell by cell.                                        *)
LEMMA WriteMoves ==
  ASSUME TypeOK, NEW k \in 1..Len(buffer), Write(k)
  PROVE  /\ file' \in Seq(Cells) /\ Len(file') = Len(file) + k
         /\ \A i \in 1..Len(file) : file'[i] = file[i]
         /\ \A i \in 1..k : file'[Len(file) + i] = buffer[i]
         /\ buffer' \in Seq(Cells) /\ Len(buffer') = Len(buffer) - k
         /\ \A j \in 1..Len(buffer) - k : buffer'[j] = buffer[k + j]
         /\ torn \subseteq torn' /\ torn' \subseteq Ids
         /\ k < Len(buffer) /\ buffer[k] # Newline => buffer[k].rec \in torn'
<1>. file \in Seq(Cells) /\ buffer \in Seq(Cells) /\ torn \subseteq Ids /\ k \in Nat
  BY DEF TypeOK
<1>. Len(file) \in Nat /\ Len(buffer) \in Nat  BY LenProperties
<1>0. \A i \in 1..Len(buffer) : buffer[i] \in Cells  BY ElementOfSeq
<1>1. /\ SubSeq(buffer, 1, k) \in Seq(Cells) /\ Len(SubSeq(buffer, 1, k)) = k
      /\ \A i \in 1..k : SubSeq(buffer, 1, k)[i] = buffer[i]
  <2>1. \A i \in 1..k : buffer[i] \in Cells  BY <1>0
  <2>. QED  BY <2>1, SubSeqProperties
<1>2. /\ buffer' \in Seq(Cells) /\ Len(buffer') = Len(buffer) - k
      /\ \A j \in 1..Len(buffer) - k : buffer'[j] = buffer[k + j]
  <2>1. buffer' = SubSeq(buffer, k + 1, Len(buffer))  BY DEF Write
  <2>2. \A i \in k + 1..Len(buffer) : buffer[i] \in Cells  BY <1>0
  <2>. QED  BY <2>1, <2>2, SubSeqProperties
<1>3. file' = file \o SubSeq(buffer, 1, k)  BY DEF Write
<1>4. /\ file' \in Seq(Cells) /\ Len(file') = Len(file) + k
      /\ \A i \in 1..Len(file) : file'[i] = file[i]
      /\ \A i \in 1..k : file'[Len(file) + i] = buffer[i]
  BY <1>1, <1>3, ConcatProperties
<1>5. buffer[k] # Newline => buffer[k].rec \in Ids  BY <1>0, CellsDiffer
<1>6. /\ torn \subseteq torn' /\ torn' \subseteq Ids
      /\ k < Len(buffer) /\ buffer[k] # Newline => buffer[k].rec \in torn'
  BY <1>5 DEF Write
<1>. QED  BY <1>2, <1>4, <1>6

LEMMA ExportFills ==
  ASSUME TypeOK, NEW n \in 1..MaxExport, Export(n)
  PROVE  /\ buffer = <<>> /\ buffer' \in Seq(Cells) /\ Len(buffer') = 3 * n
         /\ buffer'[1] = Half(made + 1, 1)
         /\ BufferIsLines'
         /\ \A j \in 1..Len(buffer') : buffer'[j].half = 1 => 3 * made + j = 3 * buffer'[j].rec - 2
         /\ buffer'[Len(buffer')] = Newline
         /\ \A i, j \in 1..Len(buffer') : i <= j => Ordered(i, buffer', j, buffer')
         /\ \A j \in 1..Len(buffer') : buffer'[j] # Newline =>
              made < buffer'[j].rec /\ buffer'[j].rec <= made'
         /\ made + 1 \in Ids /\ made' = made + n /\ made' \in 0..MaxRecords
         /\ torn \subseteq torn' /\ torn' \subseteq Ids
         /\ Unterminated(file) => made + 1 \in torn'
<1>. MaxRecords \in Nat /\ MaxExport \in Nat  BY UploaderAssumption
<1>1. made \in Nat /\ n \in Nat \ {0} /\ made + n <= MaxRecords /\ made + 1 \in Nat \ {0}
  BY DEF TypeOK, Export
<1>2. buffer = <<>> /\ buffer' = Lines(made + 1, n) /\ made' = made + n  BY DEF Export
<1>3. made + 1 + n - 1 <= MaxRecords  BY <1>1
<1>4. /\ buffer' \in Seq(Cells) /\ Len(buffer') = 3 * n
      /\ buffer'[1] = Half(made + 1, 1)
      /\ \A j \in 1..3 * n : buffer'[j].half = 1 => j = 3 * (buffer'[j].rec - (made + 1)) + 1
      /\ \A j \in 1..3 * n - 1 :
           /\ buffer'[j].half = 1 => buffer'[j + 1] = Half(buffer'[j].rec, 2)
           /\ buffer'[j].half = 2 => buffer'[j + 1] = Newline
      /\ buffer'[3 * n] = Newline
      /\ \A i, j \in 1..3 * n : i <= j => Ordered(i, buffer', j, buffer')
      /\ \A j \in 1..3 * n : buffer'[j] # Newline =>
           made + 1 <= buffer'[j].rec /\ buffer'[j].rec <= made + 1 + n - 1
  BY <1>1, <1>2, <1>3, LinesAreLines
<1>5. BufferIsLines'  BY <1>4 DEF BufferIsLines
<1>6. made + 1 \in Ids /\ made' \in 0..MaxRecords  BY <1>1, <1>2 DEF Ids
<1>7. /\ torn \subseteq torn' /\ torn' \subseteq Ids
      /\ Unterminated(file) => made + 1 \in torn'
  BY <1>6 DEF Export, TypeOK
<1>8. ASSUME NEW j \in 1..Len(buffer'), buffer'[j].half = 1
      PROVE  3 * made + j = 3 * buffer'[j].rec - 2
  <2>1. j = 3 * (buffer'[j].rec - (made + 1)) + 1  BY <1>4, <1>8
  <2>2. buffer'[j].rec \in Ids  BY <1>4, <1>8, ElementOfSeq, CellsDiffer
  <2>3. buffer'[j].rec \in Int /\ j \in Int  BY <2>2, <1>4 DEF Ids
  <2>. QED  BY <1>1, <2>1, <2>3
<1>9. \A j \in 1..Len(buffer') : buffer'[j] # Newline =>
        made < buffer'[j].rec /\ buffer'[j].rec <= made'
  <2>1. \A j \in 1..Len(buffer') : buffer'[j] # Newline => buffer'[j].rec \in Int
    BY <1>4, ElementOfSeq, CellsDiffer DEF Ids
  <2>. QED  BY <1>1, <1>2, <1>4, <2>1
<1>. QED  BY <1>1, <1>2, <1>4, <1>5, <1>6, <1>7, <1>8, <1>9

(* A line adds to the batch the record it is, and nothing else.            *)
LEMMA LineIsParsed ==
  ASSUME TypeOK, NEW line
  PROVE  /\ WithRecord(line) \in Seq(Ids)
         /\ Len(WithRecord(line)) \in {Len(batch), Len(batch) + 1}
         /\ \A r \in Ids : Holds(WithRecord(line), r) <=> Holds(batch, r) \/ line = Body(r)
         /\ \/ WithRecord(line) = batch
            \/ \E r \in Ids : line = Body(r) /\ WithRecord(line) = Append(batch, r)
<1>. batch \in Seq(Ids)  BY DEF TypeOK
<1>. Len(batch) \in Nat  BY LenProperties
<1>1. CASE Parsed(line) = {}
  BY <1>1 DEF WithRecord, Parsed
<1>2. CASE Parsed(line) # {}
  <2>. DEFINE x == CHOOSE r \in Parsed(line) : TRUE
  <2>1. x \in Ids /\ line = Body(x)  BY <1>2 DEF Parsed
  <2>2. WithRecord(line) = Append(batch, x)  BY <1>2 DEF WithRecord
  <2>3. \A r \in Ids : line = Body(r) <=> r = x
    <3>1. \A r \in Ids : Body(r)[1].rec = r  BY LineIsThreeCells, CellsDiffer
    <3>. QED  BY <2>1, <3>1
  <2>. HIDE DEF x
  <2>4. /\ Append(batch, x) \in Seq(Ids) /\ Len(Append(batch, x)) = Len(batch) + 1
        /\ \A i \in 1..Len(batch) : Append(batch, x)[i] = batch[i]
        /\ Append(batch, x)[Len(batch) + 1] = x
    BY <2>1, AppendProperties
  <2>5. \A r \in Ids : Holds(Append(batch, x), r) <=> Holds(batch, r) \/ r = x
    BY <2>4 DEF Holds
  <2>. QED  BY <2>1, <2>2, <2>3, <2>4, <2>5
<1>. QED  BY <1>1, <1>2
(* A round of the scanner goes past the next newline, to one past the end  *)
(* of the file, or nowhere.                                                *)
LEMMA ScanGoesOn ==
  ASSUME TypeOK, Scan
  PROVE  /\ offset' = offset /\ bytesRead' \in Nat /\ atEOF' \in BOOLEAN
         /\ pc' \in {"idle", "scan", "send"}
         /\ pc' = "scan" => Len(batch') < BatchSize
         /\ \/ \E n \in LineEnds(Position) :
                 /\ \A j \in LineEnds(Position) : n <= j
                 /\ offset' + bytesRead' = n
                 /\ batch' = WithRecord(SubSeq(file, Position + 1, n - 1))
            \/ /\ LineEnds(Position) = {} /\ Position < Len(file)
               /\ offset' + bytesRead' = Len(file) + 1
               /\ batch' = WithRecord(SubSeq(file, Position + 1, Len(file)))
            \/ /\ LineEnds(Position) = {} /\ Position >= Len(file)
               /\ offset' + bytesRead' = Position
               /\ batch' = batch
<1>. DEFINE ends    == LineEnds(Position)
            last    == IF ends = {} THEN Len(file) ELSE First(ends) - 1
            line    == SubSeq(file, Position + 1, last)
            isToken == ends # {} \/ line # <<>>
            more    == IF isToken THEN WithRecord(line) ELSE batch
            done    == atEOF \/ ends = {}
<1>1. /\ atEOF' = done /\ batch' = more /\ offset' = offset
      /\ bytesRead' = IF isToken THEN bytesRead + Len(line) + 1 ELSE bytesRead
      /\ pc' = IF Len(more) >= BatchSize \/ (done /\ more # <<>>) THEN "send"
               ELSE IF done THEN "idle" ELSE "scan"
  BY DEF Scan
<1>2. /\ file \in Seq(Cells) /\ Len(file) \in Nat /\ offset \in Nat /\ bytesRead \in Nat
      /\ atEOF \in BOOLEAN /\ batch \in Seq(Ids) /\ BatchSize \in Nat
      /\ \A i \in 1..Len(file) : file[i] \in Cells
  BY UploaderAssumption, LenProperties, ElementOfSeq DEF TypeOK
<1>3. Position \in Nat /\ Position = offset + bytesRead  BY <1>2 DEF Position
<1>4. ends \subseteq Position + 1..Len(file)  BY DEF LineEnds
<1>5. ends # {} => First(ends) \in ends /\ \A j \in ends : First(ends) <= j
  <2>1. ends \subseteq Nat  BY <1>2, <1>3, <1>4
  <2>. QED  BY <2>1, LeastOf
<1>6. ends # {} => First(ends) \in Position + 1..Len(file)  BY <1>4, <1>5
<1>7. last \in Int /\ last <= Len(file)  BY <1>2, <1>3, <1>6
<1>8. /\ line \in Seq(Cells)
      /\ Len(line) = IF Position + 1 <= last THEN last - Position ELSE 0
  <2>1. \A i \in Position + 1..last : file[i] \in Cells  BY <1>2, <1>3, <1>7
  <2>2. Position + 1 \in Int  BY <1>3
  <2>3. /\ line \in Seq(Cells)
        /\ Len(line) = IF Position + 1 <= last THEN last - (Position + 1) + 1 ELSE 0
    BY <1>7, <2>1, <2>2, SubSeqProperties
  <2>. QED  BY <1>3, <1>7, <2>3
<1>9. isToken <=> ends # {} \/ Len(line) # 0  BY <1>8, EmptySeq
<1>10. more \in Seq(Ids) /\ Len(more) \in Nat
  BY <1>2, LineIsParsed, LenProperties
<1>. HIDE DEF line, isToken, more, done
<1>11. pc' = "scan" => Len(batch') < BatchSize  BY <1>1, <1>2, <1>10
<1>12. bytesRead' \in Nat /\ atEOF' \in BOOLEAN /\ pc' \in {"idle", "scan", "send"}
  <2>1. Len(line) \in Nat  BY <1>8, LenProperties
  <2>. QED  BY <1>1, <1>2, <2>1 DEF done
<1>13. CASE ends # {}
  <2>1. last = First(ends) - 1 /\ First(ends) \in Int /\ First(ends) > Position
    BY <1>2, <1>3, <1>6, <1>13
  <2>2. Len(line) = First(ends) - 1 - Position  BY <1>3, <1>8, <2>1
  <2>3. offset' + bytesRead' = First(ends)
    <3>1. bytesRead' = bytesRead + Len(line) + 1  BY <1>1, <1>9, <1>13
    <3>. QED  BY <1>1, <1>2, <1>3, <2>1, <2>2, <3>1
  <2>4. batch' = WithRecord(SubSeq(file, Position + 1, First(ends) - 1))
    BY <1>1, <1>9, <1>13 DEF more, line
  <2>. QED  BY <1>1, <1>5, <1>11, <1>12, <1>13, <2>3, <2>4
<1>14. CASE ends = {} /\ Position < Len(file)
  <2>1. last = Len(file) /\ Len(line) = Len(file) - Position  BY <1>2, <1>3, <1>8, <1>14
  <2>2. isToken
    <3>0. Position \in Nat /\ Len(file) \in Nat /\ Position < Len(file)  BY <1>2, <1>3, <1>14
    <3>1. Len(line) # 0  BY <2>1, <3>0
    <3>. QED  BY <1>9, <3>1
  <2>3. offset' + bytesRead' = Len(file) + 1
    <3>1. bytesRead' = bytesRead + Len(line) + 1  BY <1>1, <2>2
    <3>. QED  BY <1>1, <1>2, <1>3, <2>1, <3>1
  <2>4. batch' = WithRecord(SubSeq(file, Position + 1, Len(file)))
    BY <1>1, <1>14, <2>2 DEF more, line
  <2>. QED  BY <1>1, <1>11, <1>12, <1>14, <2>3, <2>4
<1>15. CASE ends = {} /\ Position >= Len(file)
  <2>1. last = Len(file) /\ Len(line) = 0  BY <1>2, <1>3, <1>8, <1>15
  <2>2. ~isToken  BY <1>9, <1>15, <2>1
  <2>3. offset' + bytesRead' = Position /\ batch' = batch  BY <1>1, <1>3, <2>2 DEF more
  <2>. QED  BY <1>1, <1>11, <1>12, <1>15, <2>3
<1>. QED  BY <1>2, <1>3, <1>13, <1>14, <1>15

(* Pro has what it had and the batch.                                      *)
LEMMA BatchIsReceived ==
  ASSUME TypeOK, Receives
  PROVE  /\ got' \in Seq(Seq(Ids))
         /\ \A r \in Ids : Received(r)' <=> Received(r) \/ Holds(batch, r)
<1>. got \in Seq(Seq(Ids)) /\ batch \in Seq(Ids)  BY DEF TypeOK
<1>. Len(got) \in Nat  BY LenProperties
<1>1. CASE \A r \in Ids : Holds(batch, r) => Received(r)
  BY <1>1 DEF Receives, Received, Holds
<1>2. CASE ~\A r \in Ids : Holds(batch, r) => Received(r)
  <2>1. got' = Append(got, batch)  BY <1>2 DEF Receives
  <2>2. /\ got' \in Seq(Seq(Ids)) /\ Len(got') = Len(got) + 1
        /\ \A p \in 1..Len(got) : got'[p] = got[p]
        /\ got'[Len(got) + 1] = batch
    BY <2>1, AppendProperties
  <2>3. ASSUME NEW r \in Ids PROVE Received(r)' <=> Received(r) \/ Holds(batch, r)
    <3>1. Received(r)' <=> \E p \in 1..Len(got) + 1 : Holds(got'[p], r)
      BY <2>2 DEF Received, Holds
    <3>2. \A p \in 1..Len(got) + 1 : p \in 1..Len(got) \/ p = Len(got) + 1  OBVIOUS
    <3>3. \A p \in 1..Len(got) : p \in 1..Len(got) + 1 /\ got'[p] = got[p]  BY <2>2
    <3>4. Len(got) + 1 \in 1..Len(got) + 1 /\ got'[Len(got) + 1] = batch  BY <2>2
    <3>5. Received(r) <=> \E p \in 1..Len(got) : Holds(got[p], r)  BY DEF Received
    <3>6. ASSUME Received(r)' PROVE Received(r) \/ Holds(batch, r)
      <4>1. PICK p \in 1..Len(got) + 1 : Holds(got'[p], r)  BY <3>1, <3>6
      <4>2. CASE p \in 1..Len(got)    BY <3>3, <3>5, <4>1, <4>2
      <4>3. CASE p = Len(got) + 1      BY <3>4, <4>1, <4>3
      <4>. QED  BY <3>2, <4>2, <4>3
    <3>7. ASSUME Received(r) \/ Holds(batch, r) PROVE Received(r)'
      BY <3>1, <3>3, <3>4, <3>5, <3>7
    <3>. QED  BY <3>6, <3>7
  <2>. QED  BY <2>2, <2>3
<1>. QED  BY <1>1, <1>2
-----------------------------------------------------------------------------
(* Types.                                                                  *)
LEMMA TypesStay ==
  ASSUME TypeOK, BatchIsOpen, [Next]_vars
  PROVE  TypeOK' /\ BatchIsOpen'
<1>. USE DEF TypeOK, BatchIsOpen
<1>0. MaxRecords \in Nat /\ MaxFaults \in Nat /\ BatchSize \in Nat \ {0}  BY UploaderAssumption
<1>1. ASSUME NEW n \in 1..MaxExport, Export(n) PROVE TypeOK' /\ BatchIsOpen'
  BY <1>1, ExportFills DEF Export, readerVars
<1>2. ASSUME NEW k \in 1..Len(buffer), Write(k) PROVE TypeOK' /\ BatchIsOpen'
  BY <1>2, WriteMoves DEF Write, readerVars
<1>3. CASE Tick
  <2>1. batch' \in Seq(Ids) /\ Len(batch') = 0 /\ offset' \in Nat
    BY <1>3 DEF Tick, LoadOffset, Empty
  <2>2. Len(batch') <= BatchSize /\ Len(batch') < BatchSize  BY <1>0, <2>1
  <2>. QED  BY <1>3, <2>1, <2>2 DEF Tick
<1>4. CASE Scan
  <2>1. batch' \in Seq(Ids) /\ Len(batch') \in {Len(batch), Len(batch) + 1}
    BY <1>4, ScanGoesOn, LineIsParsed
  <2>2. Len(batch) \in Nat /\ Len(batch) < BatchSize  BY <1>4, LenProperties DEF Scan
  <2>3. Len(batch') <= BatchSize  BY <1>0, <2>1, <2>2
  <2>. QED  BY <1>4, <2>1, <2>3, ScanGoesOn DEF Scan
<1>5. CASE SendAnswered
  BY <1>5, BatchIsReceived DEF SendAnswered, Receives
<1>6. CASE SendUnanswered
  BY <1>0, <1>6, BatchIsReceived DEF SendUnanswered, Receives
<1>7. CASE SendFails
  BY <1>7 DEF SendFails
<1>8. CASE Truncate
  BY <1>8 DEF Truncate
<1>9. CASE SaveOffset \/ SaveFails
  <2>1. batch' = <<>>  BY <1>9 DEF SaveOffset, SaveFails, NextRound
  <2>2. batch' \in Seq(Ids) /\ Len(batch') <= BatchSize /\ Len(batch') < BatchSize
    BY <1>0, <2>1, EmptySeq
  <2>. QED  BY <1>0, <1>9, <2>2 DEF SaveOffset, SaveFails, NextRound
<1>10. CASE Crash
  BY <1>0, <1>10 DEF Crash
<1>11. CASE UNCHANGED vars
  BY <1>11 DEF vars, readerVars
<1>. QED  BY <1>1, <1>2, <1>3, <1>4, <1>5, <1>6, <1>7, <1>8, <1>9, <1>10, <1>11 DEF Next, Upload

(* The uploader reads the file and nothing else.                           *)
LEMMA UploadReads ==
  ASSUME Upload \/ UNCHANGED vars
  PROVE  UNCHANGED <<file, buffer, made, torn>>
  BY DEF Upload, vars, Tick, Scan, SendAnswered, SendUnanswered, SendFails, Truncate, SaveOffset,
         SaveFails

-----------------------------------------------------------------------------
(* The file and its buffer.                                                *)
LEMMA FileStays ==
  ASSUME TypeOK, FileOK, [Next]_vars
  PROVE  FileOK'
<1>. USE DEF FileOK
<1>0. /\ file \in Seq(Cells) /\ buffer \in Seq(Cells)
      /\ Len(file) \in Nat /\ Len(buffer) \in Nat
      /\ \A i \in 1..Len(file) : file[i] \in Cells
      /\ \A i \in 1..Len(buffer) : buffer[i] \in Cells
  BY LenProperties, ElementOfSeq DEF TypeOK
<1>1. ASSUME NEW n \in 1..MaxExport, Export(n) PROVE FileOK'
  <2>1. file' = file  BY <1>1 DEF Export
  <2>2. CutIsTorn'
    <3>1. Unterminated(file) => buffer'[1].rec \in torn' /\ buffer'[1] # Newline
      BY <1>1, ExportFills, CellsDiffer
    <3>. QED  BY <2>1, <3>1 DEF CutIsTorn, Unterminated
  <2>3. SpoiltIsTorn'  BY <1>1, <2>1, ExportFills DEF SpoiltIsTorn
  <2>. QED  BY <1>1, <2>2, <2>3, ExportFills
<1>2. ASSUME NEW k \in 1..Len(buffer), Write(k) PROVE FileOK'
  <2>0. /\ file' \in Seq(Cells) /\ Len(file') = Len(file) + k
        /\ \A i \in 1..Len(file) : file'[i] = file[i]
        /\ \A i \in 1..k : file'[Len(file) + i] = buffer[i]
        /\ buffer' \in Seq(Cells) /\ Len(buffer') = Len(buffer) - k
        /\ \A j \in 1..Len(buffer) - k : buffer'[j] = buffer[k + j]
        /\ torn \subseteq torn'
        /\ k < Len(buffer) /\ buffer[k] # Newline => buffer[k].rec \in torn'
    BY <1>2, WriteMoves
  <2>1. BufferIsLines'
    <3>1. ASSUME NEW j \in 1..Len(buffer') - 1
          PROVE  /\ buffer'[j].half = 1 => buffer'[j + 1] = Half(buffer'[j].rec, 2)
                 /\ buffer'[j].half = 2 => buffer'[j + 1] = Newline
      <4>1. /\ k + j \in 1..Len(buffer) - 1 /\ k + (j + 1) = k + j + 1
            /\ j \in 1..Len(buffer) - k /\ j + 1 \in 1..Len(buffer) - k
        <5>1. /\ k \in Nat /\ k >= 1 /\ j \in Nat /\ j >= 1 /\ Len(buffer) \in Nat
              /\ j <= Len(buffer) - k - 1
          BY <1>0, <2>0
        <5>. QED  BY <5>1
      <4>2. buffer'[j] = buffer[k + j]  BY <2>0, <4>1
      <4>3. buffer'[j + 1] = buffer[k + (j + 1)]  BY <2>0, <4>1
      <4>. QED  BY <4>1, <4>2, <4>3 DEF BufferIsLines
    <3>. QED  BY <3>1 DEF BufferIsLines
  <2>2. CutIsTorn'
    <3>. SUFFICES ASSUME Unterminated(file'), buffer' # <<>>
                  PROVE  IF buffer'[1] = Newline THEN file'[Len(file')].rec \in torn'
                                                ELSE buffer'[1].rec \in torn'
      BY DEF CutIsTorn, Unterminated
    <3>1. Len(buffer') # 0  BY <2>0, EmptySeq
    <3>2. k < Len(buffer) /\ k \in 1..Len(buffer) - 1  BY <1>0, <2>0, <3>1
    <3>3. file'[Len(file')] = buffer[k] /\ buffer'[1] = buffer[k + 1]  BY <1>0, <2>0, <3>2
    <3>4. buffer[k] # Newline  BY <3>3 DEF Unterminated
    <3>5. buffer[k].rec \in torn' /\ buffer[k].half \in {1, 2}
      BY <1>0, <2>0, <3>2, <3>4, CellsDiffer
    <3>6. \/ buffer[k + 1] = Half(buffer[k].rec, 2)
          \/ buffer[k + 1] = Newline
      BY <3>2, <3>5 DEF BufferIsLines
    <3>. QED  BY <3>3, <3>5, <3>6, CellsDiffer
  <2>3. SpoiltIsTorn'
    <3>. SUFFICES ASSUME NEW r \in Ids, NEW j \in 1..Len(file') - 1,
                         file'[j] # Newline, file'[j + 1] = Half(r, 1)
                  PROVE  r \in torn'
      BY DEF SpoiltIsTorn
    <3>1. CASE j + 1 <= Len(file)
      <4>1. j \in 1..Len(file) - 1 /\ file'[j] = file[j] /\ file'[j + 1] = file[j + 1]
        BY <1>0, <2>0, <3>1
      <4>. QED  BY <2>0, <4>1 DEF SpoiltIsTorn
    <3>2. CASE j = Len(file)
      <4>1. file'[j] = file[Len(file)] /\ file'[j + 1] = buffer[1] /\ Len(file) # 0
        BY <1>0, <2>0, <3>2
      <4>2. Unterminated(file) /\ buffer # <<>>  BY <1>0, <4>1, EmptySeq DEF Unterminated
      <4>3. buffer[1] # Newline /\ buffer[1].rec = r  BY <4>1, CellsDiffer
      <4>. QED  BY <2>0, <4>2, <4>3 DEF CutIsTorn
    <3>3. CASE j > Len(file)
      <4>. DEFINE m == j - Len(file)
      <4>1. m \in 1..k - 1 /\ m \in 1..Len(buffer) - 1  BY <1>0, <2>0, <3>3
      <4>2. file'[j] = buffer[m] /\ file'[j + 1] = buffer[m + 1]
        <5>1. j = Len(file) + m /\ j + 1 = Len(file) + (m + 1) /\ m \in 1..k /\ m + 1 \in 1..k
          BY <1>0, <2>0, <4>1
        <5>. QED  BY <2>0, <5>1
      <4>3. buffer[m] \in Cells  BY <1>0, <4>1
      <4>4. buffer[m].half \in {1, 2}  BY <4>2, <4>3, CellsDiffer
      <4>5. buffer[m + 1] = Half(buffer[m].rec, 2) \/ buffer[m + 1] = Newline
        BY <4>1, <4>4 DEF BufferIsLines
      <4>6. buffer[m + 1].half = 1  BY <4>2, CellsDiffer
      <4>. QED  BY <4>5, <4>6, CellsDiffer
    <3>4. j \in Int  OBVIOUS
    <3>. QED  BY <1>0, <3>1, <3>2, <3>3, <3>4
  <2>. QED  BY <2>1, <2>2, <2>3
<1>3. CASE Crash
  BY <1>3 DEF Crash, BufferIsLines, CutIsTorn, SpoiltIsTorn
<1>4. CASE Upload \/ UNCHANGED vars
  BY <1>4, UploadReads DEF BufferIsLines, CutIsTorn, SpoiltIsTorn, Unterminated
<1>. QED  BY <1>1, <1>2, <1>3, <1>4 DEF Next
-----------------------------------------------------------------------------
(* The offset.                                                             *)

(* A write leaves every mark a mark, and the records it completes before   *)
(* one are torn.                                                           *)
LEMMA MarksStay ==
  ASSUME TypeOK, FileOK, NEW k \in 1..Len(buffer), Write(k), NEW p \in Nat, AtMark(p)
  PROVE  /\ p <= Len(file') + 1
         /\ p \in 1..Len(file') => file'[p] = Newline \/ file'[p].rec \in torn'
         /\ p # Len(file') + 1
         /\ \A r \in Ids, n \in 3..Len(file') :
              n <= p /\ EndsAt(r, n)' => r \in torn' \/ (n <= Len(file) /\ EndsAt(r, n))
<1>0. /\ Len(file) \in Nat /\ k \in Nat /\ k >= 1 /\ buffer # <<>>
  BY LenProperties, EmptySeq DEF TypeOK
<1>1. /\ Len(file') = Len(file) + k
      /\ \A i \in 1..Len(file) : file'[i] = file[i]
      /\ \A i \in 1..k : file'[Len(file) + i] = buffer[i]
      /\ torn \subseteq torn'
  BY WriteMoves
<1>2. p <= Len(file') + 1 /\ p # Len(file') + 1  BY <1>0, <1>1 DEF AtMark
<1>3. p \in 1..Len(file) => file'[p] = Newline \/ file'[p].rec \in torn'
  BY <1>1 DEF AtMark
<1>4. file'[Len(file) + 1] = buffer[1]  BY <1>0, <1>1
<1>5. p = Len(file) + 1 => file'[p] = Newline \/ file'[p].rec \in torn'
  BY <1>0, <1>1, <1>4 DEF AtMark, FileOK, CutIsTorn
<1>6. p \in 1..Len(file') => p \in 1..Len(file) \/ p = Len(file) + 1
  BY <1>0 DEF AtMark
<1>7. ASSUME NEW r \in Ids, NEW n \in 3..Len(file'), n <= p, EndsAt(r, n)'
      PROVE  r \in torn' \/ (n <= Len(file) /\ EndsAt(r, n))
  <2>0. file'[n - 2] = Half(r, 1) /\ file'[n - 1] = Half(r, 2) /\ file'[n] = Newline
    BY <1>7 DEF EndsAt, Half, Newline
  <2>1. CASE n <= Len(file)
    <3>1. n - 2 \in 1..Len(file) /\ n - 1 \in 1..Len(file) /\ n \in 3..Len(file)
      BY <1>0, <2>1
    <3>2. file[n - 2] = Half(r, 1)  BY <1>1, <2>0, <3>1
    <3>3. file[n - 1] = Half(r, 2)  BY <1>1, <2>0, <3>1
    <3>4. file[n] = Newline  BY <1>1, <2>0, <2>1
    <3>. QED  BY <2>1, <3>1, <3>2, <3>3, <3>4 DEF EndsAt
  <2>2. CASE n > Len(file)
    <3>1. p = Len(file) + 1 /\ n = Len(file) + 1 /\ n - 1 = Len(file) /\ Len(file) \in 1..Len(file)
      BY <1>0, <1>7, <2>2 DEF AtMark
    <3>2. file[Len(file)] = Half(r, 2) /\ buffer[1] = Newline  BY <1>1, <1>4, <2>0, <3>1
    <3>3. Unterminated(file)  BY <3>1 DEF AtMark
    <3>4. file[Len(file)].rec \in torn  BY <1>0, <3>2, <3>3 DEF FileOK, CutIsTorn
    <3>. QED  BY <1>1, <3>2, <3>4, CellsDiffer
  <2>. QED  BY <1>0, <2>1, <2>2
<1>. QED  BY <1>2, <1>3, <1>5, <1>6, <1>7

LEMMA WriteKeepsOffset ==
  ASSUME TypeOK, FileOK, OffsetOK, NEW k \in 1..Len(buffer), Write(k)
  PROVE  OffsetOK'
<1>1. UNCHANGED <<saved, pc, offset, bytesRead, batch, got>> /\ torn \subseteq torn'
  BY WriteMoves DEF Write, readerVars
<1>2. \A r : Kept(r) => Kept(r)'  BY <1>1 DEF Kept, Received, Holds
<1>3. Position \in Nat /\ Position' = Position  BY <1>1 DEF TypeOK, Position
<1>4. ASSUME saved # Empty PROVE AtMark(saved)' /\ SentBefore(saved)'
  <2>1. saved \in Nat  BY <1>4 DEF TypeOK
  <2>2. AtMark(saved) /\ SentBefore(saved)  BY <1>4 DEF OffsetOK
  <2>3. AtMark(saved)'  BY <1>1, <2>1, <2>2, MarksStay DEF AtMark
  <2>4. SentBefore(saved)'
    <3>1. \A r \in Ids, n \in 3..Len(file') :
            n <= saved /\ EndsAt(r, n)' => r \in torn' \/ (n <= Len(file) /\ EndsAt(r, n))
      BY <2>1, <2>2, MarksStay
    <3>2. \A r \in Ids, n \in 3..Len(file') : n <= saved /\ EndsAt(r, n)' => Kept(r)'
      BY <1>2, <2>2, <3>1 DEF SentBefore, Kept
    <3>. QED  BY <1>1, <3>2 DEF SentBefore
  <2>. QED  BY <2>3, <2>4
<1>5. ASSUME AtMark(Position)
      PROVE  /\ AtMark(Position)'
             /\ ReadBefore(Position) => ReadBefore(Position)'
             /\ SentBefore(Position) => SentBefore(Position)'
  <2>1. AtMark(Position)'  BY <1>3, <1>5, MarksStay DEF AtMark
  <2>2. \A r \in Ids, n \in 3..Len(file') :
          n <= Position /\ EndsAt(r, n)' => r \in torn' \/ (n <= Len(file) /\ EndsAt(r, n))
    BY <1>3, <1>5, MarksStay
  <2>3. \A n \in 3..Len(file') : n <= Len(file) => n \in 3..Len(file)
    BY LenProperties DEF TypeOK
  <2>4. ASSUME SentBefore(Position) PROVE SentBefore(Position)'
    <3>1. \A r \in Ids, n \in 3..Len(file') : n <= Position /\ EndsAt(r, n)' => Kept(r)'
      BY <1>2, <2>2, <2>3, <2>4 DEF SentBefore, Kept
    <3>. QED  BY <1>3, <3>1 DEF SentBefore
  <2>5. ASSUME ReadBefore(Position) PROVE ReadBefore(Position)'
    <3>1. \A r \in Ids, n \in 3..Len(file') :
            n <= Position /\ EndsAt(r, n)' => Kept(r)' \/ Holds(batch, r)
      BY <1>2, <2>2, <2>3, <2>5 DEF ReadBefore, Kept
    <3>2. \A r : Holds(batch, r)' <=> Holds(batch, r)  BY <1>1 DEF Holds
    <3>. QED  BY <1>3, <3>1, <3>2 DEF ReadBefore
  <2>. QED  BY <2>1, <2>4, <2>5
<1>. QED  BY <1>1, <1>4, <1>5 DEF OffsetOK

(* What a line adds to the batch is enough: a record that ends behind the  *)
(* place and up to the next one is the line, or it is torn.                *)
LEMMA ScanKeepsOffset ==
  ASSUME TypeOK, FileOK, OffsetOK, Scan
  PROVE  OffsetOK'
<1>0. UNCHANGED <<file, saved, got, torn>> /\ pc = "scan"  BY DEF Scan
<1>1. /\ file \in Seq(Cells) /\ Len(file) \in Nat /\ Position \in Nat
      /\ \A i \in 1..Len(file) : file[i] \in Cells
  BY LenProperties, ElementOfSeq DEF TypeOK, Position
<1>2. AtMark(Position) /\ ReadBefore(Position)  BY <1>0 DEF OffsetOK
<1>3. \A r : (Kept(r)' <=> Kept(r)) /\ \A n : EndsAt(r, n)' <=> EndsAt(r, n)
  BY <1>0 DEF Kept, Received, Holds, EndsAt, Half, Newline
<1>4. (saved # Empty => AtMark(saved) /\ SentBefore(saved))'
  BY <1>0, <1>3 DEF OffsetOK, AtMark, SentBefore, Unterminated
<1>5. Position' = offset' + bytesRead'  BY DEF Position
<1>6. pc' \in {"idle", "scan", "send"}  BY ScanGoesOn
<1>7. ASSUME NEW n \in LineEnds(Position), \A j \in LineEnds(Position) : n <= j,
             Position' = n, batch' = WithRecord(SubSeq(file, Position + 1, n - 1))
      PROVE  AtMark(Position)' /\ ReadBefore(Position)'
  <2>1. n \in Position + 1..Len(file) /\ file[n] = Newline  BY <1>7 DEF LineEnds
  <2>2. AtMark(Position)'  BY <1>0, <1>1, <1>7, <2>1 DEF AtMark
  <2>3. ASSUME NEW r \in Ids, NEW m \in 3..Len(file), m <= n, EndsAt(r, m)
        PROVE  Kept(r) \/ Holds(batch', r)
    <3>0. \A q \in Ids : Holds(batch', q) <=>
            Holds(batch, q) \/ SubSeq(file, Position + 1, n - 1) = Body(q)
      <4>. DEFINE line == SubSeq(file, Position + 1, n - 1)
      <4>1. batch' = WithRecord(line)  BY <1>7
      <4>. HIDE DEF line
      <4>2. \A q \in Ids : Holds(batch', q) <=> Holds(batch, q) \/ line = Body(q)
        BY <4>1, LineIsParsed
      <4>. QED  BY <4>2 DEF line
    <3>1. CASE m <= Position
      BY <1>2, <2>3, <3>0, <3>1 DEF ReadBefore
    <3>2. CASE m > Position
      <4>1. m \in LineEnds(Position)  BY <1>1, <2>3, <3>2 DEF LineEnds, EndsAt
      <4>2. m = n  BY <1>7, <2>1, <2>3, <4>1, <1>1
      <4>3. file[n - 2] = Half(r, 1) /\ file[n - 1] = Half(r, 2)  BY <2>3, <4>2 DEF EndsAt
      <4>4. CASE Position = n - 3
        <5>. DEFINE from == n - 2  to == n - 1
        <5>0. /\ Position + 1 = from /\ from \in Int /\ to \in Int /\ to = from + 1
              /\ from \in 1..Len(file) /\ to \in 1..Len(file)
          BY <1>1, <2>1, <2>3, <4>2, <4>4
        <5>. HIDE DEF from, to
        <5>1. /\ SubSeq(file, from, to) \in Seq(Cells) /\ Len(SubSeq(file, from, to)) = 2
              /\ SubSeq(file, from, to)[1] = file[from] /\ SubSeq(file, from, to)[2] = file[to]
          <6>1. \A i \in from..to : file[i] \in Cells  BY <1>1, <5>0
          <6>2. /\ SubSeq(file, from, to) \in Seq(Cells)
                /\ Len(SubSeq(file, from, to)) = IF from <= to THEN to - from + 1 ELSE 0
                /\ \A i \in 1..to - from + 1 : SubSeq(file, from, to)[i] = file[from + i - 1]
            BY <5>0, <6>1, SubSeqProperties
          <6>3. to - from + 1 = 2 /\ from + 1 - 1 = from /\ from + 2 - 1 = to /\ from <= to  BY <5>0
          <6>. QED  BY <6>2, <6>3
        <5>2. SubSeq(file, Position + 1, n - 1)[1] = Half(r, 1)  BY <4>3, <5>0, <5>1 DEF from, to
        <5>3. SubSeq(file, Position + 1, n - 1)[2] = Half(r, 2)  BY <4>3, <5>0, <5>1 DEF from, to
        <5>4. SubSeq(file, Position + 1, n - 1) = Body(r)
          <6>1. \A i \in 1..2 : i = 1 \/ i = 2  OBVIOUS
          <6>2. \A i \in 1..2 : SubSeq(file, Position + 1, n - 1)[i] = Body(r)[i]
            BY <5>2, <5>3, <6>1, LineIsThreeCells
          <6>3. /\ SubSeq(file, Position + 1, n - 1) \in Seq(Cells)
                /\ Len(SubSeq(file, Position + 1, n - 1)) = 2
            BY <5>0, <5>1 DEF from, to
          <6>. QED  BY <6>2, <6>3, LineIsThreeCells, SeqEqual
        <5>. QED  BY <3>0, <5>4
      <4>5. CASE Position < n - 3
        <5>1. n - 3 \in 1..Len(file) - 1 /\ n - 3 \in Position + 1..Len(file) /\ ~(n <= n - 3)
                /\ n - 3 + 1 = n - 2
          BY <1>1, <2>1, <4>5
        <5>2. file[n - 3] # Newline  BY <1>7, <5>1 DEF LineEnds
        <5>3. file[n - 3 + 1] = Half(r, 1)  BY <4>3, <5>1
        <5>. QED  BY <5>1, <5>2, <5>3 DEF FileOK, SpoiltIsTorn, Kept
      <4>6. CASE Position \in {n - 2, n - 1}
        <5>1. Position \in 1..Len(file)  BY <1>1, <2>1, <2>3, <4>2, <4>6
        <5>2. file[Position] = Half(r, 1) \/ file[Position] = Half(r, 2)  BY <4>3, <4>6
        <5>3. file[Position] # Newline /\ file[Position].rec = r  BY <5>2, CellsDiffer
        <5>. QED  BY <1>2, <5>1, <5>3 DEF AtMark, Kept
      <4>. QED  BY <1>1, <2>1, <4>4, <4>5, <4>6
    <3>. QED  BY <1>1, <2>3, <3>1, <3>2
  <2>4. ReadBefore(Position)'
    <3>1. \A r : Holds(batch, r)' <=> Holds(batch', r)  BY DEF Holds
    <3>. QED  BY <1>0, <1>3, <1>7, <2>3, <3>1 DEF ReadBefore
  <2>. QED  BY <2>2, <2>4
<1>8. ASSUME LineEnds(Position) = {}, Position < Len(file), Position' = Len(file) + 1,
             batch' = WithRecord(SubSeq(file, Position + 1, Len(file)))
      PROVE  AtMark(Position)' /\ ReadBefore(Position)'
  <2>1. Len(file) \in Position + 1..Len(file) /\ Len(file) # 0  BY <1>1, <1>8
  <2>2. Unterminated(file)
    <3>1. file[Len(file)] # Newline  BY <1>8, <2>1 DEF LineEnds
    <3>. QED  BY <1>1, <2>1, <3>1, EmptySeq DEF Unterminated
  <2>3. AtMark(Position)'  BY <1>0, <1>1, <1>8, <2>2 DEF AtMark, Unterminated
  <2>4. ASSUME NEW r \in Ids, NEW m \in 3..Len(file), EndsAt(r, m)
        PROVE  Kept(r) \/ Holds(batch', r)
    <3>1. m <= Position  BY <1>1, <1>8, <2>4 DEF LineEnds, EndsAt
    <3>2. Holds(batch, r) => Holds(batch', r)  BY <1>8, LineIsParsed
    <3>. QED  BY <1>2, <2>4, <3>1, <3>2 DEF ReadBefore
  <2>5. ReadBefore(Position)'
    <3>1. \A r : Holds(batch, r)' <=> Holds(batch', r)  BY DEF Holds
    <3>. QED  BY <1>0, <1>3, <2>4, <3>1 DEF ReadBefore
  <2>. QED  BY <2>3, <2>5
<1>9. ASSUME Position' = Position, batch' = batch
      PROVE  AtMark(Position)' /\ ReadBefore(Position)'
  <2>1. AtMark(Position)'  BY <1>0, <1>2, <1>9 DEF AtMark, Unterminated
  <2>2. \A r : Holds(batch, r)' <=> Holds(batch, r)  BY <1>9 DEF Holds
  <2>. QED  BY <1>0, <1>2, <1>3, <1>9, <2>1, <2>2 DEF ReadBefore
<1>10. AtMark(Position)' /\ ReadBefore(Position)'
  <2>1. \/ \E n \in LineEnds(Position) :
             /\ \A j \in LineEnds(Position) : n <= j
             /\ Position' = n /\ batch' = WithRecord(SubSeq(file, Position + 1, n - 1))
        \/ /\ LineEnds(Position) = {} /\ Position < Len(file) /\ Position' = Len(file) + 1
           /\ batch' = WithRecord(SubSeq(file, Position + 1, Len(file)))
        \/ Position' = Position /\ batch' = batch
    BY <1>5, ScanGoesOn
  <2>. QED  BY <2>1, <1>7, <1>8, <1>9
<1>. QED  BY <1>4, <1>6, <1>10 DEF OffsetOK
LEMMA OffsetStays ==
  ASSUME TypeOK, FileOK, OffsetOK, [Next]_vars
  PROVE  OffsetOK'
<1>. saved \in Nat \cup {Empty} /\ Position \in Nat /\ Len(file) \in Nat
  BY LenProperties DEF TypeOK, Position
<1>1. ASSUME UNCHANGED <<file, saved>>, torn \subseteq torn',
             \A r \in Ids : Received(r) => Received(r)'
      PROVE  /\ \A r \in Ids : Kept(r) => Kept(r)'
             /\ (saved # Empty => AtMark(saved) /\ SentBefore(saved))'
             /\ Position' = Position /\ AtMark(Position) => AtMark(Position)'
  <2>1. \A r \in Ids : Kept(r) => Kept(r)'  BY <1>1 DEF Kept
  <2>2. \A r, n : EndsAt(r, n)' <=> EndsAt(r, n)  BY <1>1 DEF EndsAt, Half, Newline
  <2>3. (saved # Empty => AtMark(saved) /\ SentBefore(saved))'
    BY <1>1, <2>1, <2>2 DEF OffsetOK, AtMark, SentBefore, Unterminated
  <2>4. Position' = Position /\ AtMark(Position) => AtMark(Position)'
    BY <1>1 DEF AtMark, Unterminated
  <2>. QED  BY <2>1, <2>3, <2>4
<1>2. \A r, n : UNCHANGED file => (EndsAt(r, n)' <=> EndsAt(r, n))
  BY DEF EndsAt, Half, Newline
<1>3. UNCHANGED got => \A r : Received(r)' <=> Received(r)  BY DEF Received, Holds
<1>4. ASSUME NEW n \in 1..MaxExport, Export(n) PROVE OffsetOK'
  <2>1. UNCHANGED <<file, saved, got, batch, pc, offset, bytesRead>> /\ torn \subseteq torn'
    BY <1>4, ExportFills DEF Export, readerVars
  <2>2. Position' = Position /\ \A r : Holds(batch, r)' <=> Holds(batch, r)
    BY <2>1 DEF Position, Holds
  <2>. QED  BY <1>1, <1>2, <1>3, <2>1, <2>2 DEF OffsetOK, ReadBefore, SentBefore
<1>5. ASSUME NEW k \in 1..Len(buffer), Write(k) PROVE OffsetOK'
  BY <1>5, WriteKeepsOffset
<1>6. CASE Tick
  <2>1. UNCHANGED <<file, saved, got, torn>> /\ pc' = "scan" /\ Position' = LoadOffset
    <3>1. offset' = LoadOffset /\ bytesRead' = 0 /\ LoadOffset \in Nat
      BY <1>6 DEF Tick, LoadOffset, Empty
    <3>. QED  BY <1>6, <3>1 DEF Tick, Position
  <2>2. CASE saved = Empty
    <3>1. Position' = 0  BY <2>1, <2>2 DEF LoadOffset
    <3>. QED  BY <1>1, <1>3, <2>1, <2>2, <3>1 DEF OffsetOK, AtMark, ReadBefore
  <2>3. CASE saved # Empty
    <3>1. Position' = saved /\ saved' = saved  BY <2>1, <2>3 DEF LoadOffset
    <3>2. (AtMark(saved) /\ SentBefore(saved))'  BY <1>1, <1>3, <2>1, <2>3
    <3>. QED  BY <2>1, <2>3, <3>1, <3>2 DEF OffsetOK, AtMark, ReadBefore, SentBefore
  <2>. QED  BY <2>2, <2>3
<1>7. CASE Scan
  BY <1>7, ScanKeepsOffset
<1>8. CASE SendAnswered
  <2>1. UNCHANGED <<file, saved, torn, offset, bytesRead>> /\ pc = "send" /\ pc' = "truncate"
    BY <1>8 DEF SendAnswered
  <2>2. \A r \in Ids : Received(r)' <=> Received(r) \/ Holds(batch, r)
    BY <1>8, BatchIsReceived DEF SendAnswered
  <2>3. Position' = Position  BY <2>1 DEF Position
  <2>4. AtMark(Position) /\ ReadBefore(Position)  BY <2>1 DEF OffsetOK
  <2>5. SentBefore(Position)'
    BY <1>1, <1>2, <2>1, <2>2, <2>3, <2>4 DEF ReadBefore, SentBefore, Kept
  <2>. QED  BY <1>1, <2>1, <2>2, <2>3, <2>4, <2>5 DEF OffsetOK
<1>9. CASE SendUnanswered
  <2>1. UNCHANGED <<file, saved, torn>> /\ pc' = "idle"  BY <1>9 DEF SendUnanswered
  <2>2. \A r \in Ids : Received(r)' <=> Received(r) \/ Holds(batch, r)
    BY <1>9, BatchIsReceived DEF SendUnanswered
  <2>. QED  BY <1>1, <2>1, <2>2 DEF OffsetOK
<1>10. CASE SendFails \/ Crash
  <2>1. UNCHANGED <<file, saved, torn, got>> /\ pc' = "idle"  BY <1>10 DEF SendFails, Crash
  <2>. QED  BY <1>1, <1>3, <2>1 DEF OffsetOK
<1>11. CASE Truncate
  <2>1. /\ UNCHANGED <<file, torn, got, offset, bytesRead>> /\ saved' = Empty
        /\ pc = "truncate" /\ pc' = "write"
    BY <1>11 DEF Truncate
  <2>2. Position' = Position /\ AtMark(Position) /\ SentBefore(Position)
    BY <2>1 DEF OffsetOK, Position
  <2>3. AtMark(Position)' /\ SentBefore(Position)'
    BY <1>2, <1>3, <2>1, <2>2 DEF AtMark, SentBefore, Kept, Unterminated
  <2>. QED  BY <2>1, <2>3 DEF OffsetOK
<1>12. CASE SaveOffset \/ SaveFails
  <2>1. /\ UNCHANGED <<file, torn, got>> /\ pc \in {"truncate", "write"}
        /\ saved' \in {saved, Position} /\ pc' \in {"idle", "scan"}
    BY <1>12 DEF SaveOffset, SaveFails, NextRound, Position
  <2>2. Position' = Position
    <3>1. offset' = offset + bytesRead /\ bytesRead' = 0
      BY <1>12 DEF SaveOffset, SaveFails, NextRound
    <3>. QED  BY <3>1 DEF Position
  <2>3. AtMark(Position) /\ SentBefore(Position)  BY <2>1 DEF OffsetOK
  <2>4. AtMark(Position)' /\ SentBefore(Position)'
    BY <1>2, <1>3, <2>1, <2>2, <2>3 DEF AtMark, SentBefore, Kept, Unterminated
  <2>5. (saved # Empty => AtMark(saved) /\ SentBefore(saved))'
    <3>1. CASE saved' = Position
      BY <2>2, <2>4, <3>1 DEF AtMark, SentBefore
    <3>2. CASE saved' = saved
      BY <1>1, <1>3, <2>1, <3>2
    <3>. QED  BY <2>1, <3>1, <3>2
  <2>. QED  BY <2>1, <2>4, <2>5 DEF OffsetOK, SentBefore, ReadBefore
<1>13. CASE UNCHANGED vars
  <2>1. UNCHANGED <<file, saved, torn, got, pc, offset, bytesRead, batch>>
    BY <1>13 DEF vars, readerVars
  <2>2. Position' = Position /\ \A r : Holds(batch, r)' <=> Holds(batch, r)
    BY <2>1 DEF Position, Holds
  <2>. QED  BY <1>1, <1>2, <1>3, <2>1, <2>2 DEF OffsetOK, ReadBefore, SentBefore
<1>. QED
  BY <1>4, <1>5, <1>6, <1>7, <1>8, <1>9, <1>10, <1>11, <1>12, <1>13 DEF Next, Upload
-----------------------------------------------------------------------------
(* Until something fails.                                                  *)
LEMMA PlacesStay ==
  ASSUME TypeOK, FaultlessOK, [Next]_vars, faults' = 0
  PROVE  faults = 0 /\ InPlace'
<1>0. /\ Len(file) \in Nat /\ Len(buffer) \in Nat /\ made \in Nat /\ faults \in Nat
      /\ \A i \in 1..Len(file) : file[i] \in Cells
      /\ \A i \in 1..Len(buffer) : buffer[i] \in Cells
  BY LenProperties, ElementOfSeq DEF TypeOK
<1>1. ASSUME NEW n \in 1..MaxExport, Export(n) PROVE faults = 0 /\ InPlace'
  <2>1. faults = 0 /\ InPlace /\ file' = file  BY <1>1 DEF Export, FaultlessOK
  <2>2. /\ Len(buffer) = 0 /\ Len(buffer') = 3 * n /\ made' = made + n
        /\ \A j \in 1..Len(buffer') :
             buffer'[j].half = 1 => 3 * made + j = 3 * buffer'[j].rec - 2
    BY <1>1, ExportFills, EmptySeq
  <2>3. Len(file) = 3 * made  BY <1>0, <2>1, <2>2 DEF InPlace
  <2>4. Len(file') + Len(buffer') = 3 * made'  BY <1>0, <2>1, <2>2, <2>3
  <2>. QED  BY <2>1, <2>2, <2>3, <2>4 DEF InPlace
<1>2. ASSUME NEW k \in 1..Len(buffer), Write(k) PROVE faults = 0 /\ InPlace'
  <2>0. faults = 0 /\ InPlace /\ made' = made  BY <1>2 DEF Write, FaultlessOK
  <2>1. /\ Len(file') = Len(file) + k /\ Len(buffer') = Len(buffer) - k
        /\ \A i \in 1..Len(file) : file'[i] = file[i]
        /\ \A i \in 1..k : file'[Len(file) + i] = buffer[i]
        /\ \A j \in 1..Len(buffer) - k : buffer'[j] = buffer[k + j]
    BY <1>2, WriteMoves
  <2>2. ASSUME NEW i \in 1..Len(file'), file'[i].half = 1 PROVE i = 3 * file'[i].rec - 2
    <3>1. CASE i <= Len(file)
      BY <1>0, <2>0, <2>1, <2>2, <3>1 DEF InPlace
    <3>2. CASE i > Len(file)
      <4>. DEFINE j == i - Len(file)
      <4>1. j \in 1..k /\ j \in 1..Len(buffer) /\ i = Len(file) + j  BY <1>0, <2>1, <3>2
      <4>2. file'[i] = buffer[j]  BY <2>1, <4>1
      <4>. QED  BY <2>0, <2>2, <4>1, <4>2 DEF InPlace
    <3>. QED  BY <1>0, <3>1, <3>2
  <2>3. ASSUME NEW j \in 1..Len(buffer'), buffer'[j].half = 1
        PROVE  Len(file') + j = 3 * buffer'[j].rec - 2
    <3>1. j \in 1..Len(buffer) - k /\ k + j \in 1..Len(buffer) /\ Len(file') + j = Len(file) + (k + j)
      BY <1>0, <2>1
    <3>2. buffer'[j] = buffer[k + j]  BY <2>1, <3>1
    <3>. QED  BY <2>0, <2>3, <3>1, <3>2 DEF InPlace
  <2>4. Len(file') + Len(buffer') = 3 * made'
    <3>1. Len(file) + Len(buffer) = 3 * made  BY <2>0 DEF InPlace
    <3>2. Len(file') + Len(buffer') = Len(file) + Len(buffer)  BY <1>0, <2>1
    <3>. QED  BY <2>0, <3>1, <3>2
  <2>. QED  BY <2>0, <2>2, <2>3, <2>4 DEF InPlace
<1>3. CASE Crash
  BY <1>0, <1>3 DEF Crash
<1>4. CASE Upload \/ UNCHANGED vars
  <2>1. UNCHANGED <<file, buffer, made>>  BY <1>4, UploadReads
  <2>2. faults = 0
    BY <1>0, <1>4 DEF Upload, Tick, Scan, SendAnswered, SendUnanswered, SendFails, Truncate,
                      SaveOffset, SaveFails, vars
  <2>. QED  BY <2>1, <2>2 DEF FaultlessOK, InPlace
<1>. QED  BY <1>1, <1>2, <1>3, <1>4 DEF Next

(* A record taken into the batch from a file in its place ends where the   *)
(* scanner now stands.                                                     *)
LEMMA ScannedInPlace ==
  ASSUME TypeOK, InPlace, Scan, NEW r \in Ids, Holds(batch', r)
  PROVE  Holds(batch, r) \/ 3 * r = offset' + bytesRead'
<1>0. /\ Len(file) \in Nat /\ Position \in Nat
      /\ \A i \in 1..Len(file) : file[i] \in Cells
  BY LenProperties, ElementOfSeq DEF TypeOK, Position
<1>1. ASSUME NEW to \in Int, Position <= to, to <= Len(file),
             SubSeq(file, Position + 1, to) = Body(r)
      PROVE  3 * r = to + 1
  <2>. DEFINE from == Position + 1
  <2>1. \A i \in from..to : file[i] \in Cells  BY <1>0, <1>1
  <2>2. from \in Int  BY <1>0
  <2>3. /\ Len(SubSeq(file, from, to)) = IF from <= to THEN to - from + 1 ELSE 0
        /\ \A i \in 1..to - from + 1 : SubSeq(file, from, to)[i] = file[from + i - 1]
    BY <1>1, <2>1, <2>2, SubSeqProperties
  <2>4. Len(SubSeq(file, from, to)) = 2 /\ SubSeq(file, from, to)[1] = Half(r, 1)
    BY <1>1, LineIsThreeCells
  <2>. HIDE DEF from
  <2>5. to - from + 1 = 2 /\ from + 1 - 1 = from /\ 1 \in 1..to - from + 1
    BY <1>1, <2>2, <2>3, <2>4
  <2>6. file[from] = Half(r, 1)  BY <2>3, <2>4, <2>5
  <2>7. from \in 1..Len(file)  BY <1>0, <1>1, <2>5 DEF from
  <2>8. from = 3 * r - 2  BY <2>6, <2>7, CellsDiffer DEF InPlace
  <2>. QED  BY <1>1, <2>2, <2>5, <2>8 DEF Ids
<1>2. ASSUME NEW n \in LineEnds(Position), offset' + bytesRead' = n,
             batch' = WithRecord(SubSeq(file, Position + 1, n - 1))
      PROVE  Holds(batch, r) \/ 3 * r = offset' + bytesRead'
  <2>1. n - 1 \in Int /\ Position <= n - 1 /\ n - 1 <= Len(file) /\ n - 1 + 1 = n
    BY <1>0 DEF LineEnds
  <2>2. Holds(batch, r) \/ SubSeq(file, Position + 1, n - 1) = Body(r)
    <3>. DEFINE line == SubSeq(file, Position + 1, n - 1)
    <3>1. batch' = WithRecord(line)  BY <1>2
    <3>. HIDE DEF line
    <3>2. Holds(batch, r) \/ line = Body(r)  BY <3>1, LineIsParsed
    <3>. QED  BY <3>2 DEF line
  <2>. QED  BY <1>1, <1>2, <2>1, <2>2
<1>3. ASSUME Position < Len(file), offset' + bytesRead' = Len(file) + 1,
             batch' = WithRecord(SubSeq(file, Position + 1, Len(file)))
      PROVE  Holds(batch, r) \/ 3 * r = offset' + bytesRead'
  <2>1. Len(file) \in Int /\ Position <= Len(file) /\ Len(file) <= Len(file)  BY <1>0, <1>3
  <2>2. Holds(batch, r) \/ SubSeq(file, Position + 1, Len(file)) = Body(r)
    <3>. DEFINE line == SubSeq(file, Position + 1, Len(file))
    <3>1. batch' = WithRecord(line)  BY <1>3
    <3>. HIDE DEF line
    <3>2. Holds(batch, r) \/ line = Body(r)  BY <3>1, LineIsParsed
    <3>. QED  BY <3>2 DEF line
  <2>. QED  BY <1>1, <1>3, <2>1, <2>2
<1>. QED  BY <1>2, <1>3, ScanGoesOn

LEMMA SentOnceStays ==
  ASSUME TypeOK, FaultlessOK, [Next]_vars, faults' = 0
  PROVE  SentOnce'
<1>0. /\ faults = 0 /\ InPlace /\ SentOnce
      /\ faults \in Nat /\ saved \in Nat \cup {Empty} /\ offset \in Nat /\ bytesRead \in Nat
      /\ LoadOffset \in Nat /\ Ids \subseteq Nat
  BY PlacesStay DEF FaultlessOK, TypeOK, LoadOffset, Ids
<1>1. UNCHANGED got => \A r : Received(r)' <=> Received(r)  BY DEF Received, Holds
<1>2. UNCHANGED batch => \A r : Holds(batch, r)' <=> Holds(batch, r)  BY DEF Holds
<1>3. ASSUME UNCHANGED <<saved, pc, offset, bytesRead, batch, got, again>> PROVE SentOnce'
  <2>1. Position' = Position /\ LoadOffset' = LoadOffset  BY <1>3 DEF Position, LoadOffset
  <2>. QED  BY <1>0, <1>1, <1>2, <1>3, <2>1 DEF SentOnce
<1>4. ASSUME NEW n \in 1..MaxExport, Export(n) PROVE SentOnce'
  BY <1>3, <1>4 DEF Export, readerVars
<1>5. ASSUME NEW k \in 1..Len(buffer), Write(k) PROVE SentOnce'
  BY <1>3, <1>5 DEF Write, readerVars
<1>6. CASE Tick
  <2>1. /\ UNCHANGED <<saved, got, again>> /\ pc = "idle" /\ pc' = "scan"
        /\ offset' = LoadOffset /\ batch' = <<>>
    BY <1>6 DEF Tick
  <2>2. LoadOffset' = LoadOffset /\ \A r : ~Holds(batch, r)'
    BY <2>1, EmptySeq DEF LoadOffset, Holds
  <2>. QED  BY <1>0, <1>1, <2>1, <2>2 DEF SentOnce
<1>7. CASE Scan
  <2>1. /\ UNCHANGED <<saved, got, again>> /\ pc = "scan" /\ pc' \in {"idle", "scan", "send"}
        /\ offset' = offset /\ bytesRead' \in Nat
    BY <1>7, ScanGoesOn DEF Scan
  <2>2. LoadOffset' = LoadOffset /\ Position' = offset' + bytesRead' /\ Position = offset + bytesRead
    BY <2>1 DEF LoadOffset, Position
  <2>. Position \in Nat /\ offset <= Position /\ offset' = offset
    BY <1>0, <2>1, <2>2
  <2>3. Position' \in Int /\ Position' >= Position /\ (Position' = Position => batch' = batch)
    <3>1. Len(file) \in Nat  BY LenProperties DEF TypeOK
    <3>2. \A n \in LineEnds(Position) : n \in Int /\ n > Position  BY <3>1 DEF LineEnds
    <3>3. \/ Position' \in LineEnds(Position)
          \/ Position < Len(file) /\ Position' = Len(file) + 1
          \/ Position' = Position /\ batch' = batch
      BY <1>7, <2>2, ScanGoesOn
    <3>. QED  BY <3>1, <3>2, <3>3
  <2>4. ASSUME NEW r \in Ids, Holds(batch', r) PROVE offset' < 3 * r /\ 3 * r <= Position'
    <3>1. Holds(batch, r) => offset < 3 * r /\ 3 * r <= Position
      BY <1>0, <2>1 DEF SentOnce
    <3>2. Holds(batch, r) \/ 3 * r = Position'  BY <1>0, <1>7, <2>2, <2>4, ScannedInPlace
    <3>3. CASE Holds(batch, r)
      BY <1>0, <2>3, <3>1, <3>3
    <3>4. CASE ~Holds(batch, r)
      <4>1. Position' > Position  BY <2>3, <2>4, <3>4
      <4>. QED  BY <1>0, <2>3, <3>2, <3>4, <4>1
    <3>. QED  BY <3>3, <3>4
  <2>5. \A r : Holds(batch, r)' <=> Holds(batch', r)  BY DEF Holds
  <2>. QED  BY <1>0, <1>1, <2>1, <2>2, <2>4, <2>5 DEF SentOnce
<1>8. CASE SendAnswered
  <2>1. /\ UNCHANGED <<saved, offset, bytesRead>> /\ pc = "send" /\ pc' = "truncate"
        /\ again' = (again \/ \E r \in Ids : Holds(batch, r) /\ Received(r))
    BY <1>8 DEF SendAnswered, Receives
  <2>2. \A r \in Ids : Received(r)' <=> Received(r) \/ Holds(batch, r)
    BY <1>8, BatchIsReceived DEF SendAnswered
  <2>3. Position' = Position /\ offset <= Position /\ Position \in Nat
    BY <1>0, <2>1 DEF Position
  <2>4. \A r \in Ids : Received(r) => 3 * r <= offset
    BY <1>0, <2>1 DEF SentOnce, LoadOffset
  <2>5. \A r \in Ids : Holds(batch, r) => offset < 3 * r /\ 3 * r <= Position
    BY <1>0, <2>1 DEF SentOnce
  <2>6. ~again'
    <3>1. \A r \in Ids : ~(Holds(batch, r) /\ Received(r))  BY <1>0, <2>4, <2>5
    <3>2. ~again  BY <1>0 DEF SentOnce
    <3>. QED  BY <2>1, <3>1, <3>2, Zenon
  <2>7. \A r \in Ids : Received(r)' => 3 * r <= Position'  BY <1>0, <2>2, <2>3, <2>4, <2>5
  <2>. QED  BY <2>1, <2>6, <2>7 DEF SentOnce
<1>9. CASE SendFails
  BY <1>0, <1>1, <1>9 DEF SendFails, SentOnce
<1>10. CASE Truncate
  <2>1. /\ UNCHANGED <<offset, bytesRead, got, again>> /\ pc = "truncate" /\ pc' = "write"
    BY <1>10 DEF Truncate
  <2>2. Position' = Position  BY <2>1 DEF Position
  <2>. QED  BY <1>0, <1>1, <2>1, <2>2 DEF SentOnce
<1>11. CASE SaveOffset
  <2>1. /\ UNCHANGED <<got, again>> /\ pc = "write" /\ pc' \in {"idle", "scan"}
        /\ saved' = Position /\ offset' = Position /\ batch' = <<>>
    BY <1>11 DEF SaveOffset, NextRound, Position
  <2>2. Position \in Nat  BY <1>0 DEF Position
  <2>3. saved' # Empty /\ LoadOffset' = saved'  BY <2>1, <2>2 DEF LoadOffset, Empty
  <2>4. \A r : ~Holds(batch, r)'  BY <2>1, EmptySeq DEF Holds
  <2>. QED  BY <1>0, <1>1, <2>1, <2>3, <2>4 DEF SentOnce
<1>12. ~SendUnanswered /\ ~SaveFails /\ ~Crash
  BY <1>0 DEF SendUnanswered, SaveFails, Crash
<1>13. CASE UNCHANGED vars
  BY <1>3, <1>13 DEF vars, readerVars
<1>. QED
  BY <1>4, <1>5, <1>6, <1>7, <1>8, <1>9, <1>10, <1>11, <1>12, <1>13 DEF Next, Upload

-----------------------------------------------------------------------------
(* The order of the records.                                               *)
LEMMA SortedStays ==
  ASSUME TypeOK, SortedOK, [Next]_vars
  PROVE  SortedOK'
<1>0. /\ Len(file) \in Nat /\ Len(buffer) \in Nat /\ made \in Nat
      /\ \A i \in 1..Len(file) : file[i] \in Cells
      /\ \A i \in 1..Len(buffer) : buffer[i] \in Cells
  BY LenProperties, ElementOfSeq DEF TypeOK
<1>1. ASSUME NEW n \in 1..MaxExport, Export(n) PROVE SortedOK'
  <2>1. /\ file' = file /\ made' \in Int /\ made < made' /\ buffer' \in Seq(Cells)
        /\ \A i, j \in 1..Len(buffer') : i <= j => Ordered(i, buffer', j, buffer')
        /\ \A j \in 1..Len(buffer') : buffer'[j] # Newline =>
             made < buffer'[j].rec /\ buffer'[j].rec <= made'
    <3>1. made' = made + n /\ file' = file  BY <1>1 DEF Export
    <3>2. made' \in Int /\ made < made'  BY <1>0, <3>1, UploaderAssumption
    <3>. QED  BY <1>1, <3>1, <3>2, ExportFills
  <2>2. \A i \in 1..Len(file) : file[i] # Newline => file[i].rec \in Int /\ file[i].rec <= made
    BY <1>0, CellsDiffer DEF SortedOK, Ids
  <2>3. \A j \in 1..Len(buffer') : buffer'[j] # Newline => buffer'[j].rec \in Int
    BY <2>1, ElementOfSeq, CellsDiffer DEF Ids
  <2>4. \A i \in 1..Len(file) : file[i] # Newline => file[i].rec <= made'
    BY <1>0, <2>1, <2>2
  <2>5. \A i \in 1..Len(file), j \in 1..Len(buffer') : Ordered(i, file, j, buffer')
    BY <1>0, <2>1, <2>2, <2>3 DEF Ordered
  <2>. QED  BY <2>1, <2>4, <2>5 DEF SortedOK, Ordered, Newline
<1>2. ASSUME NEW k \in 1..Len(buffer), Write(k) PROVE SortedOK'
  <2>0. /\ Len(file') = Len(file) + k /\ Len(buffer') = Len(buffer) - k
        /\ \A i \in 1..Len(file) : file'[i] = file[i]
        /\ \A i \in 1..k : file'[Len(file) + i] = buffer[i]
        /\ \A j \in 1..Len(buffer) - k : buffer'[j] = buffer[k + j]
    BY <1>2, WriteMoves
  <2>1. made' = made  BY <1>2 DEF Write
  <2>2. ASSUME NEW i \in 1..Len(file')
        PROVE  \/ i \in 1..Len(file) /\ file'[i] = file[i]
               \/ i - Len(file) \in 1..k /\ file'[i] = buffer[i - Len(file)]
    <3>1. CASE i <= Len(file)  BY <1>0, <2>0, <3>1
    <3>2. CASE i > Len(file)
      <4>1. i - Len(file) \in 1..k /\ Len(file) + (i - Len(file)) = i  BY <1>0, <2>0, <3>2
      <4>. QED  BY <2>0, <4>1
    <3>. QED  BY <1>0, <3>1, <3>2
  <2>3. ASSUME NEW j \in 1..Len(buffer')
        PROVE  k + j \in k + 1..Len(buffer) /\ buffer'[j] = buffer[k + j]
    <3>1. k + j \in k + 1..Len(buffer) /\ j \in 1..Len(buffer) - k  BY <1>0, <2>0
    <3>. QED  BY <2>0, <3>1
  <2>4. ASSUME NEW i \in 1..Len(file'), NEW j \in 1..Len(file'), i <= j
        PROVE  Ordered(i, file', j, file')
    <3>1. CASE i \in 1..Len(file) /\ file'[i] = file[i]
      <4>1. CASE j \in 1..Len(file) /\ file'[j] = file[j]
        BY <2>4, <3>1, <4>1 DEF SortedOK, Ordered
      <4>2. CASE j - Len(file) \in 1..k /\ file'[j] = buffer[j - Len(file)]
        <5>1. j - Len(file) \in 1..Len(buffer)  BY <1>0, <4>2
        <5>. QED  BY <3>1, <4>2, <5>1 DEF SortedOK, Ordered
      <4>. QED  BY <2>2, <4>1, <4>2
    <3>2. CASE i - Len(file) \in 1..k /\ file'[i] = buffer[i - Len(file)]
      <4>1. j - Len(file) \in 1..k /\ file'[j] = buffer[j - Len(file)]
        BY <1>0, <2>2, <2>4, <3>2
      <4>2. /\ i - Len(file) \in 1..Len(buffer) /\ j - Len(file) \in 1..Len(buffer)
            /\ i - Len(file) <= j - Len(file)
        BY <1>0, <2>4, <3>2, <4>1
      <4>. QED  BY <3>2, <4>1, <4>2 DEF SortedOK, Ordered
    <3>. QED  BY <2>2, <3>1, <3>2
  <2>5. ASSUME NEW i \in 1..Len(buffer'), NEW j \in 1..Len(buffer'), i <= j
        PROVE  Ordered(i, buffer', j, buffer')
    <3>1. k + i \in 1..Len(buffer) /\ k + j \in 1..Len(buffer) /\ k + i <= k + j
      BY <1>0, <2>0, <2>5
    <3>. QED  BY <2>3, <3>1 DEF SortedOK, Ordered
  <2>6. ASSUME NEW i \in 1..Len(file'), NEW j \in 1..Len(buffer')
        PROVE  Ordered(i, file', j, buffer')
    <3>1. k + j \in 1..Len(buffer) /\ k < k + j  BY <1>0, <2>3
    <3>2. CASE i \in 1..Len(file) /\ file'[i] = file[i]
      BY <2>3, <3>1, <3>2 DEF SortedOK, Ordered
    <3>3. CASE i - Len(file) \in 1..k /\ file'[i] = buffer[i - Len(file)]
      <4>1. i - Len(file) \in 1..Len(buffer) /\ i - Len(file) <= k + j  BY <1>0, <3>1, <3>3
      <4>. QED  BY <2>3, <3>1, <3>3, <4>1 DEF SortedOK, Ordered
    <3>. QED  BY <2>2, <3>2, <3>3
  <2>7. ASSUME NEW i \in 1..Len(file'), file'[i] # Newline PROVE file'[i].rec <= made
    <3>1. i - Len(file) \in 1..k => i - Len(file) \in 1..Len(buffer)  BY <1>0
    <3>. QED  BY <2>2, <2>7, <3>1 DEF SortedOK
  <2>8. ASSUME NEW j \in 1..Len(buffer'), buffer'[j] # Newline PROVE buffer'[j].rec <= made
    <3>1. k + j \in 1..Len(buffer)  BY <1>0, <2>3
    <3>. QED  BY <2>3, <2>8, <3>1 DEF SortedOK
  <2>. QED  BY <2>1, <2>4, <2>5, <2>6, <2>7, <2>8 DEF SortedOK, Ordered, Newline
<1>3. CASE Crash
  <2>1. UNCHANGED <<file, made>> /\ Len(buffer') = 0  BY <1>3, EmptySeq DEF Crash
  <2>. QED  BY <2>1 DEF SortedOK, Ordered, Newline
<1>4. CASE Upload \/ UNCHANGED vars
  <2>1. UNCHANGED <<file, buffer, made>>  BY <1>4, UploadReads
  <2>. QED  BY <2>1 DEF SortedOK, Ordered, Newline
<1>. QED  BY <1>1, <1>2, <1>3, <1>4 DEF Next

LEMMA EndsStay ==
  ASSUME TypeOK, BufferIsLines, EndsAreTorn, [Next]_vars
  PROVE  EndsAreTorn'
<1>0. /\ Len(file) \in Nat /\ Len(buffer) \in Nat
      /\ \A i \in 1..Len(file) : file[i] \in Cells
      /\ \A i \in 1..Len(buffer) : buffer[i] \in Cells
  BY LenProperties, ElementOfSeq DEF TypeOK
<1>1. ASSUME NEW n \in 1..MaxExport, Export(n) PROVE EndsAreTorn'
  <2>1. file' = file /\ torn \subseteq torn' /\ buffer'[Len(buffer')] = Newline
    BY <1>1, ExportFills DEF Export
  <2>. QED  BY <2>1 DEF EndsAreTorn, Unterminated, Half, Newline
<1>2. ASSUME NEW k \in 1..Len(buffer), Write(k) PROVE EndsAreTorn'
  <2>0. /\ Len(file') = Len(file) + k /\ Len(buffer') = Len(buffer) - k
        /\ \A i \in 1..Len(file) : file'[i] = file[i]
        /\ \A i \in 1..k : file'[Len(file) + i] = buffer[i]
        /\ \A j \in 1..Len(buffer) - k : buffer'[j] = buffer[k + j]
        /\ buffer' \in Seq(Cells) /\ torn \subseteq torn'
        /\ k < Len(buffer) /\ buffer[k] # Newline => buffer[k].rec \in torn'
    BY <1>2, WriteMoves
  <2>1. buffer # <<>> /\ buffer[Len(buffer)] = Newline  BY <1>0, EmptySeq DEF EndsAreTorn
  <2>2. file'[Len(file')] = buffer[k]  BY <1>0, <2>0
  <2>3. ASSUME Unterminated(file') PROVE file'[Len(file')].rec \in torn'
    <3>1. buffer[k] # Newline  BY <2>2, <2>3 DEF Unterminated
    <3>2. k < Len(buffer)  BY <1>0, <2>1, <3>1
    <3>. QED  BY <2>0, <2>2, <3>1, <3>2
  <2>4. ASSUME buffer' # <<>> PROVE buffer'[Len(buffer')] = Newline
    <3>1. Len(buffer') # 0  BY <2>0, <2>4, EmptySeq
    <3>2. Len(buffer') \in 1..Len(buffer) - k /\ k + Len(buffer') = Len(buffer)
      BY <1>0, <2>0, <3>1
    <3>3. buffer'[Len(buffer')] = buffer[k + Len(buffer')]  BY <2>0, <3>2
    <3>. QED  BY <2>1, <3>2, <3>3
  <2>5. ASSUME NEW r \in Ids, NEW m \in 1..Len(file') - 1,
               file'[m] = Half(r, 2), file'[m + 1] # Newline
        PROVE  r \in torn'
    <3>1. CASE m + 1 <= Len(file)
      <4>1. m \in 1..Len(file) - 1 /\ file'[m] = file[m] /\ file'[m + 1] = file[m + 1]
        BY <1>0, <2>0, <3>1
      <4>. QED  BY <2>0, <2>5, <4>1 DEF EndsAreTorn
    <3>2. CASE m = Len(file)
      <4>1. file[Len(file)] = Half(r, 2) /\ Len(file) # 0  BY <1>0, <2>0, <2>5, <3>2
      <4>2. Unterminated(file)  BY <1>0, <4>1, EmptySeq, CellsDiffer DEF Unterminated
      <4>. QED  BY <2>0, <4>1, <4>2, CellsDiffer DEF EndsAreTorn
    <3>3. CASE m > Len(file)
      <4>. DEFINE j == m - Len(file)
      <4>1. /\ j \in 1..k /\ j + 1 \in 1..k /\ j \in 1..Len(buffer) - 1
            /\ m = Len(file) + j /\ m + 1 = Len(file) + (j + 1)
        BY <1>0, <2>0, <3>3
      <4>2. file'[m] = buffer[j] /\ file'[m + 1] = buffer[j + 1]  BY <2>0, <4>1
      <4>3. buffer[j].half = 2  BY <2>5, <4>2, CellsDiffer
      <4>. QED  BY <2>5, <4>1, <4>2, <4>3 DEF BufferIsLines
    <3>. QED  BY <1>0, <3>1, <3>2, <3>3
  <2>6. \A r, h : Half(r, h)' = Half(r, h)  BY DEF Half
  <2>. QED  BY <2>3, <2>4, <2>5, <2>6 DEF EndsAreTorn, Unterminated, Newline
<1>3. CASE Crash
  BY <1>3 DEF Crash, EndsAreTorn, Unterminated, Half, Newline
<1>4. CASE Upload \/ UNCHANGED vars
  <2>1. UNCHANGED <<file, buffer, torn>>  BY <1>4, UploadReads
  <2>. QED  BY <2>1 DEF EndsAreTorn, Unterminated, Half, Newline
<1>. QED  BY <1>1, <1>2, <1>3, <1>4 DEF Next

(* What the scanner finds goes after all the older records in the file:    *)
(* they end before it, and were read, or they are torn.                    *)
LEMMA OlderWereRead ==
  ASSUME TypeOK, SortedOK, EndsAreTorn, ReadBefore(Position),
         NEW to \in Int, to <= Len(file), NEW r \in Ids,
         SubSeq(file, Position + 1, to) = Body(r)
  PROVE  /\ Appears(r)
         /\ \A s \in Ids : Missed(s, r) => Received(s) \/ Holds(batch, s)
<1>0. /\ Len(file) \in Nat /\ Position \in Nat
      /\ \A i \in 1..Len(file) : file[i] \in Cells
  BY LenProperties, ElementOfSeq DEF TypeOK, Position
<1>. DEFINE at == Position + 1
<1>1. at \in Nat /\ at >= 1 /\ at - 1 = Position  BY <1>0
<1>. HIDE DEF at
<1>2. \A i \in at..to : file[i] \in Cells  BY <1>0, <1>1
<1>3. /\ Len(SubSeq(file, at, to)) = IF at <= to THEN to - at + 1 ELSE 0
      /\ \A i \in 1..to - at + 1 : SubSeq(file, at, to)[i] = file[at + i - 1]
  BY <1>1, <1>2, SubSeqProperties
<1>4. /\ Len(SubSeq(file, at, to)) = 2
      /\ SubSeq(file, at, to)[1] = Half(r, 1) /\ SubSeq(file, at, to)[2] = Half(r, 2)
  BY LineIsThreeCells DEF at
<1>5. /\ to - at + 1 = 2 /\ at + 1 <= Len(file) /\ at \in 1..Len(file) - 1
      /\ at + 1 - 1 = at /\ at + 2 - 1 = at + 1
      /\ 1 \in 1..to - at + 1 /\ 2 \in 1..to - at + 1
  BY <1>0, <1>1, <1>3, <1>4
<1>6. file[at] = Half(r, 1)  BY <1>3, <1>4, <1>5
<1>7. file[at + 1] = Half(r, 2)  BY <1>3, <1>4, <1>5
<1>8. Appears(r)  BY <1>5, <1>6, <1>7 DEF Appears
<1>9. ASSUME NEW s \in Ids, Missed(s, r) PROVE Received(s) \/ Holds(batch, s)
  <2>1. PICK m \in 1..Len(file) - 1 : file[m] = Half(s, 1) /\ file[m + 1] = Half(s, 2)
    BY <1>9 DEF Missed, Appears
  <2>2. m \in Nat /\ m + 1 <= Len(file) /\ s \in Nat /\ r \in Nat /\ s < r /\ s \notin torn
    BY <1>0, <1>9 DEF Missed, Ids
  <2>3. m < at
    <3>1. SUFFICES ASSUME at <= m PROVE FALSE  BY <1>1, <2>2
    <3>2. at \in 1..Len(file) /\ m \in 1..Len(file)  BY <1>0, <1>5, <2>2
    <3>3. file[at] # Newline /\ file[m] # Newline /\ file[at].rec = r /\ file[m].rec = s
      BY <1>6, <2>1, CellsDiffer
    <3>4. r <= s  BY <3>1, <3>2, <3>3 DEF SortedOK, Ordered
    <3>. QED  BY <2>2, <3>4
  <2>4. m + 1 # at  BY <1>6, <2>1, CellsDiffer
  <2>5. m + 2 <= at /\ m + 2 \in 3..Len(file) /\ m + 1 \in 1..Len(file) - 1 /\ m + 1 + 1 = m + 2
    BY <1>0, <1>1, <1>5, <2>2, <2>3, <2>4
  <2>6. file[m + 2] = Newline  BY <2>1, <2>2, <2>5 DEF EndsAreTorn
  <2>7. m + 2 # at  BY <1>6, <2>6, CellsDiffer
  <2>8. m + 2 <= Position /\ m + 2 - 2 = m /\ m + 2 - 1 = m + 1  BY <1>0, <1>1, <2>2, <2>5, <2>7
  <2>9. EndsAt(s, m + 2)  BY <2>1, <2>5, <2>6, <2>8 DEF EndsAt
  <2>. QED  BY <2>2, <2>5, <2>8, <2>9 DEF ReadBefore, Kept
<1>. QED  BY <1>8, <1>9

(* A write completes no record older than one in the file.                 *)
LEMMA NoneMissedLater ==
  ASSUME TypeOK, SortedOK, NEW k \in 1..Len(buffer), Write(k), SortedOK',
         NEW r \in Ids, Appears(r)
  PROVE  Appears(r)' /\ \A s \in Ids : Missed(s, r)' => Missed(s, r)
<1>0. /\ Len(file) \in Nat /\ Len(file') = Len(file) + k /\ k \in Nat
      /\ \A i \in 1..Len(file) : file'[i] = file[i]
      /\ torn \subseteq torn'
  BY WriteMoves, LenProperties DEF TypeOK
<1>1. \A x, h : Half(x, h)' = Half(x, h)  BY DEF Half
<1>2. PICK a \in 1..Len(file) - 1 : file[a] = Half(r, 1) /\ file[a + 1] = Half(r, 2)
  BY DEF Appears
<1>3. a \in Nat /\ a \in 1..Len(file) /\ a + 1 \in 1..Len(file) /\ a \in 1..Len(file') - 1
  BY <1>0
<1>4. file'[a] = Half(r, 1) /\ file'[a + 1] = Half(r, 2)  BY <1>0, <1>2, <1>3
<1>5. Appears(r)'  BY <1>1, <1>3, <1>4 DEF Appears
<1>6. ASSUME NEW s \in Ids, Missed(s, r)' PROVE Missed(s, r)
  <2>1. s < r /\ s \notin torn'  BY <1>6 DEF Missed
  <2>2. PICK m \in 1..Len(file') - 1 : file'[m] = Half(s, 1) /\ file'[m + 1] = Half(s, 2)
    BY <1>1, <1>6 DEF Missed, Appears
  <2>3. m + 1 <= Len(file)
    <3>1. SUFFICES ASSUME m + 1 > Len(file) PROVE FALSE  BY <1>0
    <3>2. a \in 1..Len(file') /\ m + 1 \in 1..Len(file') /\ a <= m + 1  BY <1>0, <1>3, <3>1
    <3>3. /\ file'[a] # Newline /\ file'[m + 1] # Newline
          /\ file'[a].rec = r /\ file'[m + 1].rec = s
      BY <1>4, <2>2, CellsDiffer
    <3>4. Newline' = Newline  BY DEF Newline
    <3>5. r <= s  BY <3>2, <3>3, <3>4 DEF SortedOK, Ordered
    <3>. QED  BY <2>1, <3>5 DEF Ids
  <2>4. m \in 1..Len(file) - 1 /\ m \in 1..Len(file) /\ m + 1 \in 1..Len(file)  BY <1>0, <2>3
  <2>5. file[m] = Half(s, 1) /\ file[m + 1] = Half(s, 2)  BY <1>0, <2>2, <2>4
  <2>6. Appears(s)  BY <2>4, <2>5 DEF Appears
  <2>. QED  BY <1>0, <2>1, <2>6 DEF Missed
<1>. QED  BY <1>5, <1>6

LEMMA ScanKeepsOrder ==
  ASSUME TypeOK, OffsetOK, OrderOK, Scan
  PROVE  BatchInOrder'
<1>0. /\ UNCHANGED <<file, got, torn>> /\ pc = "scan" /\ batch \in Seq(Ids)
      /\ Len(batch) \in Nat /\ Len(file) \in Nat /\ Position \in Nat
  BY LenProperties DEF Scan, TypeOK, Position
<1>1. /\ \A r : Received(r)' <=> Received(r)
      /\ \A r : Appears(r)' <=> Appears(r)
      /\ \A s, r : Missed(s, r)' <=> Missed(s, r)
  BY <1>0 DEF Received, Holds, Missed, Appears, Half
<1>2. ReadBefore(Position) /\ BatchInOrder /\ SortedOK /\ EndsAreTorn
  BY <1>0 DEF OffsetOK, OrderOK
<1>3. CASE batch' = batch
  BY <1>0, <1>1, <1>2, <1>3 DEF BatchInOrder
<1>4. ASSUME NEW to \in Int, to <= Len(file), NEW r \in Ids,
             SubSeq(file, Position + 1, to) = Body(r), batch' = Append(batch, r)
      PROVE  BatchInOrder'
  <2>1. Appears(r) /\ \A s \in Ids : Missed(s, r) => Received(s) \/ Holds(batch, s)
    BY <1>2, <1>4, OlderWereRead
  <2>2. /\ Len(batch') = Len(batch) + 1 /\ batch'[Len(batch) + 1] = r
        /\ \A i \in 1..Len(batch) : batch'[i] = batch[i]
    BY <1>0, <1>4, AppendProperties
  <2>3. ASSUME NEW i \in 1..Len(batch')
        PROVE  /\ Appears(batch'[i])
               /\ \A s \in Ids : Missed(s, batch'[i]) =>
                    Received(s) \/ \E k \in 1..i - 1 : batch'[k] = s
    <3>1. CASE i = Len(batch) + 1
      <4>1. batch'[i] = r /\ i - 1 = Len(batch)  BY <1>0, <2>2, <3>1
      <4>. QED  BY <2>1, <2>2, <4>1 DEF Holds
    <3>2. CASE i # Len(batch) + 1
      <4>1. i \in 1..Len(batch) /\ \A k \in 1..i - 1 : k \in 1..Len(batch)
        BY <1>0, <2>2, <3>2
      <4>. QED  BY <1>0, <1>2, <2>2, <4>1 DEF BatchInOrder
    <3>. QED  BY <3>1, <3>2
  <2>. QED  BY <1>1, <2>3 DEF BatchInOrder
<1>5. \/ batch' = batch
      \/ \E to \in Int, r \in Ids :
           /\ to <= Len(file) /\ SubSeq(file, Position + 1, to) = Body(r)
           /\ batch' = Append(batch, r)
  <2>1. \A n \in LineEnds(Position) : n - 1 \in Int /\ n - 1 <= Len(file)
    BY <1>0 DEF LineEnds
  <2>2. \/ batch' = batch
        \/ \E to \in Int : to <= Len(file) /\ batch' = WithRecord(SubSeq(file, Position + 1, to))
    BY <1>0, <2>1, ScanGoesOn
  <2>. QED  BY <2>2, LineIsParsed
<1>. QED  BY <1>3, <1>4, <1>5

LEMMA SendKeepsOrder ==
  ASSUME TypeOK, BatchInOrder, GotInOrder, pc = "send", Receives, UNCHANGED <<file, batch, torn>>
  PROVE  GotInOrder'
<1>0. /\ \A r : Appears(r)' <=> Appears(r)
      /\ \A s, r : Missed(s, r)' <=> Missed(s, r)
  BY DEF Missed, Appears, Half
<1>. got \in Seq(Seq(Ids)) /\ batch \in Seq(Ids) /\ Len(got) \in Nat
  BY LenProperties DEF TypeOK
<1>1. CASE got' = got
  BY <1>0, <1>1 DEF GotInOrder
<1>2. CASE got' = Append(got, batch)
  <2>1. /\ Len(got') = Len(got) + 1 /\ got'[Len(got) + 1] = batch
        /\ \A p \in 1..Len(got) : got'[p] = got[p]
    BY <1>2, AppendProperties
  <2>2. ASSUME NEW p \in 1..Len(got'), NEW i \in 1..Len(got'[p])
        PROVE  /\ Appears(got'[p][i])
               /\ \A s \in Ids : Missed(s, got'[p][i]) =>
                    \E b \in 1..p : \E k \in 1..Len(got'[b]) : (b < p \/ k < i) /\ got'[b][k] = s
    <3>1. CASE p # Len(got) + 1
      <4>1. p \in 1..Len(got) /\ \A b \in 1..p : b \in 1..Len(got)  BY <2>1, <3>1
      <4>2. got'[p] = got[p] /\ \A b \in 1..p : got'[b] = got[b]  BY <2>1, <4>1
      <4>3. i \in 1..Len(got[p])  BY <4>2
      <4>4. Appears(got[p][i])  BY <4>1, <4>3 DEF GotInOrder
      <4>5. ASSUME NEW s \in Ids, Missed(s, got[p][i])
            PROVE  \E b \in 1..p : \E k \in 1..Len(got'[b]) : (b < p \/ k < i) /\ got'[b][k] = s
        <5>1. PICK b \in 1..p : \E k \in 1..Len(got[b]) : (b < p \/ k < i) /\ got[b][k] = s
          BY <4>1, <4>3, <4>5 DEF GotInOrder
        <5>2. got'[b] = got[b]  BY <4>2
        <5>. QED  BY <5>1, <5>2
      <4>. QED  BY <4>2, <4>4, <4>5
    <3>2. CASE p = Len(got) + 1
      <4>1. got'[p] = batch /\ i \in 1..Len(batch)  BY <2>1, <3>2
      <4>2. Appears(batch[i])  BY <4>1 DEF BatchInOrder
      <4>3. ASSUME NEW s \in Ids, Missed(s, batch[i])
            PROVE  \E b \in 1..p : \E k \in 1..Len(got'[b]) : (b < p \/ k < i) /\ got'[b][k] = s
        <5>1. Received(s) \/ \E k \in 1..i - 1 : batch[k] = s
          BY <4>1, <4>3 DEF BatchInOrder
        <5>2. CASE Received(s)
          <6>1. PICK b \in 1..Len(got) : \E k \in 1..Len(got[b]) : got[b][k] = s
            BY <5>2 DEF Received, Holds
          <6>2. b \in 1..p /\ b < p  BY <3>2
          <6>3. got'[b] = got[b]  BY <2>1
          <6>. QED  BY <6>1, <6>2, <6>3
        <5>3. CASE \E k \in 1..i - 1 : batch[k] = s
          <6>1. PICK k \in 1..i - 1 : batch[k] = s  BY <5>3
          <6>2. Len(batch) \in Nat  BY LenProperties
          <6>3. k \in 1..Len(batch) /\ k < i /\ p \in 1..p  BY <3>2, <4>1, <6>2
          <6>. QED  BY <4>1, <6>1, <6>3
        <5>. QED  BY <5>1, <5>2, <5>3
      <4>. QED  BY <4>1, <4>2, <4>3
    <3>. QED  BY <3>1, <3>2
  <2>. QED  BY <1>0, <2>2 DEF GotInOrder
<1>. QED  BY <1>1, <1>2 DEF Receives

LEMMA OrderStays ==
  ASSUME TypeOK, FileOK, OffsetOK, OrderOK, [Next]_vars
  PROVE  OrderOK'
<1>0. SortedOK' /\ EndsAreTorn'  BY SortedStays, EndsStay DEF OrderOK, FileOK
<1>1. \A r : UNCHANGED got => (Received(r)' <=> Received(r))  BY DEF Received, Holds
<1>2. ASSUME UNCHANGED file, torn \subseteq torn'
      PROVE  \A r : (Appears(r)' <=> Appears(r)) /\ \A s : Missed(s, r)' => Missed(s, r)
  BY <1>2 DEF Missed, Appears, Half
<1>3. ASSUME UNCHANGED <<file, got>>, torn \subseteq torn'
      PROVE  /\ GotInOrder'
             /\ UNCHANGED <<pc, batch>> => BatchInOrder'
  BY <1>1, <1>2, <1>3 DEF OrderOK, GotInOrder, BatchInOrder
<1>4. ASSUME NEW n \in 1..MaxExport, Export(n) PROVE GotInOrder' /\ BatchInOrder'
  <2>1. UNCHANGED <<file, got, pc, batch>> /\ torn \subseteq torn'
    BY <1>4, ExportFills DEF Export, readerVars
  <2>. QED  BY <1>3, <2>1
<1>5. ASSUME NEW k \in 1..Len(buffer), Write(k) PROVE GotInOrder' /\ BatchInOrder'
  <2>1. UNCHANGED <<got, pc, batch>>  BY <1>5 DEF Write, readerVars
  <2>2. \A r \in Ids : Appears(r) => Appears(r)' /\ \A s \in Ids : Missed(s, r)' => Missed(s, r)
    BY <1>0, <1>5, NoneMissedLater DEF OrderOK
  <2>3. /\ \A i \in 1..Len(batch) : batch[i] \in Ids
        /\ \A p \in 1..Len(got) : \A i \in 1..Len(got[p]) : got[p][i] \in Ids
    BY ElementOfSeq DEF TypeOK
  <2>4. BatchInOrder'  BY <1>1, <2>1, <2>2, <2>3 DEF OrderOK, BatchInOrder
  <2>5. GotInOrder'    BY <2>1, <2>2, <2>3 DEF OrderOK, GotInOrder
  <2>. QED  BY <2>4, <2>5
<1>6. CASE Tick
  <2>1. UNCHANGED <<file, got, torn>> /\ Len(batch') = 0  BY <1>6, EmptySeq DEF Tick
  <2>. QED  BY <1>0, <1>3, <2>1 DEF OrderOK, BatchInOrder
<1>7. CASE Scan
  <2>1. UNCHANGED <<file, got, torn>>  BY <1>7 DEF Scan
  <2>. QED  BY <1>0, <1>3, <1>7, <2>1, ScanKeepsOrder DEF OrderOK
<1>8. CASE SendAnswered \/ SendUnanswered
  <2>1. /\ UNCHANGED <<file, batch, torn>> /\ Receives /\ pc = "send"
        /\ pc' \in {"truncate", "idle"}
    BY <1>8 DEF SendAnswered, SendUnanswered
  <2>2. GotInOrder'  BY <2>1, SendKeepsOrder DEF OrderOK
  <2>. QED  BY <1>0, <2>1, <2>2 DEF OrderOK, BatchInOrder
<1>9. CASE SendFails \/ Truncate \/ Crash
  <2>1. UNCHANGED <<file, got, torn>> /\ pc' \in {"idle", "write"}
    BY <1>9 DEF SendFails, Truncate, Crash
  <2>. QED  BY <1>0, <1>3, <2>1 DEF OrderOK, BatchInOrder
<1>10. CASE SaveOffset \/ SaveFails
  <2>1. UNCHANGED <<file, got, torn>> /\ Len(batch') = 0
    BY <1>10, EmptySeq DEF SaveOffset, SaveFails, NextRound
  <2>. QED  BY <1>0, <1>3, <2>1 DEF OrderOK, BatchInOrder
<1>11. CASE UNCHANGED vars
  <2>1. UNCHANGED <<file, got, torn, pc, batch>>  BY <1>11 DEF vars, readerVars
  <2>. QED  BY <1>0, <1>3, <2>1 DEF OrderOK
<1>. QED
  BY <1>0, <1>4, <1>5, <1>6, <1>7, <1>8, <1>9, <1>10, <1>11 DEF Next, Upload, OrderOK

-----------------------------------------------------------------------------
LEMMA TypesStart ==
  ASSUME Init
  PROVE  TypeOK /\ BatchIsOpen
<1>1. /\ MaxRecords \in Nat /\ MaxFaults \in Nat /\ BatchSize \in Nat
  BY UploaderAssumption
<1>2. /\ file \in Seq(Cells) /\ buffer \in Seq(Cells) /\ batch \in Seq(Ids)
      /\ got \in Seq(Seq(Ids)) /\ Len(batch) = 0
  BY EmptySeq DEF Init
<1>3. atEOF \in BOOLEAN /\ again \in BOOLEAN  BY DEF Init
<1>4. /\ saved \in Nat \cup {Empty} /\ pc = "idle" /\ offset \in Nat /\ bytesRead \in Nat
      /\ made \in 0..MaxRecords /\ faults \in 0..MaxFaults /\ torn \subseteq Ids
  BY <1>1 DEF Init
<1>. QED  BY <1>1, <1>2, <1>3, <1>4 DEF TypeOK, BatchIsOpen

(* TypeOK, for files of every length and batches of every size.            *)
THEOREM SpoolIsTyped == Spec => []TypeOK
<1>1. Init => TypeOK /\ BatchIsOpen  BY TypesStart
<1>2. TypeOK /\ BatchIsOpen /\ [Next]_vars => (TypeOK /\ BatchIsOpen)'  BY TypesStay
<1>. QED  BY <1>1, <1>2, PTL DEF Spec

LEMMA Inductive == Spec => [](IInv /\ FaultlessOK /\ OrderOK)
<1>1. Init => IInv /\ FaultlessOK /\ OrderOK
  <2>. SUFFICES ASSUME Init PROVE IInv /\ FaultlessOK /\ OrderOK  OBVIOUS
  <2>0. Len(file) = 0 /\ Len(buffer) = 0 /\ Len(got) = 0 /\ Len(batch) = 0  BY EmptySeq DEF Init
  <2>1. TypeOK /\ BatchIsOpen  BY TypesStart
  <2>2. FileOK  BY <2>0 DEF Init, FileOK, BufferIsLines, CutIsTorn, SpoiltIsTorn
  <2>3. OffsetOK  BY DEF Init, OffsetOK
  <2>4. InPlace  BY <2>0 DEF Init, InPlace
  <2>5. SentOnce  BY <2>0 DEF Init, SentOnce, Received
  <2>6. OrderOK
    BY <2>0, EmptySeq
    DEF Init, OrderOK, SortedOK, EndsAreTorn, Unterminated, BatchInOrder, GotInOrder
  <2>. QED  BY <2>1, <2>2, <2>3, <2>4, <2>5, <2>6 DEF IInv, FaultlessOK
<1>2. IInv /\ FaultlessOK /\ OrderOK /\ [Next]_vars => (IInv /\ FaultlessOK /\ OrderOK)'
  <2>1. IInv /\ FaultlessOK /\ OrderOK /\ [Next]_vars => IInv'
    BY TypesStay, FileStays, OffsetStays DEF IInv
  <2>2. IInv /\ FaultlessOK /\ OrderOK /\ [Next]_vars => FaultlessOK'
    BY PlacesStay, SentOnceStays DEF IInv, FaultlessOK
  <2>3. IInv /\ FaultlessOK /\ OrderOK /\ [Next]_vars => OrderOK'
    BY OrderStays DEF IInv
  <2>. QED  BY <2>1, <2>2, <2>3
<1>. QED  BY <1>1, <1>2, PTL DEF Spec

(* OffsetFollowsPro: the offset on disk passes no record that Pro does not *)
(* have, through every number of crashes, lost answers and failed saves,   *)
(* unless the record's line was torn.                                      *)
THEOREM OffsetWaitsForPro == Spec => []OffsetFollowsPro
<1>1. IInv => OffsetFollowsPro
  <2>. SUFFICES ASSUME IInv, NEW r \in Ids,
                       r \in WholeBefore(IF saved <= Len(file) THEN saved ELSE Len(file))
                PROVE  Received(r) \/ r \in torn
    BY DEF OffsetFollowsPro, WholeBefore
  <2>0. /\ file \in Seq(Cells) /\ Len(file) \in Nat /\ saved \in Nat \cup {Empty}
        /\ \A i \in 1..Len(file) : file[i] \in Cells
    BY LenProperties, ElementOfSeq DEF IInv, TypeOK
  <2>1. PICK i \in 0..(IF saved <= Len(file) THEN saved ELSE Len(file)) - 3 : Whole(r, i)
    BY DEF WholeBefore
  <2>2. /\ i \in Nat /\ i + 3 <= saved /\ i + 3 <= Len(file) /\ i + 3 \in 3..Len(file)
        /\ saved # Empty
    BY <2>0, <2>1 DEF Empty
  <2>3. \A c \in 1..3 : SubSeq(file, i + 1, i + 3)[c] = file[i + 1 + c - 1]
    <3>1. \A c \in i + 1..i + 3 : file[c] \in Cells  BY <2>0, <2>2
    <3>2. i + 1 \in Int /\ i + 3 \in Int /\ i + 3 - (i + 1) + 1 = 3  BY <2>2
    <3>. QED  BY <3>1, <3>2, SubSeqProperties
  <2>4. SubSeq(file, i + 1, i + 3) = Line(r)  BY <2>1 DEF Whole
  <2>5. file[i + 1] = Half(r, 1) /\ file[i + 2] = Half(r, 2) /\ file[i + 3] = Newline
    <3>1. i + 1 + 1 - 1 = i + 1 /\ i + 1 + 2 - 1 = i + 2 /\ i + 1 + 3 - 1 = i + 3  BY <2>2
    <3>2. 1 \in 1..3 /\ 2 \in 1..3 /\ 3 \in 1..3  OBVIOUS
    <3>. QED  BY <2>3, <2>4, <3>1, <3>2, LineIsThreeCells
  <2>6. EndsAt(r, i + 3)
    <3>1. i + 3 - 2 = i + 1 /\ i + 3 - 1 = i + 2  BY <2>2
    <3>. QED  BY <2>2, <2>5, <3>1 DEF EndsAt
  <2>. QED  BY <2>2, <2>6 DEF IInv, OffsetOK, SentBefore, Kept
<1>. QED  BY <1>1, Inductive, PTL

(* Where every write fits the buffer of the writer no line is torn, and    *)
(* then the log is what the code says it is.                               *)
TearsNeedTorn == ~Torn => torn = {}
LogIsExportedUntorn == ~Torn => LogIsExported

(* LogIsExported, which SpoolUploader_torn refutes: as long as no batch is *)
(* larger than the writer's buffer, everything behind the offset is with   *)
(* Pro.  Crashes alone, lost answers and failed saves do not break it.     *)
THEOREM UntornLogIsExported == Spec => []LogIsExportedUntorn
<1>1. Init => TearsNeedTorn
  BY DEF Init, TearsNeedTorn
<1>2. IInv /\ OrderOK /\ TearsNeedTorn /\ [Next]_vars => TearsNeedTorn'
  <2>. SUFFICES ASSUME IInv, OrderOK, ~Torn, torn = {}, [Next]_vars PROVE torn' = torn
    BY DEF TearsNeedTorn
  <2>1. ~Unterminated(file)  BY DEF OrderOK, EndsAreTorn
  <2>2. ASSUME NEW n \in 1..MaxExport, Export(n) PROVE torn' = torn
    BY <2>1, <2>2 DEF Export
  <2>3. ASSUME NEW k \in 1..Len(buffer), Write(k) PROVE torn' = torn
    BY <2>3 DEF Write
  <2>4. CASE Upload \/ UNCHANGED vars  BY <2>4, UploadReads
  <2>5. CASE Crash  BY <2>5 DEF Crash
  <2>. QED  BY <2>2, <2>3, <2>4, <2>5 DEF Next
<1>3. TearsNeedTorn /\ OffsetFollowsPro => LogIsExportedUntorn
  BY DEF TearsNeedTorn, OffsetFollowsPro, LogIsExportedUntorn, LogIsExported
<1>. QED  BY <1>1, <1>2, <1>3, Inductive, OffsetWaitsForPro, PTL DEF Spec

(* NoNeedlessCopies: as long as nothing fails no record goes twice.        *)
THEOREM CopiesNeedFaults == Spec => []NoNeedlessCopies
<1>1. IInv /\ FaultlessOK => NoNeedlessCopies
  BY DEF IInv, TypeOK, FaultlessOK, SentOnce, NoNeedlessCopies
<1>. QED  BY <1>1, Inductive, PTL

(* FirstCopiesInOrder: Pro hears of the untorn records in their order.     *)
THEOREM ProHearsInOrder == Spec => []FirstCopiesInOrder
<1>1. IInv /\ OrderOK => FirstCopiesInOrder
  <2>. SUFFICES ASSUME IInv, OrderOK PROVE FirstCopiesInOrder  OBVIOUS
  <2>. USE DEF FirstCopiesInOrder
  <2>. TAKE p, q \in 1..Len(got)
  <2>. TAKE i \in 1..Len(got[p]), j \in 1..Len(got[q])
  <2>. HAVE got[q][j] < got[p][i] /\ got[q][j] \notin torn
  <2>1. got[q][j] \in Ids  BY ElementOfSeq DEF IInv, TypeOK
  <2>2. Missed(got[q][j], got[p][i])  BY DEF OrderOK, GotInOrder, Missed
  <2>3. \A s \in Ids : Missed(s, got[p][i]) =>
          \E b \in 1..p : \E k \in 1..Len(got[b]) : (b < p \/ k < i) /\ got[b][k] = s
    BY DEF OrderOK, GotInOrder
  <2>. QED  BY <2>1, <2>2, <2>3
<1>. QED  BY <1>1, Inductive, PTL
=============================================================================
