--------------------------------- MODULE Logs ----------------------------------
(* db/RotatingLog.hpp, db/PlainLog.hpp and db/GzipLog.hpp: a program that      *)
(* appends records to a log, and may die and start again, and another that     *)
(* reads it at the same time. A record is written by one call, which may fail  *)
(* half-way (a full disk), and is read by one fread or gzread; T next() of a   *)
(* GzipLogReader gives an item whether or not there was one to read.           *)
(* A file is a sequence of half records: 2n - 1 and 2n are those of record n.  *)
(* Of a log that rotates, a file is named by the local time of its opening, to *)
(* the second; local time may go back. A log that does not rotate has one.     *)
(* Op_Fault is a faulty variant of Op, as in Source.                           *)
EXTENDS Integers, Sequences

CONSTANTS Kinds,           \* which of "rotating", "plain" and "gzip" the run writes
          Interval,        \* _interval
          CheckThreshold,  \* _check_threshold, in half records
          Turns,           \* by how much local time may be put back
          MaxTime,         \* bound: the last second
          MaxRecords,      \* bound: records appended
          MaxFailures,     \* bound: failures of a call, and deaths of the writer
          MaxShown         \* bound: the last item that T next() gives without a record

ASSUME KindsAssumption    == Kinds \subseteq {"rotating", "plain", "gzip"}
ASSUME IntervalAssumption == Interval \in Nat /\ CheckThreshold \in Nat /\ Turns \subseteq Nat
ASSUME BoundsAssumption   == MaxTime \in Nat \ {0} /\ MaxRecords \in Nat /\ MaxFailures \in Nat
                             /\ MaxShown \in Nat

VARIABLES
  kind,      \* the log
  files,     \* the files of its directory: name to contents
  now,       \* time(NULL)
  behind,    \* how far local time was put back
  writer,    \* the RotatingLogWriter, PlainLogWriter or GzipLogWriter, or Absent
  reader,    \* the reader, or Absent
  written,   \* how many records were given to append()
  failures,
  shown,     \* ghost: what next() has given the program, each a pair of halves
  base       \* ghost: how many records were written when the reader was made

clock == <<now, behind>>
vars  == <<kind, files, clock, writer, reader, written, failures, shown, base>>

Absent == [at |-> "none"]
Closed == <<>>             \* _file is NULL, or what it points to has failed

Halves(n) == <<2 * n - 1, 2 * n>>
IsWhole(pair) == pair[1] % 2 = 1 /\ pair[2] = pair[1] + 1

(* What nobody set of an item that is given: whatever is in memory there, and *)
(* it may be an earlier record.                                               *)
Unset == 0

\* The name start() builds, or the path of a log that does not rotate.
Name == IF kind = "rotating" THEN <<now - behind>> ELSE <<0>>

\* fopen(path, "ab"): the file is made when there is none.
Created_Never(all, name) == all
Created(all, name) ==
  [f \in DOMAIN all \union {name} |-> IF f \in DOMAIN all THEN all[f] ELSE <<>>]

Put(name, halves) == [files EXCEPT ![name] = @ \o halves]

Init ==
  /\ kind \in Kinds
  /\ files = [f \in {} |-> <<>>]
  /\ now = 1 /\ behind = 0
  /\ writer = Absent /\ reader = Absent
  /\ written = 0 /\ failures = 0
  /\ shown = <<>> /\ base = 0

-----------------------------------------------------------------------------
(* The clock: time goes on, and the local time may be put back once.         *)

Tick ==
  /\ now < MaxTime
  /\ now' = now + 1
  /\ UNCHANGED <<kind, files, behind, writer, reader, written, failures, shown, base>>

TurnBack ==
  /\ behind = 0
  /\ behind' \in Turns
  /\ UNCHANGED <<kind, files, now, writer, reader, written, failures, shown, base>>

-----------------------------------------------------------------------------
(* The writer.                                                               *)

\* The constructor.
OpenWriter ==
  /\ writer = Absent
  /\ files' = Created(files, Name)
  /\ writer' = [at |-> Name, opened |-> now, bytes |-> 0]
  /\ UNCHANGED <<kind, clock, reader, written, failures, shown, base>>

Appends ==
  /\ writer # Absent
  /\ written < MaxRecords
  /\ written' = written + 1
  /\ UNCHANGED <<kind, clock, reader, shown, base>>

\* What append() finds when the record is in the file: it is time to rotate.
Due == kind = "rotating" /\ writer.bytes + 2 > CheckThreshold /\ now - writer.opened >= Interval

AppendRecord ==
  /\ Appends /\ writer.at # Closed /\ ~ Due
  /\ files' = Put(writer.at, Halves(written + 1))
  /\ writer' = [writer EXCEPT !.bytes = @ + 2]
  /\ UNCHANGED failures

\* start() again: the record that was just written is the last of its file.
AppendRotates ==
  /\ Appends /\ writer.at # Closed /\ Due
  /\ files' = Created(Put(writer.at, Halves(written + 1)), Name)
  /\ writer' = [at |-> Name, opened |-> now, bytes |-> 0]
  /\ UNCHANGED failures

(* The file cannot be opened: append() throws, though the record is written, *)
(* and leaves no file; _last_timestamp is the new one, _bytes_written the    *)
(* old.                                                                      *)
RotationFails ==
  /\ Appends /\ writer.at # Closed /\ Due
  /\ failures < MaxFailures
  /\ failures' = failures + 1
  /\ files' = Put(writer.at, Halves(written + 1))
  /\ writer' = [at |-> Closed, opened |-> now, bytes |-> writer.bytes + 2]

(* The disk takes half of the record and append() throws. A FILE forgets the *)
(* other half, and goes on with the next record; a gzFile keeps its error.   *)
AppendFails ==
  /\ Appends /\ writer.at # Closed
  /\ failures < MaxFailures
  /\ failures' = failures + 1
  /\ files' = Put(writer.at, <<2 * written + 1>>)
  /\ writer' = IF kind = "gzip" THEN [writer EXCEPT !.at = Closed] ELSE writer

\* A gzFile that has failed throws again; fwrite to a NULL file kills the program.
AppendNowhere ==
  /\ Appends /\ writer.at = Closed
  /\ writer' = IF kind = "gzip" THEN writer ELSE Absent
  /\ UNCHANGED <<files, failures>>

\* The writer is destroyed, or its program dies: append() has flushed everything.
WriterEnds ==
  /\ writer # Absent
  /\ failures < MaxFailures
  /\ failures' = failures + 1
  /\ writer' = Absent
  /\ UNCHANGED <<kind, files, clock, reader, written, shown, base>>

Writer == OpenWriter \/ AppendRecord \/ AppendRotates \/ RotationFails
          \/ AppendFails \/ AppendNowhere \/ WriterEnds

-----------------------------------------------------------------------------
(* The reader. A step is one fread, or one fopen, of a call of next().       *)

\* The constructor: a rotating log is listed, another one opened.
OpenReader ==
  /\ reader = Absent
  /\ kind = "gzip" => DOMAIN files # {}    \* or it throws
  /\ reader' = IF kind = "rotating" \/ DOMAIN files = {}
               THEN [at |-> Closed, paths |-> DOMAIN files, pos |-> 0, ended |-> FALSE]
               ELSE [at |-> <<0>>, paths |-> {}, pos |-> 0, ended |-> FALSE]
  /\ shown' = <<>> /\ base' = written
  /\ UNCHANGED <<kind, files, clock, writer, written, failures>>

CloseReader ==
  /\ reader # Absent
  /\ reader' = Absent
  /\ shown' = <<>> /\ base' = 0
  /\ UNCHANGED <<kind, files, clock, writer, written, failures>>

Reads ==
  /\ reader # Absent
  /\ UNCHANGED <<kind, files, clock, writer, written, failures, base>>

Opened == reader # Absent /\ reader.at # Closed
Left == Len(files[reader.at]) - reader.pos
Ahead == SubSeq(files[reader.at], reader.pos + 1, reader.pos + 2)

\* gzread has a record to give.
RecordAhead == ~ reader.ended /\ Left >= 2 /\ IsWhole(Ahead)

OpenNext_AnyFile ==
  /\ Reads /\ ~ Opened
  /\ \E name \in reader.paths :
       reader' = [reader EXCEPT !.at = name, !.paths = @ \ {name}, !.pos = 0]
  /\ UNCHANGED shown

\* rotate_file(): the next path of the std::set, which orders them as strings.
OpenNext ==
  /\ Reads /\ ~ Opened
  /\ \E name \in reader.paths :
       /\ \A other \in reader.paths : name[1] <= other[1]
       /\ reader' = [reader EXCEPT !.at = name, !.paths = @ \ {name}, !.pos = 0]
  /\ UNCHANGED shown

\* rotate_file() has no path left, or a PlainLog had no file: next() is false.
NoFile ==
  /\ Reads /\ ~ Opened /\ reader.paths = {}
  /\ reader' = [reader EXCEPT !.ended = TRUE]
  /\ UNCHANGED shown

ReadRecord_OneByOne ==
  /\ Reads /\ Opened /\ Left >= 2
  /\ kind = "gzip" => RecordAhead
  /\ shown' = Append(shown, Ahead)
  /\ reader' = [reader EXCEPT !.pos = @ + 1]

\* A record is read, whatever the two halves are; but gzip checks.
ReadRecord ==
  /\ Reads /\ Opened /\ Left >= 2
  /\ kind = "gzip" => RecordAhead
  /\ shown' = Append(shown, Ahead)
  /\ reader' = [reader EXCEPT !.pos = @ + 2]

ReadEnd_Stops ==
  /\ Reads /\ Opened /\ Left < 2
  /\ reader' = [reader EXCEPT !.at = Closed, !.paths = {}, !.ended = TRUE]
  /\ UNCHANGED shown

(* Less than a record is left: a RotatingLogReader closes the file and turns *)
(* to the next one. The others return false and have read what was left; a   *)
(* FILE may, or may not, read on when the file has grown.                    *)
ReadEnd ==
  /\ Reads /\ Opened /\ Left < 2
  /\ reader' = IF kind = "rotating" THEN [reader EXCEPT !.at = Closed]
               ELSE [reader EXCEPT !.pos = @ + Left, !.ended = TRUE]
  /\ UNCHANGED shown

(* gzread meets a stream that was cut, and returns an error, or less than a  *)
(* record, from then on: what a program sees that compares what next(T&)     *)
(* returns with the size, as tests/gzip.cpp does.                            *)
ReadFails ==
  /\ Reads /\ Opened /\ kind = "gzip"
  /\ Left >= 2 /\ ~ IsWhole(Ahead)
  /\ reader' = [reader EXCEPT !.ended = TRUE]
  /\ UNCHANGED shown

\* What gzread may still give when no record can be read: a first half, or nothing.
Scrap == IF reader.ended \/ Left = 0 THEN {Unset} ELSE {Unset, files[reader.at][reader.pos + 1]}

(* T next() of a GzipLogReader looks at nothing that gzread returns. It is   *)
(* ReadRecord when there is a record; at the end and behind damage it gives  *)
(* an item all the same, and gzread stays where it is.                       *)
ReadUnset ==
  /\ Reads /\ Opened /\ kind = "gzip"
  /\ ~ RecordAhead
  /\ Len(shown) < MaxShown
  /\ \E half \in Scrap : shown' = Append(shown, <<half, Unset>>)
  /\ reader' = [reader EXCEPT !.ended = TRUE]

Reader == OpenReader \/ CloseReader \/ OpenNext \/ NoFile
          \/ ReadRecord \/ ReadEnd \/ ReadFails \/ ReadUnset

-----------------------------------------------------------------------------
Next == Tick \/ TurnBack \/ Writer \/ Reader

Spec == Init /\ [][Next]_vars

-----------------------------------------------------------------------------
(* Properties.                                                               *)

Half == 1 .. 2 * MaxRecords

\* Every variable holds a value the programs can give it.
TypeOK ==
  /\ kind \in Kinds
  /\ DOMAIN files \subseteq Seq(Int) /\ \A f \in DOMAIN files : files[f] \in Seq(Half)
  /\ now \in 1 .. MaxTime /\ behind \in Turns \union {0}
  /\ writer # Absent =>
       writer \in [at : DOMAIN files \union {Closed}, opened : 1 .. now, bytes : 0 .. 2 * MaxRecords]
  /\ reader # Absent =>
       reader \in [at : DOMAIN files \union {Closed}, paths : SUBSET DOMAIN files,
                   pos : Nat, ended : BOOLEAN]
  /\ written \in 0 .. MaxRecords /\ failures \in 0 .. MaxFailures
  /\ shown \in Seq((Half \union {Unset}) \X (Half \union {Unset})) /\ base \in 0 .. written

(* Whatever the writer appends, rotates and breaks meanwhile, a reader gets  *)
(* no record twice, and records in the order they were written as long as    *)
(* local time was not put back: the names sort as the files were opened      *)
(* (RotatingLog.hpp, lines 26-31 and 145-154). An item that T next() of gzip *)
(* gives without reading one is none of them, whatever it looks like.        *)
RecordsInOrder ==
  \A i, j \in DOMAIN shown :
    i < j /\ IsWhole(shown[i]) /\ IsWhole(shown[j]) =>
      shown[i] # shown[j] /\ (behind = 0 => shown[i][1] < shown[j][1])

\* The records of a file that no failed write comes before.
Undamaged(f) ==
  {n \in 1 .. Len(files[f]) \div 2 :
     \A m \in 1 .. n : IsWhole(SubSeq(files[f], 2 * m - 1, 2 * m))}

(* A reader that has come to the end has shown every record that was written *)
(* when it was made, but for those a failed write damaged: the failed one    *)
(* and what comes after it in the same file. It goes on to the next file.    *)
UndamagedAreShown ==
  reader # Absent /\ reader.ended =>
    \A f \in DOMAIN files : \A n \in Undamaged(f) :
      files[f][2 * n] <= 2 * base =>
        \E i \in DOMAIN shown : shown[i] = SubSeq(files[f], 2 * n - 1, 2 * n)

(* What a reader gives for a record and is none: in a file that is not gzip, *)
(* it lies behind a failed write. In a gzip log, T next() gives it unset     *)
(* (GzipLog.hpp, lines 80-85), once gzread can give no record; it is         *)
(* never set again, so that no record follows it, and nothing but a first    *)
(* half can be in the first of them.                                         *)
OnlyDamageMisleads ==
  \A i \in DOMAIN shown :
    \/ IsWhole(shown[i])
    \/ /\ kind # "gzip"
       /\ \E f \in DOMAIN files : \E p \in 1 .. Len(files[f]) - 1 :
            /\ shown[i] = SubSeq(files[f], p, p + 1)
            /\ \E q \in 1 .. p : ~ IsWhole(SubSeq(files[f], q, q + 1)) /\ files[f][q] % 2 = 1
    \/ /\ kind = "gzip" /\ reader.ended /\ shown[i][2] = Unset
       /\ \A j \in DOMAIN shown : i < j => shown[j] = <<Unset, Unset>>
=============================================================================
