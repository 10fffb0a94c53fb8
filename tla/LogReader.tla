----------------------------- MODULE LogReader ------------------------------
(***************************************************************************)
(* A mirror of the job queue (ClassAdLogReader, ClassAdLogProber and       *)
(* ClassAdLogParser, as JobLogMirror uses them): another process polls the *)
(* log of ClassAdLog while the schedd writes it, and plays the operations  *)
(* it finds to a table of its own, committed or not.                       *)
(*                                                                         *)
(* A poll has two steps: Poll opens and probes the file, Load reads it.    *)
(* In between the schedd may write to the file, or rename a new one over   *)
(* it; then the poll goes on with the old one.  Offsets are counted in     *)
(* records.                                                                *)
(*                                                                         *)
(* A definition that no other one uses, just before the definition it      *)
(* varies, is a faulty variant of it: it shows that a property is able to  *)
(* fail.                                                                   *)
(***************************************************************************)
EXTENDS ClassAdLog

CONSTANT MaxSpilled  \* a bound on the parts in which a record gets to the file

\* The reader ends with the machine.
ASSUME LogReaderAssumption == MaxSpilled \in Nat /\ "power" \notin Faults

VARIABLES
    spilled,  \* how many parts of the next record are in the file
    rd        \* the reader

allvars == <<vars, spilled, rd>>

NoEntry == [op |-> "none"]
Entry == [rec : Record \cup {NoEntry}, off : Nat]

\* The consumer's table; nextOffset, lastCALogEntry and curCALogEntry of the
\* parser; last_size, last_seq_num, cur_probed_size and cur_probed_seq_num of the
\* prober; during a poll the kind of load, and the file if it is not the log any
\* more; and whether the last load was a bulk load that the consumer refused.
Reader == [mirror : Table, next : Nat, last : Entry, cur : Entry,
           size : Nat, seq : Nat, probedSize : Nat, probedSeq : Nat,
           load : {"idle", "bulk", "incremental"},
           replaced : BOOLEAN, file : Seq(Record), refused : BOOLEAN]

\* A reader that has just been started.
Fresh == [mirror |-> NoAds, next |-> 0,
          last |-> [rec |-> NoEntry, off |-> 0],
          cur |-> [rec |-> NoEntry, off |-> 0],
          size |-> 0, seq |-> 0, probedSize |-> 0, probedSeq |-> 0,
          load |-> "idle", replaced |-> FALSE, file |-> <<>>, refused |-> FALSE]

----------------------------------------------------------------------------
(* The file.                                                               *)

\* What the stdio buffer has let go.
OnDisk == SubSeq(log, 1, flushed) \o IF spilled > 0 THEN <<Torn>> ELSE <<>>

\* The file that the reader has open.
File == IF rd.replaced THEN rd.file ELSE OnDisk

\* st_size: a part of a record counts for less than a record.
Size ==
    (MaxSpilled + 1) * flushed + spilled
        - IF flushed > 0 /\ log[flushed] = Torn THEN 1 ELSE 0

\* stdio writes its buffer when it is full, wherever that is.
Spill(k, part) ==
    /\ mode \in {"up", "syncing"}
    /\ k = Len(log) => part = 0
    /\ k = flushed => part > spilled
    /\ flushed' = k
    /\ spilled' = part
    /\ UNCHANGED <<mode, memory, log, synced, img, pos, forced, seqnum, history,
                   rotation, spoilt, faults, rd>>

\* TruncLog has renamed a new file over the log, which it has closed before.
Renamed == mode = "rotating" /\ mode' = "up" /\ seqnum' = seqnum

\* A step of the schedd.  If it ends, more of the record that is in the file in
\* part may get there, never less; a reader in a poll keeps the file it has open.
Schedd ==
    /\ Next
    /\ mode' = "down" /\ spilled > 0 => Len(log') > flushed
    /\ spilled' = IF flushed' = flushed /\ mode' # "down" /\ ~Renamed
                  THEN spilled ELSE 0
    /\ rd' = IF Renamed /\ rd.load # "idle" /\ ~rd.replaced
             THEN [rd EXCEPT !.replaced = TRUE, !.file = log]
             ELSE rd

----------------------------------------------------------------------------
(* The reader.                                                             *)

\* A record can be read there.
Complete(f, i) == i <= Len(f) /\ f[i] # Torn

\* The probe reads where the last entry was; one that is left over from another
\* file may be anywhere in this one.
ProbesEntry(f) == rd.size # 0 /\ f[1].num = rd.seq
LeftOver == rd.next = 1 /\ rd.last.off > 0

ProbedGivingUp(f) ==
    IF ~ProbesEntry(f) THEN "bulk"
    ELSE IF Size > rd.size /\ f[rd.last.off + 1] = rd.last.rec THEN "incremental"
    ELSE "idle"

\* probe, and the load that Poll chooses by its result.
Probed(f) ==
    IF ~ProbesEntry(f) \/ f[rd.last.off + 1] # rd.last.rec THEN "bulk"
    ELSE IF Size = rd.size THEN "idle"
    ELSE IF Size > rd.size THEN "incremental"
    ELSE "bulk"

\* The file is opened and probed.
Poll ==
    /\ rd.load = "idle"
    /\ UNCHANGED <<vars, spilled>>
    /\ Complete(OnDisk, 1)
    /\ ProbesEntry(OnDisk) => Complete(OnDisk, rd.last.off + 1)
    /\ rd' = IF Probed(OnDisk) = "idle" THEN rd
             ELSE [rd EXCEPT !.load = Probed(OnDisk), !.probedSize = Size,
                             !.probedSeq = OnDisk[1].num]

\* The parser of the probe closes the file if it finds no entry in it, the reader
\* uses it and closes it again: undefined, and in practice the end of the process.
\* The master starts it again.
PollClosed ==
    /\ rd.load = "idle"
    /\ UNCHANGED <<vars, spilled>>
    /\ \/ ~Complete(OnDisk, 1)
       \/ ProbesEntry(OnDisk) /\ (LeftOver \/ ~Complete(OnDisk, rd.last.off + 1))
    /\ rd' = Fresh

\* ProcessLogEntry and the consumer: transactions are ignored, and an attribute of
\* an ad that is not there is refused.
Consume(t, r) == IF r.op \in {"New", "Destroy", "Set", "Delete"} THEN Play(t, r) ELSE t
Refuses(t, r) == r.op \in {"Set", "Delete"} /\ t[r.key] = Absent

AtWordAfter(f, i) == [rec |-> f[i], off |-> i - 2]

\* The entry of a record, with its offset.
At(f, i) == [rec |-> f[i], off |-> i - 1]

\* What curCALogEntry holds after a record that ends within its body: parts of that
\* record and of the one before, which may happen to be equal to the former.
Mixed == {NoEntry} \cup IF spilled > 0 /\ ~rd.replaced THEN {log[flushed + 1]} ELSE {}

\* The reader after it has read the records of f from start up to n, with table t.
Advanced(f, start, n, t) ==
    [rd EXCEPT
        !.mirror = t, !.next = n,
        !.last = IF n > start + 1 THEN At(f, n - 1)
                 ELSE IF n = start + 1 THEN rd.cur ELSE rd.last,
        !.cur = IF n > start THEN At(f, n) ELSE rd.cur,
        !.load = "idle", !.probedSize = 0, !.replaced = FALSE, !.file = <<>>,
        !.refused = FALSE]

AtEndOfFileSkipping(f, r) ==
    {[r EXCEPT !.next = Len(f), !.size = rd.probedSize, !.seq = rd.probedSeq]}

\* The end of what can be read: a record that ends within its header leaves no
\* trace, one that ends within its body leaves an entry.  incrementProbeInfo.
AtEndOfFile(f, r) ==
    LET observed == [r EXCEPT !.size = rd.probedSize, !.seq = rd.probedSeq]
    IN  {observed} \cup
        IF r.next = Len(f) THEN {}
        ELSE {[observed EXCEPT !.last = r.cur, !.cur = [rec |-> m, off |-> r.next]] :
                  m \in Mixed}

\* Behind a record that ends within its body there is the end of a transaction, or
\* the writer's buffer holds one that may get there while the parser looks for it.
BadRecord(f, end) ==
    LET whole == IF rd.replaced THEN f ELSE log
    IN  end < Len(f) /\ \E i \in end + 2 .. Len(whole) : whole[i] = End

\* A record is refused, and the prober is not told of this poll.
AtRefusal(r) == [r EXCEPT !.refused = rd.load = "bulk"]

\* IncrementalLoad: to the end of f, or to the first record that is refused.  A bad
\* record trips an assertion; the master starts the reader again.
IncrementalLoad(f, start, t) ==
    LET played[i \in start .. Len(f)] ==
            IF i = start THEN t ELSE Consume(played[i - 1], f[i])
        refused(i) == Refuses(played[i - 1], f[i])
    IN  \E end \in start .. Len(f) :
            /\ \A i \in start + 1 .. end : f[i] # Torn /\ (i < end => ~refused(i))
            /\ IF end > start /\ refused(end)
               THEN rd' = AtRefusal(Advanced(f, start, end, played[end]))
               ELSE /\ ~Complete(f, end + 1)
                    /\ \/ rd' \in AtEndOfFile(f, Advanced(f, start, end, played[end]))
                       \/ BadRecord(f, end) /\ rd' = Fresh

\* BulkLoad or IncrementalLoad.
Load ==
    /\ rd.load # "idle"
    /\ UNCHANGED <<vars, spilled>>
    /\ \E f \in {File} :
          IF rd.load = "bulk" THEN IncrementalLoad(f, 0, NoAds)
          ELSE IncrementalLoad(f, rd.next, rd.mirror)

----------------------------------------------------------------------------
ReaderInit == Init /\ spilled = 0 /\ rd = Fresh

ReaderNext ==
    \/ Schedd
    \/ \E k \in flushed .. Len(log), part \in 0 .. MaxSpilled : Spill(k, part)
    \/ Poll
    \/ PollClosed
    \/ Load

\* The poll is a timer of the reader's process.
ReaderSpec ==
    /\ ReaderInit
    /\ [][ReaderNext]_allvars
    /\ WF_allvars(Poll \/ PollClosed \/ Load)

----------------------------------------------------------------------------
(* Properties.                                                             *)

ReaderTypeOK ==
    /\ TypeOK
    /\ spilled \in 0 .. MaxSpilled
    /\ spilled > 0 => flushed < Len(log)
    /\ rd \in Reader

\* The log still is the file that the reader has loaded last.
SameFile == log # <<>> /\ log[1] = Number(rd.probedSeq)

\* Between polls the mirror is a state that the schedd has committed, with as much
\* of the next transaction as the reader has found (ProcessLogEntry ignores Begin
\* and End): no record is played twice or left out, whatever the schedd wrote or
\* renamed during a poll.
MirrorFollows ==
    rd.load = "idle" /\ rd.next > 0 /\ SameFile =>
        /\ rd.next <= Len(log)
        /\ rd.mirror = PlayAll(img[rd.next].table, img[rd.next].ops)

\* The comment of ProcessLogEntry: a transaction is completed eventually, or wiped
\* out and the reader reloads.  When the schedd serves and has nothing more to
\* write, and its log is not spoilt, the mirror becomes the table and stays so, unless
\* a bulk load stops at a record that the consumer refuses.
MirrorConverges ==
    <>[](mode = "up" /\ flushed = Len(log) /\ ~spoilt)
        => <>[](rd.mirror = table \/ rd.refused)

=============================================================================
