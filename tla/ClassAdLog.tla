----------------------------- MODULE ClassAdLog -----------------------------
(***************************************************************************)
(* The persistent store of ClassAds (ClassAdLog): a hash table in memory,  *)
(* a log of the operations on it on disk, transactions on the table, the   *)
(* rotation that replaces the log by one that states the table, and the    *)
(* recovery of the table from the log.  The job queue of the schedd is one *)
(* of these.                                                               *)
(*                                                                         *)
(* The ads have one attribute.  A file is the sequence of its records; of  *)
(* the log, flushed records have left the stdio buffer and synced ones are *)
(* on the disk.  A process that ends loses some of what is not flushed, a  *)
(* machine that does some of what is not synced, and either may leave a    *)
(* part of a record, Torn, behind what is kept.                            *)
(*                                                                         *)
(* img, missed and spoilt are history variables: img[i] is what a reader   *)
(* of the first i records of the log holds, the others tell of failures    *)
(* that the code does not repair, or not at once.                          *)
(*                                                                         *)
(* A definition that no other one uses, just before the definition it      *)
(* varies, is a faulty variant of it: it shows that a property is able to  *)
(* fail.                                                                   *)
(***************************************************************************)
EXTENDS Integers, FiniteSets, Sequences

CONSTANTS
    Key,          \* the keys of ads
    Value,        \* the values of their attribute
    MaxHistory,   \* max_historical_logs
    Faults,       \* the faults of the environment that may happen
    MaxFaults,    \* how many of them may happen
    MaxParked,    \* a bound on the transactions that wait for their turn
    MaxOps,       \* a bound on the operations of a transaction
    MaxRecords,   \* a bound on the records of a log before it is rotated
    MaxRotations  \* a bound on the rotations asked for by the schedd

\* "kill": the process ends; "power": the machine does; "write": a write to the
\* log fails; "rotate": a step of a rotation fails.
FaultKinds == {"kill", "power", "write", "rotate"}

ASSUME ClassAdLogAssumption ==
    /\ IsFiniteSet(Key)
    /\ Value \cap {"absent", "empty", "none", "deleted"} = {}
    /\ MaxHistory \in Nat /\ MaxFaults \in Nat
    /\ Faults \subseteq FaultKinds
    /\ MaxParked \in Nat /\ MaxOps \in Nat
    /\ MaxRecords \in Nat /\ MaxRotations \in Nat

VARIABLES
    mode,     \* what the process does, see Modes
    table,    \* table: the ad of each key
    active,   \* active_transaction exists
    ops,      \* the operations of active_transaction
    parked,   \* transactions taken away by getActiveTransaction
    log,      \* the records written to the log
    flushed,  \* how many of them have been flushed
    synced,   \* how many of them have been synced
    img,      \* what a reader of each prefix of the log holds
    pos,      \* how many records the recovery has read
    forced,   \* requires_successful_cleaning
    seqnum,   \* historical_sequence_number
    saved,    \* the numbers of the historical logs
    missed,   \* those that should have been removed and were not
    new,      \* what LogState has written to the .tmp file
    newImg,   \* what a reader of each prefix of it holds
    left,     \* the keys whose ads LogState has yet to write
    stale,    \* what an earlier rotation left in the .tmp file
    spoilt,   \* the log has lost a part of a commit, or got an end it should not have
    faults    \* how many faults have happened

memory == <<table, active, ops, parked>>
disk == <<log, flushed, synced, img>>
rotation == <<new, newImg, left, stale>>
history == <<saved, missed>>
vars == <<mode, memory, disk, pos, forced, seqnum, history, rotation, spoilt, faults>>

----------------------------------------------------------------------------
(* Records, and what they do to a table.                                   *)

Absent == "absent"
Empty == "empty"
Ad == Value \cup {Absent, Empty}
Table == [Key -> Ad]
NoAds == [k \in Key |-> Absent]

Op == [op : {"New", "Destroy", "Delete"}, key : Key]
          \cup [op : {"Set"}, key : Key, val : Value]
Begin == [op |-> "Begin"]
End == [op |-> "End"]
Torn == [op |-> "Torn"]
Number(n) == [op |-> "Number", num |-> n]

\* The Play methods: an operation on an ad that is not there does nothing.
Play(t, r) ==
    [t EXCEPT ![r.key] =
        IF r.op = "New" THEN Empty
        ELSE IF r.op = "Destroy" \/ @ = Absent THEN Absent
        ELSE IF r.op = "Set" THEN r.val
        ELSE Empty]

\* Commit: one operation after the other.
PlayAll(t, rs) ==
    LET played[i \in 0 .. Len(rs)] ==
            IF i = 0 THEN t ELSE Play(played[i - 1], rs[i])
    IN  played[Len(rs)]

\* A reader holds a table and, between Begin and End, a transaction; it goes no
\* further than a part of a record.
Image == [table : Table, open : BOOLEAN, ops : Seq(Op), bad : BOOLEAN]
Holding(t) == [table |-> t, open |-> FALSE, ops |-> <<>>, bad |-> FALSE]
Opened(t, rs) == [table |-> t, open |-> TRUE, ops |-> rs, bad |-> FALSE]
Broken(im) == [table |-> im.table, open |-> im.open, ops |-> im.ops, bad |-> TRUE]
Blank == Holding(NoAds)

\* What the constructor does with the next record.
Read(im, r) ==
    IF im.bad THEN im
    ELSE CASE r.op = "Begin" -> Opened(im.table, im.ops)
           [] r.op = "End" -> Holding(PlayAll(im.table, im.ops))
           [] r.op = "Number" -> im
           [] r.op = "Torn" -> Broken(im)
           [] OTHER -> IF im.open THEN Opened(im.table, Append(im.ops, r))
                       ELSE Holding(Play(im.table, r))

----------------------------------------------------------------------------
(* The log.                                                                *)

Happens(kind) ==
    /\ kind \in Faults
    /\ faults < MaxFaults
    /\ faults' = faults + 1

\* The log and its images with one more record, and with the active transaction.
LogWith(r) == Append(log, r)
ImgWith(r) ==
    [i \in 0 .. Len(log) + 1 |->
        IF i <= Len(log) THEN img[i] ELSE Read(img[Len(log)], r)]

CommitLog == log \o <<Begin>> \o ops \o <<End>>
CommitImg ==
    LET len == Len(log)
        last == img[len]
        opened(n) == IF last.bad THEN last
                     ELSE Opened(last.table, last.ops \o SubSeq(ops, 1, n))
    IN  [i \in 0 .. len + Len(ops) + 2 |->
            IF i <= len THEN img[i]
            ELSE IF i < len + Len(ops) + 2 THEN opened(i - len - 1)
            ELSE Read(opened(Len(ops)), End)]

\* The first k records of a log, and a part of the next one if torn.
Kept(l, k, torn) == SubSeq(l, 1, k) \o IF torn THEN <<Torn>> ELSE <<>>
KeptImg(im, k, torn) ==
    [i \in 0 .. IF torn THEN k + 1 ELSE k |->
        IF i <= k THEN im[i] ELSE Broken(im[k])]

\* A durable operation returns once Sync has happened.
AfterWrite(nondurable) == mode' = IF nondurable THEN "up" ELSE "syncing"

----------------------------------------------------------------------------
(* Operations.                                                             *)

Room == Len(log) < MaxRecords

\* The places of the records of these kinds about a key in the active transaction,
\* and the record at the last one of some places.
Places(k, kinds) == {i \in DOMAIN ops : ops[i].key = k /\ ops[i].op \in kinds}
Latest(places) == ops[CHOOSE i \in places : \A j \in places : j <= i]

AdExistsInTable(k) == table[k] # Absent

\* AdExistsInTableOrTransaction.
AdExists(k) ==
    LET life == Places(k, {"New", "Destroy"})
    IN  IF life = {} THEN table[k] # Absent ELSE Latest(life).op = "New"

LookupForgettingDelete(k) ==
    LET value == Places(k, {"Set"})
    IN  IF value # {} THEN Latest(value).val ELSE "none"

\* LookupInTransaction by way of ExamineTransaction: the last record about the
\* attribute counts, and the end of the ad if nothing follows that.
LookupInTransaction(k) ==
    LET life == Places(k, {"New", "Destroy"})
        value == Places(k, {"Set", "Delete"})
        destroyed == life # {} /\ Latest(life).op = "Destroy"
    IN  IF destroyed \/ (value # {} /\ Latest(value).op = "Delete") THEN "deleted"
        ELSE IF value # {} THEN Latest(value).val
        ELSE "none"

\* The same, with "deleted" taken for "none": how ClassAdCollection hands it to the
\* schedd, whose GetAttribute functions then look at the table.
GetAttribute(k) ==
    IF LookupInTransaction(k) \in Value THEN LookupInTransaction(k)
    ELSE IF table[k] \in Value THEN table[k] ELSE "none"

CreatedBy(rs) == {rs[i].key : i \in {j \in DOMAIN rs : rs[j].op = "New"}}

\* Keys are never used again by another transaction: the schedd numbers its jobs.
Allowed(r) ==
    IF r.op = "New"
    THEN ~AdExists(r.key) /\ \A rs \in parked : r.key \notin CreatedBy(rs)
    ELSE AdExists(r.key)

\* AppendLog outside of a transaction: written and, unless nondurable, synced.
AppendLog(r, nondurable) ==
    /\ mode = "up" /\ ~active /\ Room
    /\ Allowed(r)
    /\ log' = LogWith(r)
    /\ img' = ImgWith(r)
    /\ table' = Play(table, r)
    /\ AfterWrite(nondurable)
    /\ UNCHANGED <<active, ops, parked, flushed, synced, pos, forced, seqnum,
                   history, rotation, spoilt, faults>>

\* AppendLog in a transaction.
AppendToTransaction(r) ==
    /\ mode = "up" /\ active /\ Len(ops) < MaxOps
    /\ Allowed(r)
    /\ ops' = Append(ops, r)
    /\ UNCHANGED <<mode, table, active, parked, disk, pos, forced, seqnum, history,
                   rotation, spoilt, faults>>

BeginTransaction ==
    /\ mode = "up" /\ ~active
    /\ active' = TRUE
    /\ UNCHANGED <<mode, table, ops, parked, disk, pos, forced, seqnum, history,
                   rotation, spoilt, faults>>

AbortTransaction ==
    /\ mode = "up" /\ active
    /\ active' = FALSE
    /\ ops' = <<>>
    /\ UNCHANGED <<mode, table, parked, disk, pos, forced, seqnum, history,
                   rotation, spoilt, faults>>

\* CommitTransaction and CommitNondurableTransaction: an empty transaction leaves
\* no trace.
CommitTransaction(nondurable) ==
    /\ mode = "up" /\ active /\ Room
    /\ active' = FALSE
    /\ ops' = <<>>
    /\ IF ops = <<>>
       THEN UNCHANGED <<mode, table, disk>>
       ELSE /\ log' = CommitLog
            /\ img' = CommitImg
            /\ table' = PlayAll(table, ops)
            /\ AfterWrite(nondurable)
            /\ UNCHANGED <<flushed, synced>>
    /\ UNCHANGED <<parked, pos, forced, seqnum, history, rotation, spoilt, faults>>

\* A write fails in a nondurable commit.  The rest of the transaction is not
\* written, the table gets it all the same, and nobody is told.
CommitLosing(k, torn) ==
    /\ mode = "up" /\ active /\ ops # <<>> /\ Room
    /\ Happens("write")
    /\ log' = Kept(CommitLog, k, torn)
    /\ img' = KeptImg(CommitImg, k, torn)
    /\ spoilt' = TRUE
    /\ table' = PlayAll(table, ops)
    /\ active' = FALSE
    /\ ops' = <<>>
    /\ UNCHANGED <<mode, parked, flushed, synced, pos, forced, seqnum, history,
                   rotation>>

SyncBeforeFlush ==
    /\ mode = "syncing"
    /\ mode' = "up"
    /\ synced' = flushed
    /\ flushed' = Len(log)
    /\ UNCHANGED <<memory, log, img, pos, forced, seqnum, history, rotation, spoilt,
                   faults>>

\* fflush and fsync, at the end of a durable operation.
Sync ==
    /\ mode = "syncing"
    /\ mode' = "up"
    /\ flushed' = Len(log)
    /\ synced' = Len(log)
    /\ UNCHANGED <<memory, log, img, pos, forced, seqnum, history, rotation, spoilt,
                   faults>>

FlushLog ==
    /\ mode = "up" /\ flushed # Len(log)
    /\ flushed' = Len(log)
    /\ UNCHANGED <<mode, memory, log, synced, img, pos, forced, seqnum, history,
                   rotation, spoilt, faults>>

\* Another client of the schedd gets its turn: getActiveTransaction, and later
\* setActiveTransaction.
getActiveTransaction ==
    /\ mode = "up" /\ active /\ Cardinality(parked) < MaxParked
    /\ parked' = parked \cup {ops}
    /\ active' = FALSE
    /\ ops' = <<>>
    /\ UNCHANGED <<mode, table, disk, pos, forced, seqnum, history, rotation, spoilt,
                   faults>>

setActiveTransaction(rs) ==
    /\ mode = "up" /\ ~active
    /\ parked' = parked \ {rs}
    /\ active' = TRUE
    /\ ops' = rs
    /\ UNCHANGED <<mode, table, disk, pos, forced, seqnum, history, rotation, spoilt,
                   faults>>

----------------------------------------------------------------------------
(* TruncLog, on request or by the constructor when it has read the log.    *)
(* LogState writes one ad after the other to the .tmp file.                *)

\* There is no next record, or a part of one.
AtEnd == \A i \in DOMAIN log : i = pos + 1 => log[i] = Torn

\* The end of the log, or a bad record that is taken for it: also one that ends
\* within its number, whatever follows.
AtLogEnd == mode = "reading" /\ AtEnd

NeverForced == FALSE
RequiresCleaning == pos < Len(log) \/ active

IsClean == \A i \in 1 .. pos : log[i] # Begin

\* TruncLog is called here.
Rotates ==
    \/ mode = "up" /\ seqnum <= MaxRotations
    \/ AtLogEnd /\ (~IsClean \/ RequiresCleaning)

SaveKeepingOld(unlinks) ==
    /\ saved' = IF MaxHistory = 0 THEN saved ELSE saved \cup {seqnum}
    /\ UNCHANGED missed

\* SaveHistoricalLogs: the log is linked to one more name, then an old one goes; if
\* it does not, that is not a fatal error.
SaveHistoricalLogs(unlinks) ==
    LET old == {seqnum - MaxHistory}
    IN  IF MaxHistory = 0 THEN unlinks /\ UNCHANGED history
        ELSE IF unlinks
        THEN saved' = (saved \cup {seqnum}) \ old /\ missed' = missed \ old
        ELSE saved' = saved \cup {seqnum} /\ missed' = missed \cup (saved \cap old)

\* The .tmp file is opened, without O_TRUNC, and gets its first record.
StartRotation ==
    /\ \/ SaveHistoricalLogs(TRUE) /\ UNCHANGED faults
       \/ SaveHistoricalLogs(FALSE) /\ Happens("rotate")
    /\ seqnum' = seqnum + 1
    /\ new' = <<Number(seqnum + 1)>>
    /\ newImg' = [i \in 0 .. 1 |-> Blank]
    /\ left' = {k \in Key : table[k] # Absent}
    /\ UNCHANGED stale

\* CleanJobQueue.
TruncLog ==
    /\ mode = "up" /\ seqnum <= MaxRotations
    /\ mode' = "rotating"
    /\ StartRotation
    /\ UNCHANGED <<memory, disk, pos, forced, spoilt>>

\* The rotation fails before it has begun: no historical log, or no .tmp file.
NotRotated ==
    /\ Happens("rotate")
    /\ UNCHANGED history \/ \E unlinks \in BOOLEAN : SaveHistoricalLogs(unlinks)

TruncLogSkipped ==
    /\ mode = "up" /\ seqnum <= MaxRotations
    /\ NotRotated
    /\ UNCHANGED <<mode, memory, disk, pos, forced, seqnum, rotation, spoilt>>

\* LogState: one ad of the table.
LogState(k) ==
    LET create == [op |-> "New", key |-> k]
        set == [op |-> "Set", key |-> k, val |-> table[k]]
        created == Read(newImg[Len(new)], create)
    IN  /\ mode = "rotating"
        /\ new' = new \o IF table[k] = Empty THEN <<create>> ELSE <<create, set>>
        /\ newImg' = [i \in 0 .. Len(new) + IF table[k] = Empty THEN 1 ELSE 2 |->
                        IF i <= Len(new) THEN newImg[i]
                        ELSE IF i = Len(new) + 1 THEN created
                        ELSE Read(created, set)]
        /\ left' = left \ {k}
        /\ UNCHANGED <<mode, memory, disk, pos, forced, seqnum, history, stale, spoilt,
                       faults>>

\* What the .tmp file holds: LogState has written over what was there from an
\* earlier rotation, and may have cut a record that is longer than its own.
TmpFile(cut) ==
    IF cut /\ stale # <<>>
    THEN new \o <<Torn>> \o SubSeq(stale, Len(new) + 2, Len(stale))
    ELSE new \o SubSeq(stale, Len(new) + 1, Len(stale))

\* The images of the .tmp file, what was left there included.
TmpImg(cut) ==
    LET f[i \in 0 .. Len(TmpFile(cut))] ==
            IF i <= Len(new) THEN newImg[i] ELSE Read(f[i - 1], TmpFile(cut)[i])
    IN  f

NoRotation ==
    /\ new' = <<>> /\ left' = {}
    /\ newImg' = [i \in 0 .. 0 |-> Blank]

\* LogState ends with fsync; then the .tmp file becomes the log.
Rotated(cut) ==
    /\ mode = "rotating" /\ left = {}
    /\ mode' = "up"
    /\ log' = TmpFile(cut)
    /\ img' = TmpImg(cut)
    /\ flushed' = Len(log')
    /\ synced' = Len(log')
    /\ NoRotation
    /\ stale' = <<>>
    /\ spoilt' = (Len(log') > Len(new))
    /\ forced' = FALSE
    /\ UNCHANGED <<memory, pos, seqnum, history, faults>>

\* The .tmp file of a rotation that does not become the log stays where it is.
Abandoned == TmpFile(FALSE)

\* The process has ended; its transactions are gone.
Ended ==
    /\ mode' = "down"
    /\ table' = NoAds
    /\ active' = FALSE
    /\ ops' = <<>>
    /\ parked' = {}
    /\ pos' = 0
    /\ forced' = FALSE
    /\ seqnum' = 1
    /\ spoilt' = FALSE
    /\ NoRotation
    /\ stale' = IF mode = "rotating" THEN Abandoned ELSE stale

RotateFailsForgetting ==
    /\ mode = "rotating" /\ left = {} /\ ~forced
    /\ Happens("rotate")
    /\ flushed' = Len(log)
    /\ mode' = "up"
    /\ NoRotation
    /\ stale' = Abandoned
    /\ UNCHANGED <<memory, pos, forced, seqnum, log, synced, img, history, spoilt>>

\* The rename fails: the schedd goes on with the old log, unless the constructor
\* requires the new one.
RotateFails ==
    /\ mode = "rotating" /\ left = {}
    /\ Happens("rotate")
    /\ flushed' = Len(log)
    /\ IF forced
       THEN Ended
       ELSE /\ mode' = "up"
            /\ seqnum' = seqnum - 1
            /\ NoRotation
            /\ stale' = Abandoned
            /\ UNCHANGED <<memory, pos, forced, spoilt>>
    /\ UNCHANGED <<log, synced, img, history>>

----------------------------------------------------------------------------
(* Ends and restarts of the process.                                       *)

\* The end may come in SaveHistoricalLogs, between link and unlink.
EndedSaving == UNCHANGED history \/ (Rotates /\ SaveHistoricalLogs(FALSE))

\* EXCEPT, or a signal: what has been flushed is kept.
Kill(k, torn) ==
    /\ mode # "down"
    /\ Happens("kill")
    /\ k >= flushed
    /\ log' = Kept(log, k, torn)
    /\ img' = KeptImg(img, k, torn)
    /\ flushed' = Len(log')
    /\ Ended
    /\ EndedSaving
    /\ UNCHANGED synced

\* The machine goes down: what has been synced is kept.
Power(k, torn) ==
    /\ Happens("power")
    /\ k >= synced
    /\ log' = Kept(log, k, torn)
    /\ img' = KeptImg(img, k, torn)
    /\ flushed' = Len(log')
    /\ synced' = Len(log')
    /\ Ended
    /\ EndedSaving

\* The constructor opens the log.
Open ==
    /\ mode = "down"
    /\ mode' = "reading"
    /\ UNCHANGED <<memory, disk, pos, forced, seqnum, history, rotation, spoilt, faults>>

\* One record; active_transaction holds the operations of an open transaction.
ReadLogEntry ==
    /\ mode = "reading" /\ ~AtEnd
    /\ LET im == Read(IF active THEN Opened(table, ops) ELSE Holding(table),
                      log[pos + 1])
       IN  table' = im.table /\ active' = im.open /\ ops' = im.ops
    /\ seqnum' = IF log[pos + 1].op = "Number" THEN log[pos + 1].num ELSE seqnum
    /\ pos' = pos + 1
    /\ UNCHANGED <<mode, parked, disk, forced, history, rotation, spoilt, faults>>

ReadBadRecordAnywhere ==
    /\ mode = "reading" /\ AtEnd /\ pos < Len(log)
    /\ Ended
    /\ UNCHANGED <<disk, history, faults>>

\* A bad record with the end of a transaction somewhere behind it: EXCEPT.
ReadBadRecord ==
    /\ mode = "reading" /\ AtEnd
    /\ \E i \in pos + 1 .. Len(log) : log[i] = End
    /\ Ended
    /\ UNCHANGED <<disk, history, faults>>

\* A log without records gets its number.
NumberLog ==
    IF pos = 0
    THEN log' = LogWith(Number(seqnum)) /\ img' = ImgWith(Number(seqnum))
    ELSE UNCHANGED <<log, img>>

Recovered ==
    /\ NumberLog
    /\ active' = FALSE
    /\ ops' = <<>>
    /\ pos' = 0
    /\ UNCHANGED <<table, parked, flushed, synced>>

\* The constructor is done, or tries to rotate the log first.
FinishClean ==
    /\ AtLogEnd
    /\ IsClean /\ ~RequiresCleaning
    /\ Recovered
    /\ mode' = "up"
    /\ UNCHANGED <<forced, seqnum, history, rotation, spoilt, faults>>

FinishRotating ==
    /\ AtLogEnd
    /\ ~IsClean \/ RequiresCleaning
    /\ Recovered
    /\ mode' = "rotating"
    /\ forced' = RequiresCleaning
    /\ StartRotation
    /\ UNCHANGED spoilt

\* The same, but the rotation fails before it has begun.
FinishUnrotated ==
    /\ AtLogEnd
    /\ ~IsClean \/ RequiresCleaning
    /\ NotRotated
    /\ IF RequiresCleaning
       THEN Ended /\ NumberLog /\ flushed' = Len(log') /\ UNCHANGED synced
       ELSE Recovered /\ mode' = "up" /\ UNCHANGED <<forced, seqnum, rotation, spoilt>>

----------------------------------------------------------------------------
Modes == {"down", "reading", "up", "syncing", "rotating"}

Init ==
    /\ mode = "down"
    /\ table = NoAds /\ active = FALSE /\ ops = <<>> /\ parked = {}
    /\ log = <<>> /\ flushed = 0 /\ synced = 0 /\ img = [i \in 0 .. 0 |-> Blank]
    /\ pos = 0 /\ forced = FALSE /\ seqnum = 1 /\ saved = {} /\ missed = {}
    /\ new = <<>> /\ newImg = [i \in 0 .. 0 |-> Blank] /\ left = {} /\ stale = <<>>
    /\ spoilt = FALSE /\ faults = 0

Restart ==
    \/ Open
    \/ ReadLogEntry
    \/ ReadBadRecord
    \/ FinishClean
    \/ FinishRotating
    \/ FinishUnrotated

Next ==
    \/ \E r \in Op, nondurable \in BOOLEAN : AppendLog(r, nondurable)
    \/ \E r \in Op : AppendToTransaction(r)
    \/ BeginTransaction
    \/ AbortTransaction
    \/ \E nondurable \in BOOLEAN : CommitTransaction(nondurable)
    \/ \E k \in Len(log) .. Len(CommitLog) - 1, torn \in BOOLEAN : CommitLosing(k, torn)
    \/ Sync
    \/ FlushLog
    \/ getActiveTransaction
    \/ \E rs \in parked : setActiveTransaction(rs)
    \/ TruncLog
    \/ TruncLogSkipped
    \/ \E k \in left : LogState(k)
    \/ \E cut \in BOOLEAN : Rotated(cut)
    \/ RotateFails
    \/ \E k \in 0 .. Len(log), torn \in BOOLEAN :
          /\ torn => k < Len(log)
          /\ Kill(k, torn) \/ Power(k, torn)
    \/ Restart

Spec == Init /\ [][Next]_vars

\* The master restarts a daemon that ended, and a handler that has begun goes on.
Fairness ==
    /\ WF_vars(Restart)
    /\ WF_vars(Sync)
    /\ WF_vars((\E k \in left : LogState(k)) \/ \E cut \in BOOLEAN : Rotated(cut))

FairSpec == Spec /\ Fairness

----------------------------------------------------------------------------
(* Properties.                                                             *)

Record == Op \cup {Begin, End, Torn} \cup [op : {"Number"}, num : Nat]

TypeOK ==
    /\ mode \in Modes
    /\ table \in Table
    /\ active \in BOOLEAN
    /\ ops \in Seq(Op)
    /\ parked \subseteq Seq(Op)
    /\ log \in Seq(Record)
    /\ synced \in 0 .. Len(log)
    /\ flushed \in synced .. Len(log)
    /\ img \in [0 .. Len(log) -> Image]
    /\ pos \in 0 .. Len(log)
    /\ forced \in BOOLEAN
    /\ seqnum \in Nat
    /\ saved \subseteq Nat
    /\ missed \subseteq saved
    /\ new \in Seq(Record)
    /\ newImg \in [0 .. Len(new) -> Image]
    /\ left \subseteq Key
    /\ stale \in Seq(Record)
    /\ spoilt \in BOOLEAN
    /\ faults \in 0 .. MaxFaults

\* The constructor is done, but for a rotation that it does not insist on.
Serving == mode \in {"up", "syncing", "rotating"} /\ ~forced

\* Whenever the schedd serves, a reader of all it has written ends up with the
\* table in memory and no open transaction (AppendLog, Commit, TruncLog and the
\* constructor): nothing is ever appended behind a torn or open end.  Two things
\* spoil it until the next rotation or start of the schedd: a nondurable commit whose
\* writes fail (write_with_status), and a rotation over a longer .tmp file.
MemoryIsLogged ==
    Serving /\ ~spoilt => img[Len(log)] = Holding(table)

\* The comment of SetMaxHistoricalLogs: old logs are saved up to some limit, but for
\* those whose one unlink in SaveHistoricalLogs failed or was not reached.
HistoryBounded == Cardinality(saved \ missed) <= MaxHistory

\* The number of a log in use is the one a reader finds in it, and no saved log
\* has a higher one: a rotation never writes over the history.
NumberIsCurrent ==
    /\ mode \in {"up", "syncing"} => log[1] = Number(seqnum)
    /\ Serving => \A n \in saved : n <= seqnum

\* The tables that the end of the machine may leave.
Survivors == {img[k].table : k \in synced .. Len(log)}

\* Transactions are atomic (Commit, the constructor), a durable one is on the disk
\* when its commit returns, and an end of the process or of the machine loses the
\* nondurable ones from some point on, none else; rotations change nothing.  While
\* the log is spoilt nothing is promised, and from the next start on all of it again.
Store == INSTANCE AdStore WITH
            current <- img[Len(log)].table,
            survivors <- Survivors,
            pending <- mode = "syncing",
            serving <- Serving,
            lapse <- spoilt

ImplementsStore == Store!Spec

Committed == PlayAll(table, ops)

\* AdExistsInTableOrTransaction answers for what a commit would leave, also after
\* other transactions have been committed while this one was parked.
ExistsAsCommitted ==
    mode = "up" => \A k \in Key : AdExists(k) <=> Committed[k] # Absent

\* The ad lives throughout the part of the transaction that is about it.
LivesThroughout(k) ==
    /\ AdExists(k)
    /\ \A i, j \in DOMAIN ops : i < j /\ ops[i].key = k /\ ops[j].key = k
           => ops[j].op # "New"

\* LookupInTransaction before the table gives the value that a commit would leave,
\* for an ad that lives throughout, also when other transactions have been
\* committed while this one was parked.
LookupAsCommitted ==
    mode = "up" =>
        \A k \in Key :
            LivesThroughout(k) =>
                CASE LookupInTransaction(k) = "deleted" -> Committed[k] = Empty
                  [] LookupInTransaction(k) = "none" ->
                         Committed[k] = IF table[k] = Absent THEN Empty ELSE table[k]
                  [] OTHER -> Committed[k] = LookupInTransaction(k)

\* The comment of ClassAdLog: with LookupInTransaction first, a client sees its
\* own transaction.  It does not hold for an attribute that the transaction has
\* deleted.
StrictSemantics ==
    mode = "up" =>
        \A k \in Key :
            Committed[k] # Absent =>
                GetAttribute(k) = IF Committed[k] = Empty THEN "none" ELSE Committed[k]

\* The constructor always ends, the rotations it asks for included, unless a log has
\* been spoilt: a part of a record before the end of a transaction is refused for good.
AlwaysServesAgain == []~spoilt => (mode = "down" ~> mode = "up")

=============================================================================
