------------------------ MODULE ClassAdLogRefinement ------------------------
(***************************************************************************)
(* The log states the table, and the ClassAdLog implements AdStore, for    *)
(* every set of keys and values, every length of the log and all faults.   *)
(* What fails unnoticed spoils a log, which the statements name.           *)
(*                                                                         *)
(* MemoryIsLogged speaks of the end of the log only.  What is inductive,   *)
(* given that the images are a chain, is that the constructor holds the    *)
(* image of the records it has read; that the .tmp file states the ads     *)
(* that LogState has written; and that a rotation states what the log held.*)
(***************************************************************************)
EXTENDS ClassAdLogProofs

\* Most leaves are first-order; the ones with arithmetic, or much to rewrite, name SMT.
USE Zenon

\* What the constructor holds while it reads.
Recovering == IF active THEN Opened(table, ops) ELSE Holding(table)

\* The table as of the last record.
Current == img[Len(log)].table

\* The inductive invariant.
LInv ==
    /\ ~active => ops = <<>>
    /\ mode = "down" => ~active /\ table = NoAds
    /\ mode = "reading" => img[pos] = Recovering
    /\ forced => mode = "rotating"
    /\ MemoryIsLogged
    /\ mode = "rotating" => /\ newImg[Len(new)] = Holding(Stated)
                            /\ ~spoilt => Current = table

\* A .tmp file that is no longer than what LogState has written is just that.
LEMMA TmpIsNew ==
    ASSUME TInv, NEW cut \in BOOLEAN, ~(Len(TmpFile(cut)) > Len(new))
    PROVE  /\ Len(TmpFile(cut)) = Len(new)
           /\ TmpImg(cut)[Len(TmpFile(cut))] = newImg[Len(new)]
<1>1. new \in Seq(Record) /\ TmpFile(cut) \in Seq(Record) /\ Len(TmpFile(cut)) >= Len(new)
  BY TmpTypes, Inductive DEF TInv, TypeOK
<1>2. /\ Len(new) \in Nat /\ Len(TmpFile(cut)) = Len(new)
      /\ Len(new) \in 0 .. Len(TmpFile(cut)) /\ Len(new) <= Len(new)
  BY SMTT(30), <1>1
<1>3. TmpImg(cut)[Len(new)] = newImg[Len(new)]
  BY <1>2, TmpTypes, Inductive
<1> QED BY <1>2, <1>3

\* A transaction more: a reader has the old table up to its last record, and with
\* that one the table that the commit leaves in memory (Transaction::Commit).
LEMMA CommitTables ==
    ASSUME TypeOK, img[Len(log)] = Holding(table)
    PROVE  /\ \A i \in Len(log) + 1 .. Len(log) + Len(ops) + 1 :
                 CommitImg[i].table = table
           /\ CommitImg[Len(log) + Len(ops) + 2] = Holding(PlayAll(table, ops))
<1> DEFINE len == Len(log)
           n == Len(ops)
           opened(i) == Opened(table, SubSeq(ops, 1, i))
<1>1. log \in Seq(Record) /\ ops \in Seq(Op) /\ len \in Nat /\ n \in Nat
      /\ table \in Table
  BY SMTT(30) DEF TypeOK
<1>2. \A i \in 0 .. n : <<>> \o SubSeq(ops, 1, i) = SubSeq(ops, 1, i)
  BY SMTT(30), <1>1
<1>3. CommitImg = [i \in 0 .. len + n + 2 |->
                     IF i <= len THEN img[i]
                     ELSE IF i < len + n + 2
                          THEN Opened(table, <<>> \o SubSeq(ops, 1, i - len - 1))
                     ELSE Read(Opened(table, <<>> \o SubSeq(ops, 1, n)), End)]
  <2>1. /\ img[len].bad = FALSE /\ img[len].table = table /\ img[len].ops = <<>>
    BY ZenonT(60), HoldingFields
  <2> QED BY <2>1 DEF CommitImg
<1>4. /\ \A i \in 0 .. n : CommitImg[len + 1 + i] = opened(i)
      /\ CommitImg[len + n + 2] = Read(opened(n), End)
  BY SMTT(30), <1>1, <1>2, <1>3
<1>5. SubSeq(ops, 1, n) = ops
  BY SMTT(30), <1>1
<1>6. CommitImg[len + n + 2] = Holding(PlayAll(table, ops))
  BY <1>1, <1>4, <1>5, ReadOpened
<1>7. ASSUME NEW i \in len + 1 .. len + n + 1 PROVE CommitImg[i].table = table
  <2>1. i - len - 1 \in 0 .. n /\ i = len + 1 + (i - len - 1)
    BY SMTT(30), <1>1
  <2>2. CommitImg[i] = opened(i - len - 1)
    BY <1>4, <2>1
  <2> QED BY SMTT(30), <2>2 DEF Opened
<1> QED BY <1>6, <1>7

\* Nothing behind a torn record is read.
LEMMA BadStays ==
    ASSUME NEW l \in Seq(Record), NEW im, Chain(l, im),
           NEW i \in 0 .. Len(l), im[i].bad
    PROVE  im[Len(l)] = im[i]
<1> DEFINE Same == {j \in Nat : j >= i /\ j <= Len(l) => im[j] = im[i]}
<1>1. Len(l) \in Nat /\ i \in Nat /\ Len(l) >= i
  BY SMTT(30)
<1>2. 0 \in Same
  BY SMTT(30), <1>1
<1>3. ASSUME NEW j \in Nat, j \in Same PROVE j + 1 \in Same
  <2> SUFFICES ASSUME j + 1 >= i, j + 1 <= Len(l) PROVE im[j + 1] = im[i]
    BY SMTT(30)
  <2>1. CASE j + 1 = i
    BY <2>1
  <2>2. CASE j + 1 # i
    <3>1. j >= i /\ j <= Len(l) /\ j + 1 \in 1 .. Len(l) /\ (j + 1) - 1 = j
      BY SMTT(30), <1>1, <2>2
    <3>2. im[j] = im[i]
      BY <1>3, <3>1
    <3>3. im[j + 1] = Read(im[j], l[j + 1])
      BY <3>1 DEF Chain
    <3> QED BY <3>2, <3>3, ReadBad
  <2> QED BY <2>1, <2>2
<1>4. Nat \subseteq Same
  <2> HIDE DEF Same
  <2> QED BY <1>2, <1>3, NatInductionOnSet
<1>5. Len(l) \in Same /\ Len(l) <= Len(l)
  BY SMTT(30), <1>1, <1>4
<1> QED BY <1>1, <1>5

\* There is no log before the first start.
LEMMA LInvInit ==
    ASSUME Init
    PROVE  LInv
BY DEF Init, LInv, MemoryIsLogged, Serving

\* The end of the process, whatever it leaves of the log.
LEMMA EndedLInv ==
    ASSUME Ended
    PROVE  LInv'
<1>1. mode' = "down" /\ table' = NoAds /\ ~active' /\ ops' = <<>> /\ ~forced'
  BY DEF Ended
<1> QED BY <1>1 DEF LInv, MemoryIsLogged, Serving

\* A reader at the end of a log that needs no cleaning, and what NumberLog adds.
LEMMA CleanEnd ==
    ASSUME TInv, LInv, mode = "reading", ~RequiresCleaning
    PROVE  pos = Len(log) /\ ~active /\ img[Len(log)] = Holding(table)
<1>1. pos \in 0 .. Len(log) /\ Len(log) \in Nat
  BY LogFacts
<1>2. ~active /\ pos = Len(log)
  BY SMTT(30), <1>1 DEF RequiresCleaning
<1> QED BY <1>2 DEF LInv, Recovering

\* The number that the constructor writes to an empty log changes no table.
LEMMA NumberLogTables ==
    ASSUME TInv, ChainInv, NumberLog
    PROVE  /\ img'[Len(log')] = img[Len(log)]
           /\ Len(log') \in {Len(log), Len(log) + 1}
           /\ \A i \in 0 .. Len(log) : img'[i] = img[i]
<1>1. TypeOK /\ Chain(log, img) /\ Len(log) \in Nat
  BY LogFacts DEF ChainInv
<1>2. CASE pos = 0
  <2>1. log' = LogWith(Number(seqnum)) /\ img' = ImgWith(Number(seqnum))
    BY <1>2 DEF NumberLog
  <2>2. /\ Len(log') = Len(log) + 1
        /\ img'[Len(log')] = Read(img[Len(log)], Number(seqnum))
    BY <1>1, <2>1, ChainWith
  <2>3. \A i \in 0 .. Len(log) : img'[i] = img[i]
    BY SMTT(30), <1>1, <2>1 DEF ImgWith
  <2>4. Read(img[Len(log)], Number(seqnum)) = img[Len(log)]
    BY DEF Read, Number
  <2> QED BY <2>2, <2>3, <2>4
<1>3. CASE pos # 0
  BY <1>3 DEF NumberLog
<1> QED BY <1>2, <1>3

\* At the end of the log, or where it is torn, the constructor has the table that
\* a reader of all of the log has.
LEMMA EndTable ==
    ASSUME TInv, ChainInv, LInv, AtLogEnd
    PROVE  Current = table
<1>1. /\ log \in Seq(Record) /\ img \in [0 .. Len(log) -> Image]
      /\ pos \in 0 .. Len(log) /\ Len(log) \in Nat
      /\ Chain(log, img) /\ img[pos] = Recovering
  BY LogFacts DEF LInv, ChainInv, AtLogEnd
<1>2. Recovering.table = table
  <2>1. Opened(table, ops).table = table /\ Holding(table).table = table
    BY DEF Opened, Holding
  <2>2. CASE active
    BY <2>1, <2>2, Zenon DEF Recovering
  <2>3. CASE ~active
    BY <2>1, <2>3, Zenon DEF Recovering
  <2> QED BY <2>2, <2>3
<1>3. CASE pos = Len(log)
  BY <1>1, <1>2, <1>3 DEF Current
<1>4. CASE pos < Len(log)
  <2>1. pos + 1 \in 1 .. Len(log) /\ pos + 1 \in 0 .. Len(log) /\ (pos + 1) - 1 = pos
    BY SMTT(30), <1>1, <1>4
  <2>2. log[pos + 1] = Torn
    BY SMTT(30), <1>1, <2>1 DEF AtLogEnd, AtEnd
  <2>3. img[pos + 1] = Read(img[pos], Torn)
    BY <1>1, <2>1, <2>2 DEF Chain
  <2>4. img[pos + 1] = Broken(Recovering)
    BY <1>1, <2>3, ReadTorn
  <2>5. img[pos + 1].bad /\ img[pos + 1].table = table
    BY SMTT(30), <1>2, <2>4 DEF Broken
  <2>6. img[Len(log)] = img[pos + 1]
    BY <1>1, <2>1, <2>5, BadStays
  <2> QED BY <2>5, <2>6 DEF Current
<1> QED BY SMTT(30), <1>1, <1>3, <1>4

\* LogState writes an ad so that a reader gets it back.
LEMMA LogStateChain ==
    ASSUME TInv, ChainInv, LInv, NEW k \in left, LogState(k)
    PROVE  newImg'[Len(new')] = Holding(Stated')
<1> DEFINE create == [op |-> "New", key |-> k]
           set == [op |-> "Set", key |-> k, val |-> table[k]]
           created == Read(newImg[Len(new)], create)
<1>1. /\ k \in Key /\ table \in Table /\ table[k] \in Ad /\ table[k] # Absent
      /\ left' = left \ {k} /\ table' = table
      /\ Chain(new, newImg) /\ newImg[Len(new)] = Holding(Stated)
  <2>1. left \subseteq Key /\ table \in Table
    BY DEF TInv, TypeOK
  <2>2. mode = "rotating" /\ left' = left \ {k} /\ table' = table
    BY DEF LogState, memory
  <2>3. /\ table[k] # Absent
        /\ Chain(new, newImg) /\ newImg[Len(new)] = Holding(Stated)
    BY <2>2 DEF TInv, ChainInv, LInv
  <2> QED BY <2>1, <2>2, <2>3 DEF Table
<1>2. create \in Op /\ (table[k] # Empty => set \in Op)
  BY <1>1 DEF Op, Ad
<1>3. Stated \in Table
  BY <1>1 DEF Stated, Table, Ad
<1>4. created = Holding(Play(Stated, create)) /\ Play(Stated, create) \in Table
  BY ZenonT(60), <1>1, <1>2, <1>3, ReadHolding, PlayType
<1>5. Play(Stated, create) = [Stated EXCEPT ![k] = Empty]
  BY <1>1 DEF Play
<1>6. /\ Chain(new', newImg')
      /\ newImg'[Len(new')] = IF table[k] = Empty THEN created ELSE Read(created, set)
  BY ZenonT(60), <1>1, LogStateLinks
<1>7. CASE table[k] = Empty
  <2>1. Stated' = [Stated EXCEPT ![k] = Empty]
    BY <1>1, <1>7 DEF Stated
  <2> QED BY ZenonT(60), <1>4, <1>5, <1>6, <1>7, <2>1
<1>8. CASE table[k] # Empty
  <2>1. Read(created, set) = Holding(Play(Play(Stated, create), set))
    <3> HIDE DEF create, set, created
    <3> QED BY <1>2, <1>4, <1>8, ReadHolding
  <2>2. Play(Play(Stated, create), set) = [Stated EXCEPT ![k] = table[k]]
    BY ZenonT(60), <1>1, <1>3, <1>5 DEF Play, Table, Empty, Absent
  <2>3. Stated' = [Stated EXCEPT ![k] = table[k]]
    BY <1>1 DEF Stated
  <2> QED BY ZenonT(60), <1>6, <1>8, <2>1, <2>2, <2>3
<1> QED BY <1>7, <1>8

\* Every action keeps LInv.
LEMMA LInvStep ==
    ASSUME TInv, TInv', ChainInv, LInv, [Next]_vars
    PROVE  LInv'
<1>0. /\ TypeOK /\ table \in Table /\ ops \in Seq(Op) /\ Chain(log, img)
      /\ mode \in {"up", "syncing"} => ~forced
      /\ mode \in {"up", "syncing"} /\ ~spoilt => img[Len(log)] = Holding(table)
  BY LogFacts DEF ChainInv, LInv, MemoryIsLogged, Serving
<1>1. ASSUME NEW r \in Op, NEW nondurable \in BOOLEAN, AppendLog(r, nondurable)
      PROVE  LInv'
  <2>1. /\ mode = "up" /\ ~active /\ log' = LogWith(r) /\ img' = ImgWith(r)
        /\ table' = Play(table, r) /\ mode' \in {"up", "syncing"}
        /\ UNCHANGED <<active, ops, forced, spoilt>>
    BY <1>1 DEF AppendLog, AfterWrite
  <2>2. img'[Len(log')] = Read(img[Len(log)], r)
    BY <1>0, <2>1, ChainWith
  <2>3. ~spoilt' => img'[Len(log')] = Holding(table')
    BY <1>0, <2>1, <2>2, ReadHolding
  <2> QED BY <2>1, <2>2, <2>3 DEF LInv, MemoryIsLogged
<1>2. ASSUME NEW r \in Op, AppendToTransaction(r) PROVE LInv'
  BY <1>2 DEF AppendToTransaction, LInv, MemoryIsLogged, Serving, disk
<1>3. CASE BeginTransaction
  BY <1>3 DEF BeginTransaction, LInv, MemoryIsLogged, Serving, disk
<1>4. CASE AbortTransaction
  BY <1>4 DEF AbortTransaction, LInv, MemoryIsLogged, Serving, disk
<1>5. ASSUME NEW nondurable \in BOOLEAN, CommitTransaction(nondurable) PROVE LInv'
  <2>1. /\ mode = "up" /\ ~active' /\ ops' = <<>> /\ UNCHANGED forced
    BY <1>5 DEF CommitTransaction
  <2>2. CASE ops = <<>>
    <3>1. UNCHANGED <<mode, table, log, img, spoilt>>
      BY <1>5, <2>2 DEF CommitTransaction, disk
    <3> QED BY <1>0, <2>1, <3>1 DEF LInv, MemoryIsLogged
  <2>3. CASE ops # <<>>
    <3>1. /\ log' = CommitLog /\ img' = CommitImg /\ table' = PlayAll(table, ops)
          /\ mode' \in {"up", "syncing"} /\ UNCHANGED spoilt
      BY <1>5, <2>3 DEF CommitTransaction, AfterWrite
    <3>2. Len(CommitLog) = Len(log) + Len(ops) + 2
      BY <1>0, CommitLinks
    <3>3. ~spoilt' => img'[Len(log')] = Holding(table')
      BY <1>0, <2>1, <3>1, <3>2, CommitTables
    <3> QED BY <1>0, <2>1, <3>1, <3>3 DEF LInv, MemoryIsLogged
  <2> QED BY <2>2, <2>3
<1>6. ASSUME NEW k \in Len(log) .. Len(CommitLog) - 1, NEW torn \in BOOLEAN,
             CommitLosing(k, torn)
      PROVE  LInv'
  <2>1. /\ mode = "up" /\ mode' = "up" /\ ~active' /\ ops' = <<>> /\ spoilt'
        /\ UNCHANGED forced
    BY <1>6 DEF CommitLosing
  <2> QED BY <1>0, <2>1 DEF LInv, MemoryIsLogged
<1>7. CASE Sync
  BY <1>0, <1>7 DEF Sync, LInv, MemoryIsLogged, memory
<1>8. CASE FlushLog
  BY <1>8 DEF FlushLog, LInv, MemoryIsLogged, Serving, memory
<1>9. CASE getActiveTransaction
  BY <1>9 DEF getActiveTransaction, LInv, MemoryIsLogged, Serving, disk
<1>10. ASSUME NEW rs \in parked, setActiveTransaction(rs) PROVE LInv'
  BY <1>10 DEF setActiveTransaction, LInv, MemoryIsLogged, Serving, disk
<1>11. CASE TruncLog
  <2>1. /\ mode = "up" /\ mode' = "rotating" /\ StartRotation
        /\ UNCHANGED <<log, img, table, active, ops, forced, spoilt>>
    BY <1>11 DEF TruncLog, memory, disk
  <2>2. newImg'[Len(new')] = Holding(Stated')
    BY <2>1, StartChain
  <2>3. ~spoilt' => Current' = table'
    BY <1>0, <2>1, HoldingFields DEF Current
  <2> QED BY <1>0, <2>1, <2>2, <2>3 DEF LInv, MemoryIsLogged
<1>12. CASE TruncLogSkipped
  BY <1>12 DEF TruncLogSkipped, LInv, MemoryIsLogged, Serving, memory, disk
<1>13. ASSUME NEW k \in left, LogState(k) PROVE LInv'
  <2>1. /\ mode = "rotating"
        /\ UNCHANGED <<mode, log, img, table, active, ops, forced, spoilt>>
    BY <1>13 DEF LogState, memory, disk
  <2>2. newImg'[Len(new')] = Holding(Stated')
    BY <1>13, LogStateChain
  <2> QED BY <2>1, <2>2 DEF LInv, MemoryIsLogged, Serving, Current
<1>14. ASSUME NEW cut \in BOOLEAN, Rotated(cut) PROVE LInv'
  <2>1. /\ mode = "rotating" /\ left = {} /\ mode' = "up" /\ ~forced'
        /\ log' = TmpFile(cut) /\ img' = TmpImg(cut)
        /\ spoilt' = (Len(log') > Len(new)) /\ UNCHANGED <<table, active, ops>>
    BY <1>14 DEF Rotated, memory
  <2>2. ~spoilt' => img'[Len(log')] = newImg[Len(new)]
    BY <2>1, TmpIsNew
  <2>3. Stated = table
    BY <1>0, <2>1 DEF Stated, Table
  <2>4. ~spoilt' => img'[Len(log')] = Holding(table')
    BY <2>1, <2>2, <2>3 DEF LInv
  <2> QED BY <2>1, <2>4 DEF LInv, MemoryIsLogged
<1>15. CASE RotateFails
  <2>1. mode = "rotating" /\ UNCHANGED <<log, img>>
    BY <1>15 DEF RotateFails
  <2>2. CASE forced
    <3>1. Ended
      BY <1>15, <2>2 DEF RotateFails
    <3> QED BY <3>1, EndedLInv
  <2>3. CASE ~forced
    <3>1. mode' = "up" /\ UNCHANGED <<table, active, ops, forced, spoilt>>
      BY <1>15, <2>3 DEF RotateFails, memory
    <3> QED BY <2>1, <2>3, <3>1 DEF LInv, MemoryIsLogged, Serving
  <2> QED BY <2>2, <2>3
<1>16. ASSUME NEW k \in 0 .. Len(log), NEW torn \in BOOLEAN,
              torn => k < Len(log), Kill(k, torn) \/ Power(k, torn)
       PROVE  LInv'
  <2>1. Ended
    BY <1>16 DEF Kill, Power
  <2> QED BY <2>1, EndedLInv
<1>17. CASE Open
  <2>1. /\ mode = "down" /\ mode' = "reading"
        /\ UNCHANGED <<log, img, table, active, ops, pos, forced>>
    BY <1>17 DEF Open, memory, disk
  <2>2. img[0] = Blank /\ pos = 0 /\ ~active /\ table = NoAds /\ ops = <<>>
    BY <1>0, <2>1 DEF Chain, TInv, LInv
  <2>3. img'[pos'] = Recovering'
    BY <2>1, <2>2 DEF Recovering, Blank
  <2> QED BY <2>1, <2>3 DEF LInv, MemoryIsLogged, Serving
<1>18. CASE ReadLogEntry
  <2> DEFINE R == Read(Recovering, log[pos + 1])
  <2>1. /\ mode = "reading" /\ mode' = "reading" /\ pos' = pos + 1
        /\ table' = R.table /\ active' = R.open /\ ops' = R.ops
        /\ UNCHANGED <<log, img, forced>>
    BY ZenonT(60), <1>18 DEF ReadLogEntry, Recovering, disk
  <2>2. pos + 1 \in DOMAIN log /\ log[pos + 1] # Torn
    BY ZenonT(60), <1>18 DEF ReadLogEntry, AtEnd
  <2>3. log[pos + 1] \in Record /\ pos + 1 \in 1 .. Len(log)
    BY SMTT(30), <1>0, <2>2 DEF TypeOK
  <2>4. img[pos + 1] = R
    <3>1. img[pos] = Recovering /\ pos \in 0 .. Len(log) /\ (pos + 1) - 1 = pos
      BY SMTT(30), <2>1, LogFacts DEF LInv
    <3> QED BY <1>0, <2>3, <3>1 DEF Chain
  <2>5. \/ \E t, rs : R = Opened(t, rs)
        \/ \E t : R = Holding(t)
    <3>1. Recovering.bad = FALSE
      <4>1. Opened(table, ops).bad = FALSE /\ Holding(table).bad = FALSE
        BY DEF Holding, Opened
      <4>2. CASE active
        BY <4>1, <4>2, Zenon DEF Recovering
      <4>3. CASE ~active
        BY <4>1, <4>3, Zenon DEF Recovering
      <4> QED BY <4>2, <4>3
    <3>2. CASE log[pos + 1] \in Op
      <4>1. Recovering \in Image
        BY <1>0, ImageTypes DEF Recovering
      <4>2. R = IF Recovering.open THEN Opened(Recovering.table, Append(Recovering.ops, log[pos + 1]))
                ELSE Holding(Play(Recovering.table, log[pos + 1]))
        BY <3>1, <3>2, <4>1, ReadOp
      <4> HIDE DEF R
      <4> QED BY <4>2, Zenon
    <3>3. CASE log[pos + 1].op = "Begin"
      BY <3>1, <3>3, Zenon DEF Read
    <3>4. CASE log[pos + 1].op = "End"
      BY <3>1, <3>4, Zenon DEF Read
    <3>5. CASE log[pos + 1].op = "Number"
      <4>1. R = Recovering
        BY <3>1, <3>5, Zenon DEF Read
      <4> HIDE DEF R
      <4> QED BY <4>1, Zenon DEF Recovering
    <3> QED BY ZenonT(60), <2>2, <2>3, <3>2, <3>3, <3>4, <3>5, RecordKinds
  <2> HIDE DEF R
  <2>6. Recovering' = R /\ (~active' => ops' = <<>>)
    <3>1. Recovering' = IF R.open THEN Opened(R.table, R.ops) ELSE Holding(R.table)
      BY <2>1 DEF Recovering
    <3>2. ASSUME NEW t, NEW rs, R = Opened(t, rs)
          PROVE  Recovering' = R /\ (~active' => ops' = <<>>)
      <4>1. R.table = t /\ R.ops = rs /\ R.open = TRUE
        BY <3>2 DEF Opened
      <4> QED BY <2>1, <3>1, <3>2, <4>1
    <3>3. ASSUME NEW t, R = Holding(t)
          PROVE  Recovering' = R /\ (~active' => ops' = <<>>)
      <4>1. R.table = t /\ R.ops = <<>> /\ R.open = FALSE
        BY <3>3 DEF Holding
      <4> QED BY <2>1, <3>1, <3>3, <4>1
    <3> QED BY <2>5, <3>2, <3>3
  <2>7. img'[pos'] = Recovering'
    BY <1>0, <2>1, <2>4, <2>6
  <2> QED BY ZenonT(60), <2>1, <2>6, <2>7 DEF LInv, MemoryIsLogged, Serving
<1>19. CASE ReadBadRecord
  <2>1. Ended
    BY <1>19 DEF ReadBadRecord
  <2> QED BY <2>1, EndedLInv
<1>20. CASE FinishClean
  <2>1. /\ mode = "reading" /\ ~RequiresCleaning /\ NumberLog /\ mode' = "up"
        /\ ~active' /\ ops' = <<>> /\ UNCHANGED <<table, forced>>
    BY <1>20 DEF FinishClean, AtLogEnd, Recovered
  <2>2. img'[Len(log')] = Holding(table')
    BY <2>1, CleanEnd, NumberLogTables
  <2> QED BY <2>1, <2>2 DEF LInv, MemoryIsLogged
<1>21. CASE FinishRotating
  <2>1. /\ AtLogEnd /\ mode = "reading" /\ NumberLog /\ mode' = "rotating"
        /\ StartRotation /\ ~active' /\ ops' = <<>> /\ UNCHANGED table
        /\ forced' = RequiresCleaning
    BY <1>21 DEF FinishRotating, AtLogEnd, Recovered
  <2>2. newImg'[Len(new')] = Holding(Stated')
    BY <2>1, StartChain
  <2>3. Current' = table'
    BY <2>1, EndTable, NumberLogTables DEF Current
  <2>4. ~forced' => img'[Len(log')] = Holding(table')
    BY <2>1, CleanEnd, NumberLogTables
  <2> QED BY <2>1, <2>2, <2>3, <2>4 DEF LInv, MemoryIsLogged, Serving
<1>22. CASE FinishUnrotated
  <2>1. mode = "reading" /\ NumberLog
    BY <1>22 DEF FinishUnrotated, AtLogEnd, Recovered
  <2>2. CASE RequiresCleaning
    <3>1. Ended
      BY <1>22, <2>2 DEF FinishUnrotated
    <3> QED BY <3>1, EndedLInv
  <2>3. CASE ~RequiresCleaning
    <3>1. mode' = "up" /\ ~active' /\ ops' = <<>> /\ UNCHANGED <<table, forced>>
      BY <1>22, <2>3 DEF FinishUnrotated, Recovered
    <3>2. img'[Len(log')] = Holding(table')
      BY <2>1, <2>3, <3>1, CleanEnd, NumberLogTables
    <3> QED BY <2>1, <3>1, <3>2 DEF LInv, MemoryIsLogged
  <2> QED BY <2>2, <2>3
<1>23. CASE UNCHANGED vars
  BY <1>23 DEF LInv, MemoryIsLogged, Serving, Recovering, Stated, Current, vars, memory, disk,
     rotation
<1> QED
  BY SMTT(30), <1>1, <1>2, <1>3, <1>4, <1>5, <1>6, <1>7, <1>8, <1>9, <1>10, <1>11, <1>12,
     <1>13, <1>14, <1>15, <1>16, <1>17, <1>18, <1>19, <1>20, <1>21, <1>22, <1>23
  DEF Next, Restart

\* LInv is an invariant.
LEMMA LInvAlways == Spec => []LInv
<1>1. TInv /\ TInv' /\ ChainInv /\ LInv /\ [Next]_vars => LInv'
  BY LInvStep
<1> QED BY <1>1, LInvInit, TInvAlways, ChainAlways, PTL DEF Spec

\* Whenever the store serves, its log reads back as the table in memory, with no
\* transaction left open, whatever fails and wherever the process or the machine
\* ends, but for a log that has been spoilt (AppendLog, Commit, TruncLog and the
\* constructor).
THEOREM LogStatesTable == Spec => []MemoryIsLogged
<1>1. LInv => MemoryIsLogged
  BY DEF LInv
<1> QED BY <1>1, LInvAlways, PTL

----------------------------------------------------------------------------
(* The refinement: steps of AdStore.                                       *)

\* A step that changes nothing that a client could tell.
LEMMA StoreStutters ==
    ASSUME Current' = Current, Survivors' = Survivors,
           mode' = "syncing" <=> mode = "syncing", Serving' <=> Serving,
           spoilt' = spoilt
    PROVE  UNCHANGED Store!storeVars
BY DEF Store!storeVars, Current, Serving

\* A change of the table.
LEMMA StoreChanges ==
    ASSUME NEW t \in Table, Serving, Serving', mode # "syncing",
           Current' = t, Survivors' = Survivors \cup {t}
    PROVE  Store!Next
<1>1. Store!Change(t)
  BY DEF Store!Change, Current, Serving
<1> QED BY <1>1 DEF Store!Next

\* All changes have reached the disk.
LEMMA StoreSettles ==
    ASSUME Survivors' = {Current}, mode' # "syncing", Serving', Current' = Current
    PROVE  Store!Next
<1>1. Store!Settle
  BY DEF Store!Settle, Current, Serving
<1> QED BY <1>1 DEF Store!Next

\* The end of the process or of the machine.
LEMMA StoreFails ==
    ASSUME NEW t \in Table, t \in Survivors, Current' = t,
           Survivors' \subseteq Survivors, t \in Survivors',
           mode' # "syncing", ~Serving'
    PROVE  Store!Next
<1>1. Store!Fail(t)
  BY DEF Store!Fail, Current, Serving
<1> QED BY <1>1 DEF Store!Next

\* The constructor is done.
LEMMA StoreRecovers ==
    ASSUME ~Serving, Serving', Current' = Current, Survivors' = Survivors,
           mode # "syncing", mode' # "syncing"
    PROVE  Store!Next
<1>1. Store!Recover
  BY DEF Store!Recover, Current, Serving
<1> QED BY <1>1 DEF Store!Next

----------------------------------------------------------------------------
(* What survives.                                                          *)

\* Records behind which a reader holds t, or what it held before them.
LEMMA SurvivorsGrow ==
    ASSUME TInv, TInv', NEW t,
           synced' = synced, Len(log') >= Len(log),
           \A i \in 0 .. Len(log) : img'[i] = img[i],
           \A i \in Len(log) + 1 .. Len(log') : img'[i].table \in {Current, t},
           img'[Len(log')].table = t
    PROVE  Survivors' = Survivors \cup {t}
<1>1. /\ Len(log) \in Nat /\ Len(log') \in Nat /\ synced \in 0 .. Len(log)
      /\ Survivors' = {img'[k].table : k \in synced .. Len(log')}
      /\ Survivors = {img[k].table : k \in synced .. Len(log)}
  BY LogFacts, LogFactsAfter DEF Survivors
<1>2. Current \in Survivors
  BY SMTT(30), <1>1 DEF Current
<1>3. ASSUME NEW x \in Survivors' PROVE x \in Survivors \cup {t}
  <2>1. PICK k \in synced .. Len(log') : x = img'[k].table
    BY <1>1
  <2>2. CASE k <= Len(log)
    <3>1. k \in 0 .. Len(log) /\ k \in synced .. Len(log)
      BY SMTT(30), <1>1, <2>2
    <3>2. img'[k] = img[k]
      BY <3>1
    <3> QED BY <1>1, <2>1, <3>1, <3>2
  <2>3. CASE k > Len(log)
    <3>1. k \in Len(log) + 1 .. Len(log')
      BY SMTT(30), <1>1, <2>3
    <3> QED BY <1>2, <2>1, <3>1
  <2> QED BY SMTT(30), <1>1, <2>2, <2>3
<1>4. ASSUME NEW x \in Survivors PROVE x \in Survivors'
  <2>1. PICK k \in synced .. Len(log) : x = img[k].table
    BY <1>1
  <2>2. k \in synced .. Len(log') /\ k \in 0 .. Len(log)
    BY SMTT(30), <1>1
  <2>3. img'[k] = img[k]
    BY <2>2
  <2> QED BY <1>1, <2>1, <2>2, <2>3
<1>5. t \in Survivors'
  <2>1. Len(log') \in synced .. Len(log')
    BY SMTT(30), <1>1
  <2> QED BY <1>1, <2>1
<1> QED BY <1>3, <1>4, <1>5

\* The number of a log is not a change.
LEMMA NumberLogStore ==
    ASSUME TInv, TInv', ChainInv, NumberLog, synced' = synced
    PROVE  Current' = Current /\ Survivors' = Survivors
<1>1. /\ Len(log) \in Nat /\ synced \in 0 .. Len(log)
      /\ Len(log') \in {Len(log), Len(log) + 1}
      /\ \A i \in 0 .. Len(log) : img'[i] = img[i]
  BY LogFacts, NumberLogTables
<1>2. img'[Len(log')].table = Current
  BY NumberLogTables DEF Current
<1>3. \A i \in Len(log) + 1 .. Len(log') : img'[i].table \in {Current, Current}
  BY SMTT(30), <1>1, <1>2
<1>4. Survivors' = Survivors \cup {Current}
  <2>1. Len(log') >= Len(log)
    BY SMTT(30), <1>1
  <2> QED BY <1>1, <1>2, <1>3, <2>1, SurvivorsGrow
<1>5. Current \in Survivors
  <2>1. Len(log) \in synced .. Len(log)
    BY SMTT(30), <1>1
  <2> QED BY <2>1 DEF Current, Survivors
<1> QED BY <1>2, <1>4, <1>5 DEF Current

\* The end of the process or of the machine, which keep what was synced.
LEMMA KeptStore ==
    ASSUME TInv, TInv', NEW k \in 0 .. Len(log), NEW torn \in BOOLEAN,
           k >= synced, synced' >= synced,
           log' = Kept(log, k, torn), img' = KeptImg(img, k, torn),
           mode' = "down"
    PROVE  Store!Next
<1> DEFINE t == img[k].table
<1>1. /\ log \in Seq(Record) /\ img \in [0 .. Len(log) -> Image]
      /\ Len(log) \in Nat /\ synced \in 0 .. Len(log) /\ synced' \in 0 .. Len(log')
      /\ Survivors' = {img'[i].table : i \in synced' .. Len(log')}
      /\ Survivors = {img[i].table : i \in synced .. Len(log)}
  BY LogFacts, LogFactsAfter DEF Survivors
<1>2. Len(log') = IF torn THEN k + 1 ELSE k
  <2>1. SubSeq(log, 1, k) \in Seq(Record) /\ Len(SubSeq(log, 1, k)) = k
    BY SMTT(30), <1>1
  <2>2. Torn \in Record
    BY DEF Record
  <2> HIDE DEF Torn
  <2> QED BY SMTT(30), <2>1, <2>2 DEF Kept
<1>3. /\ \A i \in 0 .. k : img'[i] = img[i]
      /\ torn => img'[k + 1] = Broken(img[k])
  BY SMTT(30) DEF KeptImg
<1>4. Broken(img[k]).table = t
  BY DEF Broken
<1>5. img[k] \in Image /\ t \in Table /\ k \in synced .. Len(log)
  BY SMTT(30), <1>1 DEF Image
<1>6. t \in Survivors
  BY <1>1, <1>5
<1>7. img'[Len(log')].table = t
  <2>1. CASE torn
    BY <1>2, <1>3, <1>4, <2>1
  <2>2. CASE ~torn
    BY SMTT(30), <1>2, <1>3, <2>2
  <2> QED BY <2>1, <2>2
<1>8. ASSUME NEW x \in Survivors' PROVE x \in Survivors
  <2>1. PICK i \in synced' .. Len(log') : x = img'[i].table
    BY <1>1
  <2>2. CASE i <= k
    <3>1. i \in 0 .. k /\ i \in synced .. Len(log)
      BY SMTT(30), <1>1, <1>2, <2>2
    <3>2. img'[i] = img[i]
      BY <1>3, <3>1
    <3> QED BY <1>1, <2>1, <3>1, <3>2
  <2>3. CASE i > k
    <3>1. i = Len(log')
      BY SMTT(30), <1>1, <1>2, <2>3
    <3> QED BY <1>6, <1>7, <2>1, <3>1
  <2> QED BY SMTT(30), <1>1, <1>2, <2>2, <2>3
<1>9. t \in Survivors'
  <2>1. Len(log') \in synced' .. Len(log')
    BY SMTT(30), <1>1, <1>2
  <2> QED BY <1>1, <1>7, <2>1
<1>10. Current' = t
  BY <1>7 DEF Current
<1>11. mode' # "syncing" /\ ~Serving'
  BY DEF Serving
<1> HIDE DEF t
<1> QED BY <1>5, <1>6, <1>8, <1>9, <1>10, <1>11, StoreFails

\* All that has been written is on the disk.
LEMMA SettledStore ==
    ASSUME TInv', synced' = Len(log'), Current' = Current, mode' # "syncing", Serving'
    PROVE  Store!Next
<1>1. Len(log') \in Nat /\ Survivors' = {img'[k].table : k \in synced' .. Len(log')}
  BY LogFactsAfter DEF Survivors
<1>2. Survivors' = {Current'}
  BY SMTT(30), <1>1 DEF Current
<1> QED BY <1>2, StoreSettles

\* Every step of the ClassAdLog is one of AdStore, or none.
LEMMA StoreStep ==
    ASSUME TInv, TInv', ChainInv, LInv, LInv', [Next]_vars, ~spoilt, ~spoilt'
    PROVE  [Store!Next]_(Store!storeVars)
<1>s. spoilt' = spoilt
  BY DEF TInv, TypeOK
<1>0. /\ TypeOK /\ Chain(log, img) /\ table \in Table /\ ops \in Seq(Op)
      /\ Len(log) \in Nat /\ synced \in 0 .. Len(log)
      /\ forced => mode = "rotating"
      /\ mode \in {"up", "syncing"} => /\ img[Len(log)] = Holding(table)
                                       /\ Current = table
                                       /\ Serving
  <2>1. mode \in {"up", "syncing"} => img[Len(log)] = Holding(table) /\ Serving
    BY DEF LInv, MemoryIsLogged, Serving
  <2>2. Holding(table).table = table
    BY HoldingFields
  <2>3. Chain(log, img) /\ (forced => mode = "rotating")
    BY DEF ChainInv, LInv
  <2> QED BY <2>1, <2>2, <2>3, LogFacts DEF Current
<1>1. ASSUME UNCHANGED <<log, img, synced>>,
             mode' = "syncing" <=> mode = "syncing", Serving' <=> Serving
      PROVE  UNCHANGED Store!storeVars
  BY <1>s, <1>1, StoreStutters DEF Current, Survivors
<1>2. ASSUME NEW r \in Op, NEW nondurable \in BOOLEAN, AppendLog(r, nondurable)
      PROVE  Store!Next
  <2>1. /\ mode = "up" /\ log' = LogWith(r) /\ img' = ImgWith(r)
        /\ table' = Play(table, r) /\ mode' \in {"up", "syncing"}
        /\ UNCHANGED <<forced, synced>>
    BY <1>2 DEF AppendLog, AfterWrite
  <2>2. Serving /\ Serving' /\ mode # "syncing"
    BY <1>0, <2>1 DEF Serving
  <2>3. /\ Len(log') = Len(log) + 1
        /\ \A i \in 0 .. Len(log) : img'[i] = img[i]
    BY SMTT(30), <1>0, <2>1, ChainWith DEF ImgWith
  <2>4. img'[Len(log')].table = table' /\ table' \in Table
    <3>1. img'[Len(log')] = Holding(table')
      BY <2>2 DEF LInv, MemoryIsLogged
    <3>2. Holding(table').table = table'
      BY HoldingFields
    <3> QED BY <1>0, <2>1, <3>1, <3>2, PlayType
  <2>5. \A i \in Len(log) + 1 .. Len(log') : img'[i].table \in {Current, table'}
    BY SMTT(30), <1>0, <2>3, <2>4
  <2>6. Survivors' = Survivors \cup {table'}
    <3>1. Len(log') >= Len(log)
      BY SMTT(30), <1>0, <2>3
    <3> QED BY <2>1, <2>3, <2>4, <2>5, <3>1, SurvivorsGrow
  <2>7. Current' = table'
    BY <2>4 DEF Current
  <2> QED BY <2>2, <2>4, <2>6, <2>7, StoreChanges
<1>3. ASSUME NEW r \in Op, AppendToTransaction(r) PROVE UNCHANGED Store!storeVars
  BY <1>1, <1>3 DEF AppendToTransaction, disk, Serving
<1>4. ASSUME NEW nondurable \in BOOLEAN, CommitTransaction(nondurable), ops # <<>>
      PROVE  Store!Next
  <2>1. /\ mode = "up" /\ log' = CommitLog /\ img' = CommitImg
        /\ table' = PlayAll(table, ops) /\ mode' \in {"up", "syncing"}
        /\ UNCHANGED <<forced, synced>>
    BY <1>4 DEF CommitTransaction, AfterWrite
  <2>2. Serving /\ Serving' /\ mode # "syncing"
    BY <1>0, <2>1 DEF Serving
  <2>3. /\ Len(log') = Len(log) + Len(ops) + 2 /\ Len(ops) \in Nat
        /\ \A i \in 0 .. Len(log) : img'[i] = img[i]
        /\ \A i \in Len(log) + 1 .. Len(log) + Len(ops) + 1 : img'[i].table = Current
    <3>1. CommitImg = img' /\ CommitLog = log' /\ Current = table
          /\ img[Len(log)] = Holding(table) /\ Len(ops) \in Nat
      BY SMTT(30), <1>0, <2>1
    <3>2. Len(CommitLog) = Len(log) + Len(ops) + 2
          /\ \A i \in 0 .. Len(log) : CommitImg[i] = img[i]
      BY <1>0, CommitLinks
    <3>3. \A i \in Len(log) + 1 .. Len(log) + Len(ops) + 1 : CommitImg[i].table = table
      BY <1>0, <3>1, CommitTables
    <3> QED BY <3>1, <3>2, <3>3
  <2>4. img'[Len(log')].table = table' /\ table' \in Table
    <3>1. img'[Len(log')] = Holding(table')
      BY <2>2 DEF LInv, MemoryIsLogged
    <3>2. Holding(table').table = table'
      BY ZenonT(60), HoldingFields
    <3> QED BY <1>0, <2>1, <3>1, <3>2, PlayAllType, Inductive
  <2>5. ASSUME NEW i \in Len(log) + 1 .. Len(log')
        PROVE  img'[i].table \in {Current, table'}
    <3>1. i \in Len(log) + 1 .. Len(log) + Len(ops) + 1 \/ i = Len(log')
      BY SMTT(30), <1>0, <2>3
    <3> QED BY <2>3, <2>4, <3>1
  <2>6. Survivors' = Survivors \cup {table'}
    <3>1. Len(log') >= Len(log)
      BY SMTT(30), <1>0, <2>3
    <3> QED BY <2>1, <2>3, <2>4, <2>5, <3>1, SurvivorsGrow
  <2>7. Current' = table'
    BY <2>4 DEF Current
  <2> QED BY <2>2, <2>4, <2>6, <2>7, StoreChanges
<1>5. ASSUME NEW nondurable \in BOOLEAN, CommitTransaction(nondurable), ops = <<>>
      PROVE  UNCHANGED Store!storeVars
  BY <1>1, <1>5 DEF CommitTransaction, disk, Serving
<1>6. ASSUME BeginTransaction \/ AbortTransaction \/ getActiveTransaction
      PROVE  UNCHANGED Store!storeVars
  BY <1>1, <1>6 DEF BeginTransaction, AbortTransaction, getActiveTransaction, disk,
                    Serving
<1>7. ASSUME NEW k \in Len(log) .. Len(CommitLog) - 1, NEW torn \in BOOLEAN,
             CommitLosing(k, torn)
      PROVE  FALSE
  BY <1>7 DEF CommitLosing
<1>8. ASSUME Sync PROVE Store!Next
  <2>1. /\ mode = "syncing" /\ mode' = "up" /\ synced' = Len(log)
        /\ UNCHANGED <<log, img, forced>>
    BY <1>8 DEF Sync
  <2>2. Serving' /\ Current' = Current
    BY <1>0, <2>1 DEF Serving, Current
  <2> QED BY <2>1, <2>2, SettledStore
<1>9. ASSUME FlushLog \/ TruncLogSkipped PROVE UNCHANGED Store!storeVars
  BY <1>1, <1>9 DEF FlushLog, TruncLogSkipped, disk, Serving
<1>10. ASSUME NEW rs \in parked, setActiveTransaction(rs)
       PROVE  UNCHANGED Store!storeVars
  BY <1>1, <1>10 DEF setActiveTransaction, disk, Serving
<1>11. ASSUME TruncLog PROVE UNCHANGED Store!storeVars
  BY <1>1, <1>11 DEF TruncLog, disk, Serving
<1>12. ASSUME NEW k \in left, LogState(k) PROVE UNCHANGED Store!storeVars
  BY <1>1, <1>12 DEF LogState, disk, Serving
<1>13. ASSUME NEW cut \in BOOLEAN, Rotated(cut) PROVE Store!Next
  <2>1. /\ mode = "rotating" /\ mode' = "up" /\ ~forced' /\ synced' = Len(log')
        /\ UNCHANGED table
    BY <1>13 DEF Rotated, memory
  <2>2. Serving' /\ Current = table
    BY <2>1 DEF Serving, LInv
  <2>3. Current' = table'
    <3>1. img'[Len(log')] = Holding(table')
      BY <2>2 DEF LInv, MemoryIsLogged
    <3>2. Holding(table').table = table'
      BY HoldingFields
    <3> QED BY <3>1, <3>2 DEF Current
  <2> QED BY <2>1, <2>2, <2>3, SettledStore
<1>14. ASSUME RotateFails PROVE UNCHANGED Store!storeVars
  BY <1>1, <1>14 DEF RotateFails, Ended, Serving
<1>15. ASSUME NEW k \in 0 .. Len(log), NEW torn \in BOOLEAN,
              torn => k < Len(log), Kill(k, torn) \/ Power(k, torn)
       PROVE  Store!Next
  <2>1. /\ log' = Kept(log, k, torn) /\ img' = KeptImg(img, k, torn)
        /\ mode' = "down"
    BY <1>15 DEF Kill, Power, Ended
  <2>2. k >= synced /\ synced' >= synced
    <3>1. CASE Kill(k, torn)
      <4>1. k >= flushed /\ synced' = synced
        BY <3>1 DEF Kill
      <4>2. flushed \in synced .. Len(log)
        BY <1>0 DEF TypeOK
      <4> QED BY SMTT(30), <1>0, <4>1, <4>2
    <3>2. CASE Power(k, torn)
      <4>1. k >= synced /\ synced' = Len(log')
        BY <3>2 DEF Power
      <4>2. Len(log') >= k
        <5>1. /\ SubSeq(log, 1, k) \in Seq(Record) /\ Len(SubSeq(log, 1, k)) = k
              /\ Torn \in Record
          BY SMTT(30), LogFacts DEF Record
        <5> HIDE DEF Torn
        <5> QED BY SMTT(30), <2>1, <5>1 DEF Kept
      <4> QED BY SMTT(30), <1>0, <4>1, <4>2, LogFactsAfter
    <3> QED BY <1>15, <3>1, <3>2
  <2> QED BY <2>1, <2>2, KeptStore
<1>16. ASSUME Open \/ ReadLogEntry \/ ReadBadRecord
       PROVE  UNCHANGED Store!storeVars
  BY <1>0, <1>1, <1>16 DEF Open, ReadLogEntry, ReadBadRecord, Ended, disk, Serving
<1>17. ASSUME NumberLog, synced' = synced, mode = "reading",
              mode' \in {"up", "rotating", "down"}
       PROVE  [Store!Next]_(Store!storeVars)
  <2>1. Current' = Current /\ Survivors' = Survivors
    BY <1>17, NumberLogStore
  <2>2. ~Serving /\ mode # "syncing" /\ mode' # "syncing"
    BY <1>17 DEF Serving
  <2>3. CASE Serving'
    BY <2>1, <2>2, <2>3, StoreRecovers
  <2>4. CASE ~Serving'
    BY <1>s, <2>1, <2>2, <2>4, StoreStutters
  <2> QED BY <2>3, <2>4
<1>18. CASE FinishClean
  BY <1>17, <1>18 DEF FinishClean, AtLogEnd, Recovered
<1>19. CASE FinishRotating
  BY <1>17, <1>19 DEF FinishRotating, AtLogEnd, Recovered
<1>20. CASE FinishUnrotated
  BY <1>17, <1>20 DEF FinishUnrotated, AtLogEnd, Recovered, Ended
<1>21. CASE UNCHANGED vars
  BY <1>1, <1>21 DEF vars, disk, Serving
<1> QED
  BY <1>2, <1>3, <1>4, <1>5, <1>6, <1>7, <1>8, <1>9, <1>10, <1>11, <1>12,
     <1>13, <1>14, <1>15, <1>16, <1>18, <1>19, <1>20, <1>21
  DEF Next, Restart

\* There are no ads before the first start.
LEMMA StoreInit ==
    ASSUME Init
    PROVE  Store!Init
<1>1. /\ Len(log) = 0 /\ synced = 0 /\ img[0] = Blank /\ mode = "down"
  BY SMTT(30) DEF Init
<1>2. Blank.table = NoAds
  BY DEF Blank, Holding
<1>3. img[Len(log)].table = NoAds
  BY <1>1, <1>2
<1>4. Survivors = {NoAds}
  BY SMTT(30), <1>1, <1>2 DEF Survivors
<1> QED BY <1>1, <1>3, <1>4 DEF Store!Init, Serving, Init

\* The store implements AdStore: transactions are atomic, durable ones survive
\* once they have returned, an end of the process or of the machine undoes the
\* last nondurable ones only, and neither rotation nor recovery changes a table,
\* whatever fails, but for a log that has been spoilt (AppendLog, CommitTransaction,
\* TruncLog, the constructor).
THEOREM LogImplementsStore == Spec => ImplementsStore
<1>1. Init => Store!Init
  BY StoreInit
<1>2. TInv /\ TInv' /\ ChainInv /\ LInv /\ LInv' /\ [Next]_vars
        => [Store!Next \/ spoilt \/ spoilt']_(Store!storeVars)
  BY StoreStep
<1> QED BY <1>1, <1>2, TInvAlways, ChainAlways, LInvAlways, PTL
     DEF Spec, ImplementsStore, Store!Spec

=============================================================================
