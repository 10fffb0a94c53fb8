-------------------------- MODULE ClassAdLogProofs --------------------------
(***************************************************************************)
(* Proofs about the ClassAdLog, for every set of keys and values, every    *)
(* bound and all faults: the types of all that it holds, how records are   *)
(* read, and the numbers of the logs.                                      *)
(*                                                                         *)
(* What a recursive function computes is proved by induction over a set of *)
(* numbers: the first number outside of it would be preceded by one inside.*)
(***************************************************************************)
EXTENDS ClassAdLog, TLAPS

\* Most leaves are first-order; the ones with arithmetic, or much to rewrite, name SMT.
USE Zenon

\* What an operation makes of a table is a table (the Play methods).
LEMMA PlayType ==
    ASSUME NEW t \in Table, NEW r \in Op
    PROVE  Play(t, r) \in Table
BY DEF Table, Op, Play, Ad

\* Operations are told apart from the marks of a log.
LEMMA OpKinds ==
    ASSUME NEW r \in Op
    PROVE  /\ r.op \notin {"Begin", "End", "Number", "Torn"}
           /\ r # Begin /\ r # End /\ r # Torn
BY SMTT(30) DEF Op, Begin, End, Torn

\* The kinds of records.
LEMMA RecordKinds ==
    ASSUME NEW r \in Record
    PROVE  \/ r \in Op
           \/ r = Begin /\ r.op = "Begin"
           \/ r = End /\ r.op = "End"
           \/ r = Torn /\ r.op = "Torn"
           \/ r.op = "Number" /\ r.num \in Nat
BY SMTT(30) DEF Record, Begin, End, Torn

\* How the constructor takes an operation.
LEMMA ReadOp ==
    ASSUME NEW im \in Image, ~im.bad, NEW r \in Op
    PROVE  Read(im, r) = IF im.open THEN Opened(im.table, Append(im.ops, r))
                         ELSE Holding(Play(im.table, r))
BY OpKinds, Zenon DEF Read

\* The readers there are.
LEMMA ImageTypes ==
    /\ \A t \in Table : Holding(t) \in Image
    /\ \A t \in Table, rs \in Seq(Op) : Opened(t, rs) \in Image
    /\ \A im \in Image : Broken(im) \in Image
    /\ Blank \in Image
<1>1. NoAds \in Table
  BY DEF NoAds, Table, Ad
<1> QED BY SMTT(30), <1>1 DEF Holding, Opened, Broken, Blank, Image

\* No operations, no records.
LEMMA EmptySeqs == <<>> \in Seq(Op) /\ <<>> \in Seq(Record)
BY SMTT(30)

\* The inductive invariant: a rotation goes back to a number it has used, and has
\* only ads to write that are there.
TInv ==
    /\ TypeOK
    /\ mode # "reading" => pos = 0
    /\ mode = "rotating" => /\ seqnum >= 1
                            /\ \A k \in left : table[k] # Absent

\* What most of the proofs need of it.
LEMMA LogFacts ==
    ASSUME TInv
    PROVE  /\ TypeOK /\ table \in Table /\ ops \in Seq(Op)
           /\ log \in Seq(Record) /\ Len(log) \in Nat
           /\ img \in [0 .. Len(log) -> Image] /\ img[Len(log)] \in Image
           /\ synced \in 0 .. Len(log) /\ pos \in 0 .. Len(log)
<1>1. TypeOK
  BY DEF TInv
<1>2. /\ table \in Table /\ ops \in Seq(Op)
      /\ log \in Seq(Record) /\ img \in [0 .. Len(log) -> Image]
      /\ synced \in 0 .. Len(log) /\ pos \in 0 .. Len(log)
  BY <1>1 DEF TypeOK
<1>3. Len(log) \in Nat /\ img[Len(log)] \in Image
  BY SMTT(30), <1>2
<1> QED BY <1>1, <1>2, <1>3

\* The same after a step.
LEMMA LogFactsAfter ==
    ASSUME TInv'
    PROVE  /\ log' \in Seq(Record) /\ Len(log') \in Nat
           /\ synced' \in 0 .. Len(log')
<1>1. log' \in Seq(Record) /\ synced' \in 0 .. Len(log')
  BY DEF TInv, TypeOK
<1> QED BY SMTT(30), <1>1

----------------------------------------------------------------------------
(* Types, by induction where the definitions are recursive.                *)

\* A set with 0 and all successors of its numbers has all of them (Inductive).
Induction ==
    \A S : 0 \in S /\ (\A n \in Nat : n \in S => n + 1 \in S) => Nat \subseteq S

LEMMA ByInduction ==
    ASSUME Induction, NEW S, 0 \in S, \A n \in Nat : n \in S => n + 1 \in S
    PROVE  Nat \subseteq S
BY DEF Induction

\* What a transaction makes of a table, one operation after the other (Commit).
LEMMA PlayAllSteps ==
    ASSUME Induction, NEW t \in Table, NEW rs \in Seq(Op)
    PROVE  \E f \in [0 .. Len(rs) -> Table] :
              /\ f[0] = t /\ PlayAll(t, rs) = f[Len(rs)]
              /\ \A j \in 1 .. Len(rs) : f[j] = Play(f[j - 1], rs[j])
<1> DEFINE n == Len(rs)
           Plays(f, i) == /\ f \in [0 .. i -> Table] /\ f[0] = t
                          /\ \A j \in 1 .. i : f[j] = Play(f[j - 1], rs[j])
           played == CHOOSE f : f = [i \in 0 .. n |->
                                       IF i = 0 THEN t ELSE Play(f[i - 1], rs[i])]
           Good == {i \in Nat : i <= n => \E f : Plays(f, i)}
           Typed == {i \in Nat : i <= n => played[i] \in Table}
<1>0. n \in Nat /\ \A i \in 1 .. n : rs[i] \in Op
  BY SMTT(30)
<1>1. PlayAll(t, rs) = played[n]
  BY DEF PlayAll
<1>2. 0 \in Good
  <2>1. Plays([i \in 0 .. 0 |-> t], 0)
    BY SMTT(30)
  <2> QED BY <2>1
<1>3. ASSUME NEW i \in Nat, i \in Good PROVE i + 1 \in Good
  <2> SUFFICES ASSUME i + 1 <= n PROVE \E f : Plays(f, i + 1)
    BY SMTT(30)
  <2>1. PICK f : Plays(f, i)
    BY SMTT(30), <1>0, <1>3
  <2> DEFINE g == [j \in 0 .. i + 1 |-> IF j <= i THEN f[j] ELSE Play(f[i], rs[i + 1])]
  <2>2. rs[i + 1] \in Op /\ f[i] \in Table
    BY SMTT(30), <1>0, <2>1
  <2>3. Play(f[i], rs[i + 1]) \in Table
    BY <2>2, PlayType
  <2>4. g \in [0 .. i + 1 -> Table] /\ g[0] = t
    BY SMTT(30), <2>1, <2>3
  <2>5. ASSUME NEW j \in 1 .. i + 1 PROVE g[j] = Play(g[j - 1], rs[j])
    <3>1. CASE j <= i
      BY SMTT(30), <2>1, <3>1
    <3>2. CASE j = i + 1
      BY SMTT(30), <3>2
    <3> QED BY SMTT(30), <3>1, <3>2
  <2> HIDE DEF g
  <2> QED BY <2>4, <2>5
<1>4. n \in Good
  <2> HIDE DEF Good
  <2> QED BY <1>0, <1>2, <1>3, ByInduction
<1>5. PICK f : Plays(f, n)
  BY SMTT(30), <1>0, <1>4
<1>6. f = [i \in 0 .. n |-> IF i = 0 THEN t ELSE Play(f[i - 1], rs[i])]
  BY SMTT(30), <1>0, <1>5
<1>7. played = [i \in 0 .. n |-> IF i = 0 THEN t ELSE Play(played[i - 1], rs[i])]
  BY <1>6, Zenon
<1> HIDE DEF played
<1>8. 0 \in Typed
  BY SMTT(30), <1>0, <1>7
<1>9. ASSUME NEW i \in Nat, i \in Typed PROVE i + 1 \in Typed
  <2> SUFFICES ASSUME i + 1 <= n PROVE played[i + 1] \in Table
    BY SMTT(30)
  <2>1. rs[i + 1] \in Op /\ played[i] \in Table
    BY SMTT(30), <1>0, <1>9
  <2>2. played[i + 1] = Play(played[i], rs[i + 1])
    BY SMTT(30), <1>0, <1>7
  <2> QED BY <2>1, <2>2, PlayType
<1>10. Nat \subseteq Typed
  <2> HIDE DEF Typed
  <2> QED BY <1>0, <1>8, <1>9, ByInduction
<1>11. \A i \in 0 .. n : i \in Nat /\ i <= n
  BY SMTT(30), <1>0
<1>12. played \in [0 .. n -> Table]
  <2>1. \A i \in 0 .. n : played[i] \in Table
    BY <1>10, <1>11
  <2> QED BY <1>7, <2>1
<1>13. played[0] = t /\ \A j \in 1 .. n : played[j] = Play(played[j - 1], rs[j])
  BY SMTT(30), <1>0, <1>7
<1> QED BY <1>1, <1>12, <1>13

\* What a transaction makes of a table is a table.
LEMMA PlayAllType ==
    ASSUME Induction, NEW t \in Table, NEW rs \in Seq(Op)
    PROVE  PlayAll(t, rs) \in Table
<1>1. Len(rs) \in 0 .. Len(rs)
  BY SMTT(30)
<1> QED BY SMTT(30), <1>1, PlayAllSteps

\* The steps of a transaction, as PlayAllSteps has them.
Plays(f, t, rs) ==
    /\ f \in [0 .. Len(rs) -> Table] /\ f[0] = t
    /\ \A j \in 1 .. Len(rs) : f[j] = Play(f[j - 1], rs[j])

\* One of these steps.
LEMMA OneStep ==
    ASSUME NEW t \in Table, NEW rs \in Seq(Op), NEW f, Plays(f, t, rs),
           NEW i \in Nat, i + 1 <= Len(rs)
    PROVE  /\ f[i] \in Table /\ rs[i + 1] \in Op /\ i + 1 \in 1 .. Len(rs)
           /\ f[i + 1] = Play(f[i], rs[i + 1])
<1>1. i \in 0 .. Len(rs) /\ i + 1 \in 1 .. Len(rs) /\ (i + 1) - 1 = i
  BY SMTT(30)
<1> QED BY SMTT(30), <1>1 DEF Plays

\* A record makes a reader of a reader (the constructor).
LEMMA ReadType ==
    ASSUME Induction, NEW im \in Image, NEW r \in Record
    PROVE  Read(im, r) \in Image
<1>1. im.table \in Table /\ im.ops \in Seq(Op)
  BY DEF Image
<1>2. CASE im.bad
  BY <1>2 DEF Read
<1>3. CASE ~im.bad /\ r \in Op
  <2>1. Play(im.table, r) \in Table /\ Append(im.ops, r) \in Seq(Op)
    BY SMTT(30), <1>1, <1>3, PlayType
  <2> QED BY <1>1, <1>3, <2>1, ReadOp, ImageTypes
<1>4. CASE ~im.bad /\ r \notin Op
  <2>1. PlayAll(im.table, im.ops) \in Table
    BY <1>1, PlayAllType
  <2> QED BY <1>1, <1>4, <2>1, RecordKinds, ImageTypes DEF Read
<1> QED BY <1>2, <1>3, <1>4

\* A log with one record more.
LEMMA WithType ==
    ASSUME Induction, TypeOK, NEW r \in Record
    PROVE  /\ LogWith(r) \in Seq(Record)
           /\ Len(LogWith(r)) = Len(log) + 1
           /\ ImgWith(r) \in [0 .. Len(log) + 1 -> Image]
<1>0. log \in Seq(Record) /\ img \in [0 .. Len(log) -> Image]
  BY DEF TypeOK
<1>1. Len(log) \in Nat /\ img[Len(log)] \in Image
  BY SMTT(30), <1>0
<1>2. Read(img[Len(log)], r) \in Image
  BY <1>1, ReadType
<1>3. \A i \in 0 .. Len(log) : img[i] \in Image
  BY <1>0
<1> QED BY SMTT(30), <1>0, <1>1, <1>2, <1>3 DEF LogWith, ImgWith

\* A log with one transaction more (Transaction::Commit).
LEMMA CommitType ==
    ASSUME Induction, TypeOK
    PROVE  /\ CommitLog \in Seq(Record)
           /\ Len(CommitLog) = Len(log) + Len(ops) + 2
           /\ CommitImg \in [0 .. Len(log) + Len(ops) + 2 -> Image]
<1>0. log \in Seq(Record) /\ ops \in Seq(Op) /\ img \in [0 .. Len(log) -> Image]
  BY DEF TypeOK
<1>1. Len(log) \in Nat /\ Len(ops) \in Nat /\ img[Len(log)] \in Image
  BY SMTT(30), <1>0
<1>2. \A i \in 0 .. Len(log) : img[i] \in Image
  BY <1>0
<1>3. ops \in Seq(Record) /\ <<Begin>> \in Seq(Record) /\ <<End>> \in Seq(Record)
  BY SMTT(30), <1>0 DEF Record
<1>4. End \in Record
  BY DEF Record
<1> DEFINE last == img[Len(log)]
           opened(n) == IF last.bad THEN last
                        ELSE Opened(last.table, last.ops \o SubSeq(ops, 1, n))
<1>5. ASSUME NEW n \in 0 .. Len(ops) PROVE opened(n) \in Image
  <2>1. SubSeq(ops, 1, n) \in Seq(Op)
    BY SMTT(30), <1>0
  <2>2. last.table \in Table /\ last.ops \o SubSeq(ops, 1, n) \in Seq(Op)
    BY SMTT(30), <1>1, <2>1 DEF Image
  <2> QED BY <1>1, <2>2, ImageTypes
<1>6. Read(opened(Len(ops)), End) \in Image
  <2>1. opened(Len(ops)) \in Image
    BY SMTT(30), <1>1, <1>5
  <2> HIDE DEF opened
  <2> QED BY <1>4, <2>1, ReadType
<1>7. CommitImg = [i \in 0 .. Len(log) + Len(ops) + 2 |->
                     IF i <= Len(log) THEN img[i]
                     ELSE IF i < Len(log) + Len(ops) + 2
                          THEN opened(i - Len(log) - 1)
                     ELSE Read(opened(Len(ops)), End)]
  BY DEF CommitImg
<1>8. CommitImg \in [0 .. Len(log) + Len(ops) + 2 -> Image]
  <2> HIDE DEF opened
  <2> QED BY SMTT(30), <1>1, <1>2, <1>5, <1>6, <1>7
<1> QED BY SMTT(30), <1>0, <1>1, <1>3, <1>8 DEF CommitLog

\* What the end of the process or of the machine leaves of a log.
LEMMA KeptType ==
    ASSUME NEW l \in Seq(Record), NEW im \in [0 .. Len(l) -> Image],
           NEW k \in 0 .. Len(l), NEW torn \in BOOLEAN
    PROVE  /\ Kept(l, k, torn) \in Seq(Record)
           /\ Len(Kept(l, k, torn)) = IF torn THEN k + 1 ELSE k
           /\ KeptImg(im, k, torn) \in [0 .. Len(Kept(l, k, torn)) -> Image]
<1>1. SubSeq(l, 1, k) \in Seq(Record) /\ Len(SubSeq(l, 1, k)) = k
  BY SMTT(30)
<1>2. Torn \in Record
  BY DEF Record
<1>3. /\ Kept(l, k, torn) \in Seq(Record)
      /\ Len(Kept(l, k, torn)) = IF torn THEN k + 1 ELSE k
  BY SMTT(30), <1>1, <1>2 DEF Kept
<1>4. \A i \in 0 .. k : im[i] \in Image
  BY SMTT(30)
<1>5. Broken(im[k]) \in Image
  BY <1>4, ImageTypes
<1> QED BY SMTT(30), <1>3, <1>4, <1>5 DEF KeptImg

\* The names of the historical logs (SaveHistoricalLogs).
LEMMA SaveType ==
    ASSUME TInv, NEW unlinks \in BOOLEAN, SaveHistoricalLogs(unlinks)
    PROVE  saved' \subseteq Nat /\ missed' \subseteq saved'
<1>1. saved \subseteq Nat /\ missed \subseteq saved /\ seqnum \in Nat
  BY DEF TInv, TypeOK
<1> QED BY <1>1 DEF SaveHistoricalLogs, history

\* A rotation that is not begun, and an end, may have linked the log.
LEMMA UnsavedType ==
    ASSUME TInv, NotRotated \/ EndedSaving
    PROVE  saved' \subseteq Nat /\ missed' \subseteq saved'
<1>1. saved \subseteq Nat /\ missed \subseteq saved
  BY DEF TInv, TypeOK
<1>2. CASE UNCHANGED history
  BY <1>1, <1>2 DEF history
<1>3. ASSUME NEW unlinks \in BOOLEAN, SaveHistoricalLogs(unlinks)
      PROVE  saved' \subseteq Nat /\ missed' \subseteq saved'
  BY <1>3, SaveType
<1> QED BY <1>2, <1>3 DEF NotRotated, EndedSaving

\* TruncLog starts a .tmp file.
LEMMA StartType ==
    ASSUME TInv, StartRotation
    PROVE  /\ saved' \subseteq Nat /\ missed' \subseteq saved'
           /\ faults' \in 0 .. MaxFaults
           /\ seqnum' \in Nat /\ seqnum' >= 1
           /\ new' \in Seq(Record) /\ Len(new') = 1
           /\ newImg' \in [0 .. Len(new') -> Image]
           /\ left' \subseteq Key /\ \A k \in left' : table[k] # Absent
           /\ stale' \in Seq(Record)
<1>1. saved \subseteq Nat /\ seqnum \in Nat /\ stale \in Seq(Record)
  BY DEF TInv, TypeOK
<1>2. Number(seqnum + 1) \in Record
  BY SMTT(30), <1>1 DEF Number, Record
<1>3. new' \in Seq(Record) /\ Len(new') = 1
  BY SMTT(30), <1>2 DEF StartRotation
<1>4. newImg' \in [0 .. Len(new') -> Image]
  BY <1>3, ImageTypes DEF StartRotation
<1>5. saved' \subseteq Nat /\ missed' \subseteq saved'
  BY SaveType DEF StartRotation
<1>f. faults' \in 0 .. MaxFaults
  <2>1. faults' = faults \/ (faults < MaxFaults /\ faults' = faults + 1)
    BY DEF StartRotation, Happens
  <2>2. faults \in 0 .. MaxFaults /\ MaxFaults \in Nat
    BY ClassAdLogAssumption DEF TInv, TypeOK
  <2> QED BY SMTT(30), <2>1, <2>2
<1>6. seqnum' \in Nat /\ seqnum' >= 1
  BY SMTT(30), <1>1 DEF StartRotation
<1>7. left' \subseteq Key /\ (\A k \in left' : table[k] # Absent) /\ stale' \in Seq(Record)
  BY <1>1 DEF StartRotation
<1> QED BY <1>3, <1>4, <1>5, <1>6, <1>7, <1>f

\* The .tmp file is a log, whatever it held before: what LogState has written, and
\* then what is read from there on.
LEMMA TmpTypes ==
    ASSUME Induction, TInv, NEW cut \in BOOLEAN
    PROVE  /\ TmpFile(cut) \in Seq(Record)
           /\ TmpImg(cut) \in [0 .. Len(TmpFile(cut)) -> Image]
           /\ \A i \in 1 .. Len(new) : TmpFile(cut)[i] = new[i]
           /\ Len(TmpFile(cut)) >= Len(new)
           /\ \A i \in 0 .. Len(TmpFile(cut)) :
                 TmpImg(cut)[i] = IF i <= Len(new) THEN newImg[i]
                                  ELSE Read(TmpImg(cut)[i - 1], TmpFile(cut)[i])
<1> DEFINE file == TmpFile(cut)
           n == Len(file)
           Reads(f, i) == /\ f \in [0 .. i -> Image]
                          /\ \A j \in 0 .. i :
                                f[j] = IF j <= Len(new) THEN newImg[j]
                                       ELSE Read(f[j - 1], file[j])
           read == CHOOSE f : f = [i \in 0 .. n |->
                        IF i <= Len(new) THEN newImg[i] ELSE Read(f[i - 1], file[i])]
           Good == {i \in Nat : i <= n => \E f : Reads(f, i)}
           Typed == {i \in Nat : i <= n => read[i] \in Image}
<1>1. /\ new \in Seq(Record) /\ stale \in Seq(Record) /\ Len(new) \in Nat
      /\ newImg \in [0 .. Len(new) -> Image] /\ Len(stale) \in Nat
  BY SMTT(30) DEF TInv, TypeOK
<1>3. /\ file \in Seq(Record) /\ n >= Len(new)
      /\ \A i \in 1 .. Len(new) : file[i] = new[i]
  <2> DEFINE rest == SubSeq(stale, Len(new) + 1, Len(stale))
             cutRest == SubSeq(stale, Len(new) + 2, Len(stale))
             more == IF cut /\ stale # <<>> THEN <<Torn>> \o cutRest ELSE rest
  <2>1. Torn \in Record
    BY DEF Record
  <2>2. rest \in Seq(Record) /\ cutRest \in Seq(Record)
    BY SMTT(30), <1>1
  <2> HIDE DEF Torn, rest, cutRest
  <2>3. <<Torn>> \o cutRest \in Seq(Record)
    BY SMTT(30), <2>1, <2>2
  <2>4. more \in Seq(Record)
    BY <2>2, <2>3
  <2>5. file = new \o more
    <3>1. new \o <<Torn>> \o cutRest = new \o (<<Torn>> \o cutRest)
      BY SMTT(30), <1>1, <2>1, <2>2
    <3> QED BY <3>1 DEF TmpFile, rest, cutRest
  <2> HIDE DEF more, file
  <2>6. /\ new \o more \in Seq(Record) /\ Len(new \o more) = Len(new) + Len(more)
        /\ \A i \in 1 .. Len(new) : (new \o more)[i] = new[i]
    BY SMTT(30), <1>1, <2>4
  <2>7. Len(more) \in Nat
    BY SMTT(30), <2>4
  <2> QED BY SMTT(30), <1>1, <2>5, <2>6, <2>7
<1>4. TmpImg(cut) = read
  BY DEF TmpImg
<1> HIDE DEF file
<1>5. n \in Nat /\ \A i \in 1 .. n : file[i] \in Record
  BY SMTT(30), <1>3
<1>6. 0 \in Good
  <2>1. Reads([i \in 0 .. 0 |-> newImg[i]], 0)
    BY SMTT(30), <1>1
  <2> QED BY <2>1
<1>7. ASSUME NEW i \in Nat, i \in Good PROVE i + 1 \in Good
  <2> SUFFICES ASSUME i + 1 <= n PROVE \E f : Reads(f, i + 1)
    BY SMTT(30)
  <2>1. PICK f : Reads(f, i)
    BY SMTT(30), <1>5, <1>7
  <2> DEFINE next == IF i + 1 <= Len(new) THEN newImg[i + 1]
                     ELSE Read(f[i], file[i + 1])
             g == [j \in 0 .. i + 1 |-> IF j <= i THEN f[j] ELSE next]
  <2>2. file[i + 1] \in Record /\ f[i] \in Image
    BY SMTT(30), <1>5, <2>1
  <2>3. next \in Image
    <3>1. CASE i + 1 <= Len(new)
      BY SMTT(30), <1>1, <3>1
    <3>2. CASE ~(i + 1 <= Len(new))
      BY <2>2, <3>2, ReadType
    <3> QED BY <3>1, <3>2
  <2>4. g \in [0 .. i + 1 -> Image]
    <3> HIDE DEF next
    <3> QED BY SMTT(30), <2>1, <2>3
  <2>5. ASSUME NEW j \in 0 .. i + 1
        PROVE  g[j] = IF j <= Len(new) THEN newImg[j] ELSE Read(g[j - 1], file[j])
    <3>1. CASE j <= i
      <4>1. j \in 0 .. i /\ g[j] = f[j]
        BY SMTT(30), <3>1
      <4>2. f[j] = IF j <= Len(new) THEN newImg[j] ELSE Read(f[j - 1], file[j])
        BY <2>1, <4>1
      <4>3. ~(j <= Len(new)) => g[j - 1] = f[j - 1]
        BY SMTT(30), <1>1, <4>1
      <4> QED BY <4>1, <4>2, <4>3
    <3>2. CASE j = i + 1
      BY SMTT(30), <3>2
    <3> QED BY SMTT(30), <3>1, <3>2
  <2> HIDE DEF g
  <2> QED BY <2>4, <2>5
<1>8. n \in Good
  <2> HIDE DEF Good
  <2> QED BY <1>5, <1>6, <1>7, ByInduction
<1>9. PICK f : Reads(f, n)
  BY SMTT(30), <1>5, <1>8
<1>10. f = [i \in 0 .. n |->
              IF i <= Len(new) THEN newImg[i] ELSE Read(f[i - 1], file[i])]
  BY <1>5, <1>9
<1>11. read = [i \in 0 .. n |->
                 IF i <= Len(new) THEN newImg[i] ELSE Read(read[i - 1], file[i])]
  BY <1>10, Zenon
<1> HIDE DEF read
<1>12. 0 \in Typed
  BY SMTT(30), <1>1, <1>5, <1>11
<1>13. ASSUME NEW i \in Nat, i \in Typed PROVE i + 1 \in Typed
  <2> SUFFICES ASSUME i + 1 <= n PROVE read[i + 1] \in Image
    BY SMTT(30)
  <2>1. file[i + 1] \in Record /\ read[i] \in Image
    BY SMTT(30), <1>5, <1>13
  <2>2. read[i + 1] = IF i + 1 <= Len(new) THEN newImg[i + 1]
                      ELSE Read(read[i], file[i + 1])
    BY SMTT(30), <1>5, <1>11
  <2>3. CASE i + 1 <= Len(new)
    BY SMTT(30), <1>1, <2>2, <2>3
  <2>4. CASE ~(i + 1 <= Len(new))
    BY <2>1, <2>2, <2>4, ReadType
  <2> QED BY <2>3, <2>4
<1>14. Nat \subseteq Typed
  <2> HIDE DEF Typed
  <2> QED BY <1>12, <1>13, ByInduction
<1>15. read \in [0 .. n -> Image]
  <2>1. \A i \in 0 .. n : read[i] \in Image
    BY SMTT(30), <1>5, <1>14
  <2>2. read = [i \in 0 .. n |-> read[i]]
    BY <1>11
  <2> QED BY <2>1, <2>2
<1>16. \A i \in 0 .. n : read[i] = IF i <= Len(new) THEN newImg[i]
                                  ELSE Read(read[i - 1], file[i])
  BY <1>5, <1>11
<1> QED BY <1>3, <1>4, <1>15, <1>16 DEF file

\* What a failed rotation leaves.
LEMMA AbandonedType ==
    ASSUME Induction, TInv
    PROVE  Abandoned \in Seq(Record)
BY TmpTypes DEF Abandoned

\* No rotation is going on.
LEMMA NoRotationType ==
    ASSUME NoRotation
    PROVE  /\ new' \in Seq(Record) /\ newImg' \in [0 .. Len(new') -> Image]
           /\ left' \subseteq Key
BY EmptySeqs, ImageTypes DEF NoRotation

\* The process has ended.
LEMMA EndedType ==
    ASSUME Induction, TInv, Ended
    PROVE  /\ mode' = "down" /\ table' \in Table /\ active' \in BOOLEAN
           /\ ops' \in Seq(Op) /\ parked' \subseteq Seq(Op)
           /\ pos' = 0 /\ forced' \in BOOLEAN /\ seqnum' = 1
           /\ new' \in Seq(Record) /\ newImg' \in [0 .. Len(new') -> Image]
           /\ left' \subseteq Key /\ stale' \in Seq(Record) /\ spoilt' \in BOOLEAN
<1>1. NoAds \in Table
  BY DEF NoAds, Table, Ad
<1>2. stale' \in Seq(Record)
  <2>1. Abandoned \in Seq(Record) /\ stale \in Seq(Record)
    BY AbandonedType DEF TInv, TypeOK
  <2> QED BY <2>1 DEF Ended
<1> QED BY <1>1, <1>2, EmptySeqs, NoRotationType DEF Ended

\* What Recovered and FinishUnrotated write.
LEMMA NumberLogType ==
    ASSUME Induction, TInv, NumberLog
    PROVE  /\ log' \in Seq(Record) /\ Len(log') \in Nat /\ Len(log') >= Len(log)
           /\ img' \in [0 .. Len(log') -> Image]
<1>1. TypeOK /\ seqnum \in Nat /\ log \in Seq(Record)
      /\ img \in [0 .. Len(log) -> Image]
  BY DEF TInv, TypeOK
<1>2. Number(seqnum) \in Record
  BY <1>1 DEF Number, Record
<1> QED BY SMTT(30), <1>1, <1>2, WithType DEF NumberLog

\* LogState writes records of one ad.
LEMMA LogStateType ==
    ASSUME Induction, TInv, NEW k \in left, LogState(k)
    PROVE  new' \in Seq(Record) /\ newImg' \in [0 .. Len(new') -> Image]
<1> DEFINE create == [op |-> "New", key |-> k]
           set == [op |-> "Set", key |-> k, val |-> table[k]]
           created == Read(newImg[Len(new)], create)
<1>1. /\ new \in Seq(Record) /\ newImg \in [0 .. Len(new) -> Image]
      /\ k \in Key /\ table[k] \in Ad /\ table[k] # Absent
  BY DEF TInv, TypeOK, Table, LogState
<1>2. Len(new) \in Nat /\ newImg[Len(new)] \in Image
  BY SMTT(30), <1>1
<1>3. create \in Record
  BY <1>1 DEF Record, Op
<1>4. table[k] # Empty => set \in Record
  BY <1>1 DEF Record, Op, Ad
<1>5. created \in Image
  BY <1>2, <1>3, ReadType
<1>6. table[k] # Empty => Read(created, set) \in Image
  <2> HIDE DEF created, set
  <2> QED BY <1>4, <1>5, ReadType
<1>7. /\ new' = new \o IF table[k] = Empty THEN <<create>> ELSE <<create, set>>
      /\ newImg' = [i \in 0 .. Len(new) + IF table[k] = Empty THEN 1 ELSE 2 |->
                        IF i <= Len(new) THEN newImg[i]
                        ELSE IF i = Len(new) + 1 THEN created
                        ELSE Read(created, set)]
  BY DEF LogState
<1> HIDE DEF create, set, created
<1>8. CASE table[k] = Empty
  <2>1. new' = new \o <<create>> /\ <<create>> \in Seq(Record)
    BY SMTT(30), <1>3, <1>7, <1>8
  <2>2. new' \in Seq(Record) /\ Len(new') = Len(new) + 1
    BY SMTT(30), <1>1, <2>1
  <2> QED BY SMTT(30), <1>1, <1>2, <1>5, <1>7, <1>8, <2>2
<1>9. CASE table[k] # Empty
  <2>1. new' = new \o <<create, set>> /\ <<create, set>> \in Seq(Record)
    BY SMTT(30), <1>3, <1>4, <1>7, <1>9
  <2>2. new' \in Seq(Record) /\ Len(new') = Len(new) + 2
    BY SMTT(30), <1>1, <2>1
  <2> QED BY SMTT(30), <1>1, <1>2, <1>5, <1>6, <1>7, <1>9, <2>2
<1> QED BY <1>8, <1>9

\* Every action keeps TInv.
LEMMA TInvStep ==
    ASSUME Induction, TInv, [Next]_vars
    PROVE  TInv'
<1> USE ClassAdLogAssumption
<1>0. TypeOK
  BY DEF TInv
<1>1. ASSUME NEW r \in Op, NEW nondurable \in BOOLEAN, AppendLog(r, nondurable)
      PROVE  TInv'
  <2>1. r \in Record
    BY DEF Record
  <2>2. Play(table, r) \in Table
    BY <1>0, PlayType DEF TypeOK
  <2>3. /\ log' = LogWith(r) /\ img' = ImgWith(r) /\ table' = Play(table, r)
        /\ mode = "up" /\ mode' \in {"up", "syncing"}
        /\ UNCHANGED <<active, ops, parked, flushed, synced, pos, forced, seqnum>>
        /\ UNCHANGED <<saved, missed, new, newImg, left, stale, spoilt, faults>>
    BY <1>1 DEF AppendLog, AfterWrite, rotation, history
  <2>4. /\ log' \in Seq(Record) /\ img' \in [0 .. Len(log') -> Image]
        /\ Len(log') = Len(log) + 1
    BY <1>0, <2>1, <2>3, WithType
  <2>5. /\ synced' \in 0 .. Len(log') /\ flushed' \in synced' .. Len(log')
        /\ pos' \in 0 .. Len(log')
    BY SMTT(30), <1>0, <2>3, <2>4 DEF TypeOK
  <2> QED BY <2>2, <2>3, <2>4, <2>5 DEF TInv, TypeOK, Modes
<1>2. ASSUME NEW r \in Op, AppendToTransaction(r) PROVE TInv'
  BY SMTT(30), <1>2 DEF TInv, TypeOK, AppendToTransaction, rotation, disk, history
<1>3. CASE BeginTransaction
  BY <1>3 DEF TInv, TypeOK, BeginTransaction, rotation, disk, history
<1>4. CASE AbortTransaction
  BY EmptySeqs, <1>4 DEF TInv, TypeOK, AbortTransaction, rotation, disk, history
<1>5. ASSUME NEW nondurable \in BOOLEAN, CommitTransaction(nondurable)
      PROVE  TInv'
  <2>1. PlayAll(table, ops) \in Table
    BY <1>0, PlayAllType DEF TypeOK
  <2>2. CASE ops = <<>>
    BY EmptySeqs, <1>5, <2>2 DEF TInv, TypeOK, CommitTransaction, rotation, disk, history
  <2>3. CASE ops # <<>>
    <3>1. /\ log' \in Seq(Record) /\ Len(log') = Len(log) + Len(ops) + 2
          /\ img' \in [0 .. Len(log') -> Image]
      BY <1>0, <1>5, <2>3, CommitType DEF CommitTransaction
    <3>2. /\ table' \in Table /\ active' \in BOOLEAN /\ ops' \in Seq(Op)
          /\ mode = "up" /\ mode' \in {"up", "syncing"}
          /\ UNCHANGED <<parked, flushed, synced, pos, forced, seqnum, history, rotation>>
          /\ UNCHANGED <<spoilt, faults>>
      BY <1>5, <2>1, <2>3, EmptySeqs DEF CommitTransaction, AfterWrite
    <3> QED BY SMTT(30), <3>1, <3>2 DEF TInv, TypeOK, Modes, rotation, history
  <2> QED BY <2>2, <2>3
<1>6. ASSUME NEW k \in Len(log) .. Len(CommitLog) - 1, NEW torn \in BOOLEAN,
             CommitLosing(k, torn)
      PROVE  TInv'
  <2>1. PlayAll(table, ops) \in Table
    BY <1>0, PlayAllType DEF TypeOK
  <2>2. k \in 0 .. Len(CommitLog) /\ k >= Len(log)
    BY SMTT(30), <1>0, CommitType DEF TypeOK
  <2>3. /\ log' \in Seq(Record) /\ Len(log') = IF torn THEN k + 1 ELSE k
        /\ img' \in [0 .. Len(log') -> Image]
    BY <1>0, <1>6, <2>2, CommitType, KeptType DEF CommitLosing
  <2>4. /\ table' \in Table /\ active' \in BOOLEAN /\ ops' \in Seq(Op)
        /\ mode = "up" /\ spoilt' \in BOOLEAN
        /\ UNCHANGED <<mode, parked, flushed, synced, pos, forced, seqnum, history, rotation>>
    BY <1>6, <2>1, EmptySeqs DEF CommitLosing
  <2>5. faults' \in 0 .. MaxFaults
    BY SMTT(30), <1>0, <1>6 DEF CommitLosing, Happens, TypeOK
  <2> QED BY SMTT(30), <2>2, <2>3, <2>4, <2>5 DEF TInv, TypeOK, rotation, history
<1>7. CASE Sync
  BY SMTT(30), <1>7 DEF TInv, TypeOK, Sync, Modes, rotation, memory, history
<1>8. CASE FlushLog
  BY SMTT(30), <1>8 DEF TInv, TypeOK, FlushLog, rotation, memory, history
<1>9. CASE getActiveTransaction
  BY EmptySeqs, <1>9 DEF TInv, TypeOK, getActiveTransaction, rotation, disk, history
<1>10. ASSUME NEW rs \in parked, setActiveTransaction(rs) PROVE TInv'
  BY <1>10 DEF TInv, TypeOK, setActiveTransaction, rotation, disk, history
<1>11. CASE TruncLog
  <2>1. mode = "up" /\ mode' = "rotating" /\ StartRotation
        /\ UNCHANGED <<memory, disk, pos, forced, spoilt>>
    BY <1>11 DEF TruncLog
  <2>2. /\ saved' \subseteq Nat /\ missed' \subseteq saved' /\ faults' \in 0 .. MaxFaults
        /\ seqnum' \in Nat /\ seqnum' >= 1
        /\ new' \in Seq(Record) /\ newImg' \in [0 .. Len(new') -> Image]
        /\ left' \subseteq Key /\ (\A k \in left' : table[k] # Absent)
        /\ stale' \in Seq(Record)
    BY <2>1, StartType
  <2> QED BY <2>1, <2>2 DEF TInv, TypeOK, Modes, memory, disk
<1>12. CASE TruncLogSkipped
  <2>1. saved' \subseteq Nat /\ missed' \subseteq saved'
    BY <1>12, UnsavedType DEF TruncLogSkipped
  <2>2. faults' \in 0 .. MaxFaults
    BY SMTT(30), <1>0, <1>12 DEF TruncLogSkipped, NotRotated, Happens, TypeOK
  <2> QED BY <1>12, <2>1, <2>2 DEF TInv, TypeOK, TruncLogSkipped, memory, disk, rotation
<1>13. ASSUME NEW k \in left, LogState(k) PROVE TInv'
  <2>1. /\ left' = left \ {k}
        /\ UNCHANGED <<mode, memory, disk, pos, forced, seqnum, saved, missed, stale>>
        /\ UNCHANGED <<spoilt, faults>>
    BY <1>13 DEF LogState, history
  <2> QED BY <1>13, <2>1, LogStateType DEF TInv, TypeOK, memory, disk
<1>14. ASSUME NEW cut \in BOOLEAN, Rotated(cut) PROVE TInv'
  <2>1. log' \in Seq(Record) /\ img' \in [0 .. Len(log') -> Image]
    BY <1>14, TmpTypes DEF Rotated
  <2>2. /\ mode = "rotating"
        /\ mode' = "up" /\ flushed' = Len(log') /\ synced' = Len(log')
        /\ NoRotation /\ stale' \in Seq(Record) /\ forced' \in BOOLEAN
        /\ UNCHANGED <<memory, pos, seqnum, history, faults>>
        /\ spoilt' = (Len(log') > Len(new))
    BY <1>14, EmptySeqs DEF Rotated
  <2>s. spoilt' \in BOOLEAN
    <3>1. Len(log') \in Nat /\ Len(new) \in Nat
      BY SMTT(30), <1>0, <2>1 DEF TypeOK
    <3> QED BY SMTT(30), <2>2, <3>1
  <2>3. /\ new' \in Seq(Record) /\ newImg' \in [0 .. Len(new') -> Image]
        /\ left' \subseteq Key
    BY <2>2, NoRotationType
  <2> QED BY SMTT(30), <2>1, <2>2, <2>s, <2>3 DEF TInv, TypeOK, Modes, memory, history
<1>15. CASE RotateFails
  <2>1. faults' \in 0 .. MaxFaults /\ flushed' = Len(log)
        /\ UNCHANGED <<log, synced, img, saved, missed>>
    BY SMTT(30), <1>0, <1>15 DEF RotateFails, Happens, TypeOK, history
  <2>2. CASE forced
    <3>1. Ended
      BY <1>15, <2>2 DEF RotateFails
    <3>2. /\ mode' = "down" /\ table' \in Table /\ active' \in BOOLEAN
          /\ ops' \in Seq(Op) /\ parked' \subseteq Seq(Op)
          /\ pos' = 0 /\ forced' \in BOOLEAN /\ seqnum' = 1
          /\ new' \in Seq(Record) /\ newImg' \in [0 .. Len(new') -> Image]
          /\ left' \subseteq Key /\ stale' \in Seq(Record) /\ spoilt' \in BOOLEAN
      BY <3>1, EndedType
    <3> QED BY SMTT(30), <2>1, <3>2 DEF TInv, TypeOK, Modes
  <2>3. CASE ~forced
    <3>1. /\ mode' = "up" /\ seqnum' = seqnum - 1 /\ NoRotation
          /\ stale' = Abandoned
          /\ UNCHANGED <<memory, pos, forced, spoilt>>
          /\ mode = "rotating"
      BY <1>15, <2>3 DEF RotateFails
    <3>2. stale' \in Seq(Record)
      BY <3>1, AbandonedType
    <3> QED BY SMTT(30), <2>1, <3>1, <3>2, NoRotationType DEF TInv, TypeOK, Modes, memory
  <2> QED BY <2>2, <2>3
<1>16. ASSUME NEW k \in 0 .. Len(log), NEW torn \in BOOLEAN,
              torn => k < Len(log), Kill(k, torn) \/ Power(k, torn)
       PROVE  TInv'
  <2>1. /\ log' \in Seq(Record) /\ Len(log') \in Nat /\ Len(log') >= k
        /\ img' \in [0 .. Len(log') -> Image]
    <3>1. log' = Kept(log, k, torn) /\ img' = KeptImg(img, k, torn)
      BY <1>16 DEF Kill, Power
    <3>2. log \in Seq(Record) /\ img \in [0 .. Len(log) -> Image]
      BY <1>0 DEF TypeOK
    <3> QED BY SMTT(30), <3>1, <3>2, KeptType
  <2>2. /\ Ended /\ k >= synced /\ flushed' = Len(log')
        /\ synced' \in {synced, Len(log')}
        /\ faults' \in 0 .. MaxFaults /\ EndedSaving
    BY SMTT(30), <1>0, <1>16 DEF Kill, Power, TypeOK, Happens
  <2>3. /\ mode' = "down" /\ table' \in Table /\ active' \in BOOLEAN
        /\ ops' \in Seq(Op) /\ parked' \subseteq Seq(Op)
        /\ pos' = 0 /\ forced' \in BOOLEAN /\ seqnum' = 1
        /\ new' \in Seq(Record) /\ newImg' \in [0 .. Len(new') -> Image]
        /\ left' \subseteq Key /\ stale' \in Seq(Record) /\ spoilt' \in BOOLEAN
    BY <2>2, EndedType
  <2>4. /\ synced' \in 0 .. Len(log') /\ flushed' \in synced' .. Len(log')
        /\ pos' \in 0 .. Len(log') /\ seqnum' \in Nat
    BY SMTT(30), <1>0, <2>1, <2>2, <2>3 DEF TypeOK
  <2>5. mode' \in Modes /\ saved' \subseteq Nat /\ missed' \subseteq saved'
    BY <2>2, <2>3, UnsavedType DEF Modes
  <2>6. TypeOK'
    BY <2>1, <2>2, <2>3, <2>4, <2>5 DEF TypeOK
  <2> QED BY <2>3, <2>6 DEF TInv
<1>17. CASE Open
  BY <1>17 DEF Open, TInv, TypeOK, Modes, memory, disk, rotation, history
<1>18. CASE ReadLogEntry
  <2> DEFINE im == IF active THEN Opened(table, ops) ELSE Holding(table)
  <2>1. pos + 1 \in DOMAIN log
    BY <1>18 DEF ReadLogEntry, AtEnd
  <2>2. log[pos + 1] \in Record /\ pos + 1 \in 0 .. Len(log)
    BY SMTT(30), <1>0, <2>1 DEF TypeOK
  <2>3. im \in Image
    BY <1>0, ImageTypes DEF TypeOK
  <2>4. Read(im, log[pos + 1]) \in Image
    <3> HIDE DEF im
    <3> QED BY <2>2, <2>3, ReadType
  <2>5. /\ table' = Read(im, log[pos + 1]).table
        /\ active' = Read(im, log[pos + 1]).open
        /\ ops' = Read(im, log[pos + 1]).ops
        /\ seqnum' = IF log[pos + 1].op = "Number" THEN log[pos + 1].num ELSE seqnum
        /\ pos' = pos + 1 /\ mode = "reading"
        /\ UNCHANGED <<mode, parked, disk, forced, history, rotation, spoilt, faults>>
    BY <1>18 DEF ReadLogEntry
  <2>6. table' \in Table /\ active' \in BOOLEAN /\ ops' \in Seq(Op)
    <3> HIDE DEF im
    <3> QED BY <2>4, <2>5 DEF Image
  <2>7. seqnum' \in Nat
    <3>1. log[pos + 1].op = "Number" => log[pos + 1].num \in Nat
      BY <2>2, RecordKinds, OpKinds DEF Begin, End, Torn
    <3> QED BY <1>0, <2>5, <3>1 DEF TypeOK
  <2> HIDE DEF im
  <2> QED BY <2>2, <2>5, <2>6, <2>7 DEF TInv, TypeOK, disk, rotation, history
<1>19. CASE ReadBadRecord
  <2>1. Ended /\ UNCHANGED <<disk, history, faults>>
    BY <1>19 DEF ReadBadRecord
  <2>2. /\ mode' = "down" /\ table' \in Table /\ active' \in BOOLEAN
        /\ ops' \in Seq(Op) /\ parked' \subseteq Seq(Op)
        /\ pos' = 0 /\ forced' \in BOOLEAN /\ seqnum' = 1
        /\ new' \in Seq(Record) /\ newImg' \in [0 .. Len(new') -> Image]
        /\ left' \subseteq Key /\ stale' \in Seq(Record) /\ spoilt' \in BOOLEAN
    BY <2>1, EndedType
  <2> QED BY SMTT(30), <2>1, <2>2 DEF TInv, TypeOK, Modes, disk, history
<1>20. CASE FinishClean
  <2>1. /\ mode' = "up" /\ NumberLog /\ active' \in BOOLEAN /\ ops' = <<>> /\ pos' = 0
        /\ UNCHANGED <<table, parked, flushed, synced, forced, seqnum, history,
                       rotation, spoilt, faults>>
    BY <1>20 DEF FinishClean, Recovered
  <2>2. /\ log' \in Seq(Record) /\ Len(log') \in Nat /\ Len(log') >= Len(log)
        /\ img' \in [0 .. Len(log') -> Image]
    BY <2>1, NumberLogType
  <2>3. mode = "reading"
    BY <1>20 DEF FinishClean, AtLogEnd
  <2> QED BY SMTT(30), <2>1, <2>2, <2>3, EmptySeqs
          DEF TInv, TypeOK, Modes, rotation, history
<1>21. CASE FinishRotating
  <2>1. /\ mode' = "rotating" /\ NumberLog /\ active' \in BOOLEAN /\ ops' = <<>>
        /\ pos' = 0 /\ StartRotation /\ forced' = RequiresCleaning
        /\ UNCHANGED <<table, parked, flushed, synced, spoilt>>
    BY <1>21 DEF FinishRotating, Recovered
  <2>2. forced' \in BOOLEAN
    BY <1>0, <2>1 DEF RequiresCleaning, TypeOK
  <2>3. /\ log' \in Seq(Record) /\ Len(log') \in Nat /\ Len(log') >= Len(log)
        /\ img' \in [0 .. Len(log') -> Image]
    BY <2>1, NumberLogType
  <2>4. /\ saved' \subseteq Nat /\ missed' \subseteq saved' /\ faults' \in 0 .. MaxFaults
        /\ seqnum' \in Nat /\ seqnum' >= 1
        /\ new' \in Seq(Record) /\ newImg' \in [0 .. Len(new') -> Image]
        /\ left' \subseteq Key /\ (\A k \in left' : table[k] # Absent)
        /\ stale' \in Seq(Record)
    BY <2>1, StartType
  <2> QED BY SMTT(30), <2>1, <2>2, <2>3, <2>4, EmptySeqs DEF TInv, TypeOK, Modes
<1>22. CASE FinishUnrotated
  <2>1. faults' \in 0 .. MaxFaults
    BY SMTT(30), <1>0, <1>22 DEF FinishUnrotated, NotRotated, Happens, TypeOK
  <2>2. faults' \in 0 .. MaxFaults /\ saved' \subseteq Nat /\ missed' \subseteq saved'
    BY <1>22, <2>1, UnsavedType DEF FinishUnrotated
  <2>3. CASE RequiresCleaning
    <3>1. Ended /\ NumberLog /\ flushed' = Len(log') /\ UNCHANGED synced
      BY <1>22, <2>3 DEF FinishUnrotated
    <3>2. /\ log' \in Seq(Record) /\ Len(log') \in Nat /\ Len(log') >= Len(log)
          /\ img' \in [0 .. Len(log') -> Image]
      BY <3>1, NumberLogType
    <3>3. /\ mode' = "down" /\ table' \in Table /\ active' \in BOOLEAN
          /\ ops' \in Seq(Op) /\ parked' \subseteq Seq(Op)
          /\ pos' = 0 /\ forced' \in BOOLEAN /\ seqnum' = 1
          /\ new' \in Seq(Record) /\ newImg' \in [0 .. Len(new') -> Image]
          /\ left' \subseteq Key /\ stale' \in Seq(Record) /\ spoilt' \in BOOLEAN
      BY <3>1, EndedType
    <3> QED BY SMTT(30), <2>2, <3>1, <3>2, <3>3 DEF TInv, TypeOK, Modes
  <2>4. CASE ~RequiresCleaning
    <3>1. /\ mode' = "up" /\ NumberLog /\ active' \in BOOLEAN /\ ops' = <<>> /\ pos' = 0
          /\ UNCHANGED <<table, parked, flushed, synced, forced, seqnum, rotation, spoilt>>
      BY <1>22, <2>4 DEF FinishUnrotated, Recovered
    <3>2. /\ log' \in Seq(Record) /\ Len(log') \in Nat /\ Len(log') >= Len(log)
          /\ img' \in [0 .. Len(log') -> Image]
      BY <3>1, NumberLogType
    <3>3. mode = "reading"
      BY <1>22 DEF FinishUnrotated, AtLogEnd
    <3> QED BY SMTT(30), <2>2, <3>1, <3>2, <3>3, EmptySeqs
    DEF TInv, TypeOK, Modes, rotation
  <2> QED BY <2>3, <2>4
<1>23. CASE UNCHANGED vars
  BY <1>23 DEF TInv, TypeOK, vars, memory, disk, rotation, history
<1> QED
  BY <1>1, <1>2, <1>3, <1>4, <1>5, <1>6, <1>7, <1>8, <1>9, <1>10, <1>11, <1>12,
     <1>13, <1>14, <1>15, <1>16, <1>17, <1>18, <1>19, <1>20, <1>21, <1>22, <1>23
  DEF Next, Restart

\* There is no log before the first start.
LEMMA TInvInit ==
    ASSUME Init
    PROVE  TInv
BY SMTT(30), ClassAdLogAssumption, ImageTypes
DEF Init, TInv, TypeOK, Modes, NoAds, Table, Ad

----------------------------------------------------------------------------
(* Readers, and chains of images.                                           *)

\* Each image is what the constructor makes of the one before and the next record.
Chain(l, im) ==
    /\ im[0] = Blank
    /\ \A i \in 1 .. Len(l) : im[i] = Read(im[i - 1], l[i])

\* The ads that LogState has written.
Stated == [k \in Key |-> IF k \in left THEN Absent ELSE table[k]]

\* A reader between transactions.
LEMMA HoldingFields ==
    ASSUME NEW t
    PROVE  /\ Holding(t).table = t /\ Holding(t).ops = <<>>
           /\ Holding(t).open = FALSE /\ Holding(t).bad = FALSE
BY DEF Holding

\* What a record does to a reader between transactions (the constructor).
LEMMA ReadHolding ==
    ASSUME NEW t \in Table
    PROVE  /\ Read(Holding(t), Begin) = Opened(t, <<>>)
           /\ \A n : Read(Holding(t), Number(n)) = Holding(t)
           /\ \A r \in Op : Read(Holding(t), r) = Holding(Play(t, r))
<1>1. Read(Holding(t), Begin) = Opened(t, <<>>)
  BY HoldingFields DEF Read, Begin
<1>2. \A n : Read(Holding(t), Number(n)) = Holding(t)
  BY HoldingFields DEF Read, Number
<1>3. ASSUME NEW r \in Op PROVE Read(Holding(t), r) = Holding(Play(t, r))
  BY HoldingFields, ImageTypes, ReadOp
<1> QED BY <1>1, <1>2, <1>3

\* In a transaction, operations wait for its end (the constructor).
LEMMA ReadOpened ==
    ASSUME NEW t \in Table, NEW rs \in Seq(Op)
    PROVE  /\ Read(Opened(t, rs), End) = Holding(PlayAll(t, rs))
           /\ \A r \in Op : Read(Opened(t, rs), r) = Opened(t, Append(rs, r))
<1>0. Opened(t, rs) \in Image /\ End.op = "End"
  BY ImageTypes DEF End
<1>f. /\ Opened(t, rs).table = t /\ Opened(t, rs).ops = rs
      /\ Opened(t, rs).open = TRUE /\ Opened(t, rs).bad = FALSE
  BY DEF Opened
<1>1. Read(Opened(t, rs), End) = Holding(PlayAll(t, rs))
  <2>1. Read(Opened(t, rs), End) =
           Holding(PlayAll(Opened(t, rs).table, Opened(t, rs).ops))
    BY <1>0, <1>f, Zenon DEF Read
  <2> QED BY <1>f, <2>1
<1>2. ASSUME NEW r \in Op PROVE Read(Opened(t, rs), r) = Opened(t, Append(rs, r))
  <2>1. Read(Opened(t, rs), r) =
           Opened(Opened(t, rs).table, Append(Opened(t, rs).ops, r))
    BY <1>0, <1>f, ReadOp
  <2> QED BY <1>f, <2>1
<1> QED BY <1>1, <1>2

\* A part of a record ends the reading.
LEMMA ReadTorn ==
    ASSUME NEW im \in Image
    PROVE  Read(im, Torn) = Broken(im)
<1>1. CASE im.bad
  BY <1>1 DEF Read, Broken, Image
<1>2. CASE ~im.bad
  BY <1>2 DEF Read, Torn
<1> QED BY <1>1, <1>2

\* One record more (AppendLog, LogHistoricalSequenceNumber).
LEMMA ChainWith ==
    ASSUME TypeOK, Chain(log, img), NEW r
    PROVE  /\ Chain(LogWith(r), ImgWith(r))
           /\ Len(LogWith(r)) = Len(log) + 1
           /\ ImgWith(r)[Len(log) + 1] = Read(img[Len(log)], r)
<1>1. log \in Seq(Record) /\ Len(log) \in Nat
  BY SMTT(30) DEF TypeOK
<1>2. /\ Len(LogWith(r)) = Len(log) + 1
      /\ LogWith(r)[Len(log) + 1] = r
      /\ \A i \in 1 .. Len(log) : LogWith(r)[i] = log[i]
  BY SMTT(30), <1>1 DEF LogWith
<1>3. /\ ImgWith(r)[Len(log) + 1] = Read(img[Len(log)], r)
      /\ \A i \in 0 .. Len(log) : ImgWith(r)[i] = img[i]
  BY SMTT(30), <1>1 DEF ImgWith
<1>4. ImgWith(r)[0] = Blank
  BY SMTT(30), <1>1, <1>3 DEF Chain
<1>5. ASSUME NEW i \in 1 .. Len(log) + 1
      PROVE  ImgWith(r)[i] = Read(ImgWith(r)[i - 1], LogWith(r)[i])
  <2>1. CASE i = Len(log) + 1
    BY SMTT(30), <1>1, <1>2, <1>3, <2>1
  <2>2. CASE i \in 1 .. Len(log)
    BY SMTT(30), <1>1, <1>2, <1>3, <2>2 DEF Chain
  <2> QED BY SMTT(30), <1>1, <2>1, <2>2
<1> QED BY <1>2, <1>3, <1>4, <1>5 DEF Chain

\* What the end of the process or of the machine leaves of a log.
LEMMA ChainKept ==
    ASSUME NEW l \in Seq(Record), NEW im \in [0 .. Len(l) -> Image], Chain(l, im),
           NEW k \in 0 .. Len(l), NEW torn \in BOOLEAN
    PROVE  Chain(Kept(l, k, torn), KeptImg(im, k, torn))
<1>1. /\ Len(Kept(l, k, torn)) = IF torn THEN k + 1 ELSE k
      /\ torn => Kept(l, k, torn)[k + 1] = Torn
      /\ \A i \in 1 .. k : Kept(l, k, torn)[i] = l[i]
  <2>1. /\ SubSeq(l, 1, k) \in Seq(Record) /\ Len(SubSeq(l, 1, k)) = k
        /\ \A i \in 1 .. k : SubSeq(l, 1, k)[i] = l[i]
    BY SMTT(30)
  <2>2. Torn \in Record
    BY DEF Record
  <2> HIDE DEF Torn
  <2> QED BY SMTT(30), <2>1, <2>2 DEF Kept
<1>2. /\ torn => KeptImg(im, k, torn)[k + 1] = Broken(im[k])
      /\ \A i \in 0 .. k : KeptImg(im, k, torn)[i] = im[i]
  BY SMTT(30) DEF KeptImg
<1>3. KeptImg(im, k, torn)[0] = Blank
  BY SMTT(30), <1>2 DEF Chain
<1>4. ASSUME NEW i \in 1 .. Len(Kept(l, k, torn))
      PROVE  KeptImg(im, k, torn)[i] =
                Read(KeptImg(im, k, torn)[i - 1], Kept(l, k, torn)[i])
  <2>1. CASE i \in 1 .. k
    <3>1. im[i] = Read(im[i - 1], l[i])
      BY SMTT(30), <2>1 DEF Chain
    <3>2. i \in 0 .. k /\ i - 1 \in 0 .. k
      BY SMTT(30), <2>1
    <3> QED BY <1>1, <1>2, <2>1, <3>1, <3>2
  <2>2. CASE i = k + 1 /\ torn
    <3>1. im[k] \in Image /\ i - 1 = k /\ k \in 0 .. k
      BY SMTT(30), <2>2
    <3> QED BY <1>1, <1>2, <2>2, <3>1, ReadTorn
  <2> QED BY SMTT(30), <1>1, <2>1, <2>2
<1> QED BY <1>3, <1>4 DEF Chain

\* A .tmp file starts with its number and no ads (TruncLog).
LEMMA StartChain ==
    ASSUME TInv, StartRotation, table' = table
    PROVE  Chain(new', newImg') /\ newImg'[Len(new')] = Holding(Stated')
<1>1. new' = <<Number(seqnum + 1)>> /\ newImg' = [i \in 0 .. 1 |-> Blank]
      /\ left' = {k \in Key : table[k] # Absent}
  BY DEF StartRotation
<1>2. Stated' = NoAds
  BY <1>1 DEF Stated, NoAds
<1>3. Read(Blank, Number(seqnum + 1)) = Blank
  <2>1. NoAds \in Table
    BY DEF NoAds, Table, Ad
  <2> QED BY <2>1, ReadHolding DEF Blank
<1>4. Len(new') = 1 /\ new'[1] = Number(seqnum + 1) /\ newImg'[0] = Blank
      /\ newImg'[1] = Blank
  BY SMTT(30), <1>1
<1> QED BY SMTT(30), <1>2, <1>3, <1>4 DEF Chain, Blank

\* LogState adds a link or two to the chain.
LEMMA LogStateLinks ==
    ASSUME TInv, NEW k \in left, LogState(k), Chain(new, newImg)
    PROVE  LET create == [op |-> "New", key |-> k]
               set == [op |-> "Set", key |-> k, val |-> table[k]]
               created == Read(newImg[Len(new)], create)
           IN  /\ Chain(new', newImg')
               /\ newImg'[Len(new')] = IF table[k] = Empty THEN created
                                       ELSE Read(created, set)
<1> DEFINE create == [op |-> "New", key |-> k]
           set == [op |-> "Set", key |-> k, val |-> table[k]]
           created == Read(newImg[Len(new)], create)
<1>1. new \in Seq(Record) /\ Len(new) \in Nat
  BY SMTT(30) DEF TInv, TypeOK
<1>2. /\ new' = new \o IF table[k] = Empty THEN <<create>> ELSE <<create, set>>
      /\ newImg' = [i \in 0 .. Len(new) + IF table[k] = Empty THEN 1 ELSE 2 |->
                        IF i <= Len(new) THEN newImg[i]
                        ELSE IF i = Len(new) + 1 THEN created
                        ELSE Read(created, set)]
  BY DEF LogState
<1>3. created = Read(newImg[Len(new)], create)
  OBVIOUS
<1> HIDE DEF create, set, created
<1>4. newImg[0] = Blank /\ \A i \in 1 .. Len(new) : newImg[i] = Read(newImg[i - 1], new[i])
  BY DEF Chain
<1>5. CASE table[k] = Empty
  <2>1. new' = Append(new, create)
    BY SMTT(30), <1>1, <1>2, <1>5
  <2>2. /\ Len(new') = Len(new) + 1 /\ new'[Len(new) + 1] = create
        /\ \A i \in 1 .. Len(new) : new'[i] = new[i]
    BY SMTT(30), <1>1, <2>1
  <2>3. /\ \A i \in 0 .. Len(new) : newImg'[i] = newImg[i]
        /\ newImg'[Len(new) + 1] = created
    BY SMTT(30), <1>1, <1>2, <1>5
  <2>4. newImg'[0] = Blank
    BY SMTT(30), <1>1, <1>4, <2>3
  <2>5. ASSUME NEW i \in 1 .. Len(new') PROVE newImg'[i] = Read(newImg'[i - 1], new'[i])
    <3>1. CASE i \in 1 .. Len(new)
      <4>1. i \in 0 .. Len(new) /\ i - 1 \in 0 .. Len(new)
        BY SMTT(30), <1>1, <3>1
      <4> QED BY <1>4, <2>2, <2>3, <3>1, <4>1
    <3>2. CASE i = Len(new) + 1
      <4>1. i - 1 = Len(new) /\ Len(new) \in 0 .. Len(new)
        BY SMTT(30), <1>1, <3>2
      <4> QED BY <1>3, <2>2, <2>3, <3>2, <4>1
    <3> QED BY SMTT(30), <1>1, <2>2, <3>1, <3>2
  <2>6. Chain(new', newImg')
    BY <2>4, <2>5 DEF Chain
  <2> QED BY <1>5, <2>2, <2>3, <2>6 DEF created, create, set
<1>6. CASE table[k] # Empty
  <2>1. new' = new \o <<create, set>>
    BY <1>2, <1>6
  <2>2. /\ Len(new') = Len(new) + 2 /\ new'[Len(new) + 1] = create
        /\ new'[Len(new) + 2] = set
        /\ \A i \in 1 .. Len(new) : new'[i] = new[i]
    BY SMTT(30), <1>1, <2>1
  <2>3. /\ \A i \in 0 .. Len(new) : newImg'[i] = newImg[i]
        /\ newImg'[Len(new) + 1] = created
        /\ newImg'[Len(new) + 2] = Read(created, set)
    BY SMTT(30), <1>1, <1>2, <1>6
  <2>4. newImg'[0] = Blank
    BY SMTT(30), <1>1, <1>4, <2>3
  <2>5. ASSUME NEW i \in 1 .. Len(new') PROVE newImg'[i] = Read(newImg'[i - 1], new'[i])
    <3>1. CASE i \in 1 .. Len(new)
      <4>1. i \in 0 .. Len(new) /\ i - 1 \in 0 .. Len(new)
        BY SMTT(30), <1>1, <3>1
      <4> QED BY <1>4, <2>2, <2>3, <3>1, <4>1
    <3>2. CASE i = Len(new) + 1
      <4>1. i - 1 = Len(new) /\ Len(new) \in 0 .. Len(new)
        BY SMTT(30), <1>1, <3>2
      <4> QED BY <1>3, <2>2, <2>3, <3>2, <4>1
    <3>3. CASE i = Len(new) + 2
      <4>1. i - 1 = Len(new) + 1
        BY SMTT(30), <1>1, <3>3
      <4> QED BY <2>2, <2>3, <3>3, <4>1
    <3> QED BY SMTT(30), <1>1, <2>2, <3>1, <3>2, <3>3
  <2>6. Chain(new', newImg')
    BY <2>4, <2>5 DEF Chain
  <2> QED BY <1>6, <2>2, <2>3, <2>6 DEF created, create, set
<1> QED BY <1>5, <1>6

----------------------------------------------------------------------------
(* The numbers of the logs.                                                *)

IsNumber(r) == r.op = "Number"

NumberOf(l) == IF l # <<>> /\ IsNumber(l[1]) THEN l[1].num ELSE 1

\* No number but the first record.
NumberedOnce(l) == \A i \in DOMAIN l : i > 1 => ~IsNumber(l[i])

\* A log begins with its number, or with a part of it.
Headed(l) == l # <<>> => l[1] = Torn \/ (IsNumber(l[1]) /\ NumberedOnce(l))

\* The historical logs of log n, before and after it has been saved as well.
Before(n) == n - MaxHistory .. n - 1

Saved(n) == n - MaxHistory + 1 .. n

\* s are the saved logs, m those among them that should have been removed.
History(n, s, m) ==
    /\ \A i \in s : i <= n
    /\ s \ m \subseteq Before(n) \/ s \ m \subseteq Saved(n)

\* The inductive invariant.
Numbers ==
    /\ Headed(log) /\ NumberedOnce(new) /\ NumberedOnce(stale)
    /\ synced = 0 => NumberOf(log) = 1
    /\ History(NumberOf(log), saved, missed)
    /\ mode = "down" => seqnum = 1
    /\ mode = "reading" => IF pos = 0 THEN seqnum = 1
                           ELSE seqnum = NumberOf(log) /\ log[1] # Torn
    /\ mode \in {"up", "syncing"} => log # <<>> /\ log[1] = Number(seqnum)
    /\ mode = "rotating" => /\ seqnum = NumberOf(log) + 1
                            /\ new # <<>> /\ new[1] = Number(seqnum)
                            /\ ~forced => log # <<>> /\ log[1] # Torn
                            /\ saved \ missed \subseteq Saved(NumberOf(log))
    /\ forced => mode = "rotating"

\* A number is told from other records.
LEMMA NumberKinds ==
    /\ ~IsNumber(Torn) /\ ~IsNumber(Begin) /\ ~IsNumber(End)
    /\ \A r \in Op : ~IsNumber(r)
    /\ \A n : IsNumber(Number(n)) /\ Number(n).num = n /\ Number(n) # Torn
    /\ \A r \in Record : IsNumber(r) => r = Number(r.num) /\ r.num \in Nat
<1>1. /\ ~IsNumber(Torn) /\ ~IsNumber(Begin) /\ ~IsNumber(End)
      /\ \A n : IsNumber(Number(n)) /\ Number(n).num = n
  BY DEF IsNumber, Torn, Begin, End, Number
<1>2. \A r \in Op : ~IsNumber(r)
  BY DEF IsNumber, Op
<1>3. \A n : Number(n) # Torn
  BY <1>1
<1>4. ASSUME NEW r \in Record, IsNumber(r)
      PROVE  r = Number(r.num) /\ r.num \in Nat
  <2>1. r \in [op : {"Number"}, num : Nat]
    BY <1>1, <1>2, <1>4 DEF Record
  <2> QED BY <2>1 DEF Number
<1> QED BY <1>1, <1>2, <1>3, <1>4

\* The number of a log is a number.
LEMMA NumberOfType ==
    ASSUME NEW l \in Seq(Record)
    PROVE  NumberOf(l) \in Nat
<1>1. CASE l # <<>> /\ IsNumber(l[1])
  <2>1. l[1] \in Record
    BY SMTT(30), <1>1
  <2> QED BY <1>1, <2>1, NumberKinds DEF NumberOf
<1>2. CASE ~(l # <<>> /\ IsNumber(l[1]))
  BY <1>2 DEF NumberOf
<1> QED BY <1>1, <1>2

\* What is appended to a log leaves its number alone.
LEMMA LongerLog ==
    ASSUME NEW l \in Seq(Record), NEW h \in Seq(Record), l # <<>>, Headed(l),
           Len(l) <= Len(h), \A i \in 1 .. Len(l) : h[i] = l[i],
           \A i \in Len(l) + 1 .. Len(h) : ~IsNumber(h[i])
    PROVE  h # <<>> /\ h[1] = l[1] /\ Headed(h) /\ NumberOf(h) = NumberOf(l)
<1>1. /\ Len(l) \in Nat /\ Len(h) \in Nat /\ Len(l) >= 1
      /\ DOMAIN l = 1 .. Len(l) /\ DOMAIN h = 1 .. Len(h)
  BY SMTT(30)
<1>2. h # <<>> /\ h[1] = l[1]
  BY SMTT(30), <1>1
<1>3. NumberedOnce(l) => NumberedOnce(h)
  <2> SUFFICES ASSUME NumberedOnce(l), NEW i \in DOMAIN h, i > 1
               PROVE  ~IsNumber(h[i])
    BY DEF NumberedOnce
  <2>1. CASE i \in 1 .. Len(l)
    BY <1>1, <2>1 DEF NumberedOnce
  <2>2. CASE i \in Len(l) + 1 .. Len(h)
    BY <2>2
  <2> QED BY SMTT(30), <1>1, <2>1, <2>2
<1> QED BY <1>2, <1>3 DEF Headed, NumberOf

\* One file behind the other.
LEMMA Joined ==
    ASSUME NEW S, NEW s \in Seq(S), NEW t \in Seq(S)
    PROVE  /\ s \o t \in Seq(S) /\ Len(s \o t) = Len(s) + Len(t)
           /\ \A i \in 1 .. Len(s \o t) :
                 (s \o t)[i] = IF i <= Len(s) THEN s[i] ELSE t[i - Len(s)]
BY SMTT(30)

\* Three sequences.
LEMMA JoinedThrice ==
    ASSUME NEW S, NEW s \in Seq(S), NEW t \in Seq(S), NEW u \in Seq(S)
    PROVE  (s \o t) \o u = s \o (t \o u)
BY SMTT(30)

\* What is cut off a log, too, unless nothing is left.
LEMMA ShorterLog ==
    ASSUME NEW l \in Seq(Record), Headed(l), NEW k \in 0 .. Len(l),
           NEW torn \in BOOLEAN
    PROVE  /\ Headed(Kept(l, k, torn))
           /\ NumberOf(Kept(l, k, torn)) = IF k = 0 THEN 1 ELSE NumberOf(l)
<1> DEFINE h == Kept(l, k, torn)
           tail == IF torn THEN <<Torn>> ELSE <<>>
           s == SubSeq(l, 1, k)
<1>0. Torn \in Record
  BY DEF Record
<1>1. /\ Len(l) \in Nat /\ k \in Nat /\ Torn \in Record
      /\ s \in Seq(Record) /\ Len(s) = k /\ \A i \in 1 .. k : s[i] = l[i]
      /\ DOMAIN l = 1 .. Len(l)
  BY SMTT(30), <1>0
<1>2. tail \in Seq(Record) /\ (\A i \in 1 .. Len(tail) : tail[i] = Torn)
  BY SMTT(30), <1>1
<1>3. h = s \o tail
  BY DEF Kept
<1> HIDE DEF s, tail
<1>4. /\ h \in Seq(Record) /\ Len(h) = k + Len(tail) /\ Len(tail) \in Nat
      /\ \A i \in 1 .. k : h[i] = l[i]
      /\ \A i \in k + 1 .. Len(h) : h[i] = Torn
  <2> HIDE DEF h
  <2>1. /\ h \in Seq(Record) /\ Len(h) = k + Len(tail) /\ Len(tail) \in Nat
        /\ \A i \in 1 .. Len(h) : h[i] = IF i <= k THEN s[i] ELSE tail[i - k]
    <3>1. /\ s \o tail \in Seq(Record) /\ Len(s \o tail) = Len(s) + Len(tail)
          /\ \A i \in 1 .. Len(s \o tail) :
                (s \o tail)[i] = IF i <= Len(s) THEN s[i] ELSE tail[i - Len(s)]
      BY ZenonT(60), <1>1, <1>2, Joined
    <3> QED BY SMTT(30), <1>1, <1>2, <1>3, <3>1
  <2>2. ASSUME NEW i \in k + 1 .. Len(h) PROVE h[i] = Torn
    <3>1. i \in 1 .. Len(h) /\ ~(i <= k) /\ i - k \in 1 .. Len(tail)
      BY SMTT(30), <1>1, <2>1
    <3> QED BY <1>2, <2>1, <3>1
  <2>3. ASSUME NEW i \in 1 .. k PROVE h[i] = l[i]
    <3>1. i \in 1 .. Len(h) /\ i <= k
      BY SMTT(30), <1>1, <2>1
    <3> QED BY <1>1, <2>1, <3>1
  <2> QED BY ZenonT(60), <2>1, <2>2, <2>3
<1>5. CASE k = 0
  <2>1. h # <<>> => h[1] = Torn
    BY SMTT(30), <1>4, <1>5
  <2> HIDE DEF h
  <2>2. Headed(h) /\ NumberOf(h) = 1
    BY <2>1, NumberKinds DEF Headed, NumberOf
  <2> QED BY <1>5, <2>2 DEF h
<1>6. CASE k # 0
  <2> HIDE DEF h
  <2>1. h # <<>> /\ l # <<>> /\ h[1] = l[1]
    BY SMTT(30), <1>1, <1>4, <1>6
  <2>2. NumberedOnce(l) => NumberedOnce(h)
    <3> SUFFICES ASSUME NumberedOnce(l), NEW i \in DOMAIN h, i > 1
                 PROVE  ~IsNumber(h[i])
      BY DEF NumberedOnce
    <3>1. CASE i \in 1 .. k
      BY SMTT(30), <1>1, <1>4, <3>1 DEF NumberedOnce
    <3>2. CASE i \in k + 1 .. Len(h)
      BY <1>4, <3>2, NumberKinds
    <3> QED BY SMTT(30), <1>1, <1>4, <3>1, <3>2
  <2>3. Headed(h) /\ NumberOf(h) = NumberOf(l)
    BY <2>1, <2>2 DEF Headed, NumberOf
  <2> QED BY <1>6, <2>3 DEF h
<1> QED BY <1>5, <1>6

\* The .tmp file has the number of the new log, and no other one.
LEMMA TmpNumber ==
    ASSUME TInv, NumberedOnce(new), NumberedOnce(stale), new # <<>>,
           NEW cut \in BOOLEAN
    PROVE  /\ TmpFile(cut) # <<>> /\ TmpFile(cut)[1] = new[1]
           /\ NumberedOnce(TmpFile(cut))
<1> DEFINE from == IF cut /\ stale # <<>> THEN Len(new) + 2 ELSE Len(new) + 1
           rest == SubSeq(stale, from, Len(stale))
           more == IF cut /\ stale # <<>> THEN <<Torn>> \o rest ELSE rest
           file == TmpFile(cut)
<1>1. /\ new \in Seq(Record) /\ stale \in Seq(Record)
      /\ Len(new) \in Nat /\ Len(stale) \in Nat /\ Len(new) >= 1
      /\ from \in Nat /\ from >= 2
  BY SMTT(30) DEF TInv, TypeOK
<1> HIDE DEF from
<1>2. /\ rest \in Seq(Record)
      /\ \A i \in 1 .. Len(rest) : /\ from + i - 1 \in 1 .. Len(stale)
                                   /\ rest[i] = stale[from + i - 1]
  BY SMTT(30), <1>1
<1>3. \A i \in 1 .. Len(rest) : ~IsNumber(rest[i])
  <2> SUFFICES ASSUME NEW i \in 1 .. Len(rest) PROVE ~IsNumber(rest[i])
    OBVIOUS
  <2>1. from + i - 1 \in DOMAIN stale /\ from + i - 1 > 1
    BY SMTT(30), <1>1, <1>2
  <2> QED BY <1>2, <2>1 DEF NumberedOnce
<1> HIDE DEF rest
<1>4. more \in Seq(Record) /\ \A i \in 1 .. Len(more) : ~IsNumber(more[i])
  <2>0. Torn \in Record /\ ~IsNumber(Torn)
    BY NumberKinds DEF Record
  <2>1. CASE cut /\ stale # <<>>
    <3> HIDE DEF Torn
    <3>1. /\ more = <<Torn>> \o rest /\ <<Torn>> \in Seq(Record)
          /\ Len(rest) \in Nat /\ Len(<<Torn>>) = 1 /\ <<Torn>>[1] = Torn
      BY SMTT(30), <1>2, <2>0, <2>1
    <3> HIDE DEF more
    <3> DEFINE one == <<Torn>>
    <3>2. /\ one \o rest \in Seq(Record) /\ Len(one \o rest) = Len(one) + Len(rest)
          /\ \A i \in 1 .. Len(one \o rest) :
                (one \o rest)[i] = IF i <= Len(one) THEN one[i] ELSE rest[i - Len(one)]
      BY SMTT(30), <1>2, <3>1, Joined
    <3>3. ASSUME NEW i \in 1 .. Len(more) PROVE ~IsNumber(more[i])
      <4>1. CASE i = 1
        BY SMTT(30), <2>0, <3>1, <3>2, <4>1
      <4>2. CASE i # 1
        <5>1. i - 1 \in 1 .. Len(rest) /\ more[i] = rest[i - 1]
          BY SMTT(30), <3>1, <3>2, <4>2
        <5> QED BY <1>3, <5>1
      <4> QED BY <4>1, <4>2
    <3> QED BY <3>1, <3>2, <3>3
  <2>2. CASE ~(cut /\ stale # <<>>)
    BY <1>2, <1>3, <2>2
  <2> QED BY <2>1, <2>2
<1>5. file = new \o more
  <2>1. CASE cut /\ stale # <<>>
    <3>1. file = (new \o <<Torn>>) \o rest /\ more = <<Torn>> \o rest
      BY <2>1 DEF TmpFile, rest, from
    <3>2. <<Torn>> \in Seq(Record)
      BY SMTT(30), NumberKinds DEF Record
    <3> DEFINE one == <<Torn>>
    <3> HIDE DEF more, file, one
    <3>3. one \in Seq(Record) /\ new \in Seq(Record) /\ rest \in Seq(Record)
      BY <1>1, <1>2, <3>2 DEF one
    <3>4. (new \o one) \o rest = new \o (one \o rest)
      BY SMTT(30), <3>3, JoinedThrice
    <3> QED BY <3>1, <3>4 DEF one
  <2>2. CASE ~(cut /\ stale # <<>>)
    BY <2>2 DEF TmpFile, rest, from
  <2> QED BY <2>1, <2>2
<1> HIDE DEF more, file
<1>6. /\ new \o more \in Seq(Record) /\ Len(new \o more) = Len(new) + Len(more)
      /\ \A i \in 1 .. Len(new \o more) :
            (new \o more)[i] = IF i <= Len(new) THEN new[i] ELSE more[i - Len(new)]
  BY <1>1, <1>4, Joined
<1>7. Len(more) \in Nat /\ DOMAIN file = 1 .. Len(new) + Len(more)
  BY SMTT(30), <1>4, <1>5, <1>6
<1>8. file # <<>> /\ file[1] = new[1]
  BY SMTT(30), <1>1, <1>5, <1>6, <1>7
<1>9. ASSUME NEW i \in DOMAIN file, i > 1 PROVE ~IsNumber(file[i])
  <2>1. CASE i <= Len(new)
    <3>1. i \in DOMAIN new /\ file[i] = new[i]
      BY SMTT(30), <1>1, <1>5, <1>6, <1>7, <1>9, <2>1
    <3> QED BY <1>9, <3>1 DEF NumberedOnce
  <2>2. CASE ~(i <= Len(new))
    <3>1. i - Len(new) \in 1 .. Len(more) /\ file[i] = more[i - Len(new)]
      BY SMTT(30), <1>1, <1>5, <1>6, <1>7, <2>2
    <3> QED BY <1>4, <3>1
  <2> QED BY <2>1, <2>2
<1> QED BY <1>8, <1>9 DEF NumberedOnce, file

\* A log that has been saved is the newest of the history, and the oldest goes
\* (SaveHistoricalLogs).
LEMMA SavedHistory ==
    ASSUME TInv, History(seqnum, saved, missed),
           NEW unlinks \in BOOLEAN, SaveHistoricalLogs(unlinks)
    PROVE  /\ History(seqnum, saved', missed')
           /\ saved' \ missed' \subseteq Saved(seqnum)
<1>1. seqnum \in Nat /\ saved \subseteq Nat /\ MaxHistory \in Nat
  BY ClassAdLogAssumption DEF TInv, TypeOK
<1>2. CASE MaxHistory = 0
  <2>1. saved' = saved /\ missed' = missed
    BY <1>2 DEF SaveHistoricalLogs, history
  <2> QED BY SMTT(30), <1>1, <1>2, <2>1 DEF History, Before, Saved
<1>3. CASE MaxHistory # 0
  <2>1. /\ saved' \subseteq saved \cup {seqnum}
        /\ saved' \ missed' \subseteq (saved \ missed) \cup {seqnum}
        /\ seqnum - MaxHistory \notin (saved' \ missed')
    <3>1. seqnum # seqnum - MaxHistory
      BY SMTT(30), <1>1, <1>3
    <3>2. CASE unlinks
      BY <1>3, <3>1, <3>2 DEF SaveHistoricalLogs
    <3>3. CASE ~unlinks
      BY <1>3, <3>1, <3>3 DEF SaveHistoricalLogs
    <3> QED BY <3>2, <3>3
  <2>2. \A i \in saved' : i <= seqnum
    BY SMTT(30), <1>1, <2>1 DEF History
  <2>3. ASSUME NEW n \in saved' \ missed' PROVE n \in Saved(seqnum)
    <3>1. CASE n = seqnum
      BY SMTT(30), <1>1, <1>3, <3>1 DEF Saved
    <3>2. CASE n # seqnum
      <4>1. n \in saved \ missed /\ n # seqnum - MaxHistory /\ n \in Nat
        BY <1>1, <2>1, <2>3, <3>2
      <4>2. n \in Before(seqnum) \/ n \in Saved(seqnum)
        BY <4>1 DEF History
      <4> QED BY SMTT(30), <1>1, <4>1, <4>2 DEF Before, Saved
    <3> QED BY <3>1, <3>2
  <2> QED BY <2>2, <2>3 DEF History
<1> QED BY <1>2, <1>3

\* A rotation that does not begin (NotRotated), or that is cut short (EndedSaving).
LEMMA UnrotatedHistory ==
    ASSUME TInv, History(seqnum, saved, missed), NotRotated
    PROVE  History(seqnum, saved', missed')
BY SavedHistory DEF NotRotated, history

\* The number that the constructor has found, or writes.
LEMMA NumberFound ==
    ASSUME TInv, Numbers, AtLogEnd, NumberLog
    PROVE  /\ seqnum = NumberOf(log) /\ seqnum = NumberOf(log')
           /\ Headed(log') /\ log' # <<>>
           /\ ~RequiresCleaning => log'[1] = Number(seqnum)
           /\ pos > 0 => log' = log /\ log[1] # Torn
<1>1. /\ mode = "reading" /\ AtEnd /\ log \in Seq(Record) /\ Len(log) \in Nat
      /\ pos \in 0 .. Len(log) /\ DOMAIN log = 1 .. Len(log) /\ Headed(log)
  BY SMTT(30), LogFacts DEF AtLogEnd, Numbers
<1>2. CASE pos = 0 /\ log = <<>>
  <2>1. seqnum = 1 /\ NumberOf(log) = 1 /\ log' = <<Number(1)>>
    BY SMTT(30), <1>1, <1>2 DEF Numbers, NumberOf, NumberLog, LogWith
  <2>2. log' # <<>> /\ log'[1] = Number(1) /\ DOMAIN log' = 1 .. 1
    BY SMTT(30), <2>1
  <2>3. Headed(log') /\ NumberOf(log') = 1
    BY SMTT(30), <2>2, NumberKinds DEF Headed, NumberedOnce, NumberOf
  <2> QED BY SMTT(30), <1>2, <2>1, <2>2, <2>3
<1>3. CASE pos = 0 /\ log # <<>>
  <2>1. log[1] = Torn /\ pos < Len(log)
    BY SMTT(30), <1>1, <1>3 DEF AtEnd
  <2>2. seqnum = 1 /\ NumberOf(log) = 1 /\ log' = Append(log, Number(1))
    BY ZenonT(60), <1>1, <1>3, <2>1, NumberKinds DEF Numbers, NumberOf, NumberLog, LogWith
  <2>3. log' # <<>> /\ log'[1] = Torn
    BY SMTT(30), <1>1, <1>3, <2>1, <2>2
  <2>4. Headed(log') /\ NumberOf(log') = 1
    BY <2>3, NumberKinds DEF Headed, NumberOf
  <2> QED BY SMTT(30), <1>3, <2>1, <2>2, <2>3, <2>4 DEF RequiresCleaning
<1>4. CASE pos # 0
  <2>1. /\ log' = log /\ log # <<>> /\ log[1] # Torn
        /\ seqnum = NumberOf(log) /\ log[1] \in Record
    BY SMTT(30), <1>1, <1>4 DEF Numbers, NumberLog
  <2>2. IsNumber(log[1])
    BY <1>1, <2>1 DEF Headed
  <2>3. log[1] = Number(seqnum)
    BY <2>1, <2>2, NumberKinds DEF NumberOf
  <2> QED BY <1>1, <2>1, <2>3
<1> QED BY <1>2, <1>3, <1>4

\* The number of the log that a rotation saves (Rotates).
LEMMA NumberAtRotation ==
    ASSUME TInv, Numbers, Rotates
    PROVE  seqnum = NumberOf(log)
<1>1. CASE mode = "up"
  <2>1. log # <<>> /\ log[1] = Number(seqnum)
    BY <1>1 DEF Numbers
  <2> QED BY <2>1, NumberKinds DEF NumberOf
<1>2. CASE AtLogEnd
  <2>1. /\ mode = "reading" /\ AtEnd /\ Len(log) \in Nat /\ DOMAIN log = 1 .. Len(log)
    BY SMTT(30), <1>2, LogFacts DEF AtLogEnd
  <2>2. CASE pos = 0
    <3>1. seqnum = 1
      BY <2>1, <2>2 DEF Numbers
    <3>2. log # <<>> => log[1] = Torn
      BY SMTT(30), <2>1, <2>2, LogFacts DEF AtEnd
    <3> QED BY <3>1, <3>2, NumberKinds DEF NumberOf
  <2>3. CASE pos # 0
    BY <2>1, <2>3 DEF Numbers
  <2> QED BY <2>2, <2>3
<1> QED BY <1>1, <1>2 DEF Rotates

\* The part of Numbers that does not depend on what the process does.
Filed ==
    /\ Headed(log) /\ NumberedOnce(new) /\ NumberedOnce(stale)
    /\ synced = 0 => NumberOf(log) = 1
    /\ History(NumberOf(log), saved, missed)

\* What a rotation leaves behind.
LEMMA AbandonedNumber ==
    ASSUME TInv, Numbers, mode = "rotating"
    PROVE  NumberedOnce(Abandoned)
BY TmpNumber DEF Numbers, Abandoned

\* A sequence without elements.
LEMMA NoElements ==
    ASSUME NEW S, NEW s \in Seq(S), Len(s) = 0
    PROVE  s = <<>>
BY SMTT(30)

\* The end of the process.
LEMMA NumbersEnded ==
    ASSUME TInv, Numbers, Ended, Headed(log'), synced' = 0 => NumberOf(log') = 1,
           History(NumberOf(log'), saved', missed')
    PROVE  Numbers'
<1>1. NumberedOnce(new') /\ mode' = "down" /\ seqnum' = 1 /\ ~forced'
  BY SMTT(30) DEF Ended, NoRotation, NumberedOnce
<1>2. NumberedOnce(stale')
  <2>1. CASE mode = "rotating"
    BY <2>1, AbandonedNumber DEF Ended
  <2>2. CASE mode # "rotating"
    BY <2>2 DEF Ended, Numbers
  <2> QED BY <2>1, <2>2
<1> QED BY <1>1, <1>2 DEF Numbers

\* A log that is in use.
LEMMA NumbersUp ==
    ASSUME Filed', mode' \in {"up", "syncing"}, ~forced',
           log' # <<>>, log'[1] = Number(seqnum')
    PROVE  Numbers'
BY DEF Numbers, Filed

\* A rotation starts (StartRotation).
LEMMA NumbersStart ==
    ASSUME TInv, Numbers, StartRotation, mode' = "rotating",
           seqnum = NumberOf(log), NumberOf(log') = seqnum, Headed(log'),
           synced' = synced, ~forced' => log' # <<>> /\ log'[1] # Torn
    PROVE  Numbers'
<1>1. History(seqnum, saved', missed') /\ saved' \ missed' \subseteq Saved(seqnum)
  BY SavedHistory DEF Numbers, StartRotation
<1>2. /\ new' # <<>> /\ new'[1] = Number(seqnum + 1) /\ DOMAIN new' = 1 .. 1
      /\ seqnum' = seqnum + 1 /\ stale' = stale
  BY SMTT(30) DEF StartRotation
<1>3. NumberedOnce(new') /\ NumberedOnce(stale')
  BY SMTT(30), <1>2 DEF NumberedOnce, Numbers
<1> QED BY <1>1, <1>2, <1>3 DEF Numbers, History

\* Every action keeps Numbers.
LEMMA NumbersStep ==
    ASSUME TInv, TInv', Numbers, [Next]_vars
    PROVE  Numbers'
<1>0. /\ TypeOK /\ log \in Seq(Record) /\ ops \in Seq(Op) /\ Len(log) \in Nat
      /\ log' \in Seq(Record) /\ Len(log') \in Nat
      /\ synced \in 0 .. Len(log) /\ synced' \in 0 .. Len(log')
      /\ DOMAIN log = 1 .. Len(log)
  BY SMTT(30), LogFacts, LogFactsAfter
<1>a. Filed
  BY DEF Numbers, Filed
<1>b. mode = "up" => log # <<>> /\ log[1] = Number(seqnum) /\ ~forced
  BY DEF Numbers
<1>c. ASSUME mode = "up", mode' \in {"up", "syncing"}, Len(log) <= Len(log'),
             \A i \in 1 .. Len(log) : log'[i] = log[i],
             \A i \in Len(log) + 1 .. Len(log') : ~IsNumber(log'[i]),
             UNCHANGED <<synced, forced, seqnum, saved, missed, new, stale>>
      PROVE  Numbers'
  <2>1. log' # <<>> /\ log'[1] = log[1] /\ Headed(log') /\ NumberOf(log') = NumberOf(log)
    BY <1>0, <1>a, <1>b, <1>c, LongerLog DEF Filed
  <2>2. Filed'
    BY <1>a, <1>c, <2>1 DEF Filed
  <2> QED BY <1>b, <1>c, <2>1, <2>2, NumbersUp
<1>d. ASSUME mode = "up", mode' \in {"up", "syncing"},
             UNCHANGED <<log, synced, forced, seqnum, saved, missed, new, stale>>
      PROVE  Numbers'
  BY <1>a, <1>b, <1>d, NumbersUp DEF Filed
<1>1. ASSUME NEW r \in Op, NEW nondurable \in BOOLEAN, AppendLog(r, nondurable)
      PROVE  Numbers'
  <2>1. /\ mode = "up" /\ mode' \in {"up", "syncing"} /\ log' = Append(log, r)
        /\ UNCHANGED <<synced, forced, seqnum, saved, missed, new, stale>>
    BY <1>1 DEF AppendLog, AfterWrite, LogWith, history, rotation
  <2>2. r \in Record /\ ~IsNumber(r)
    BY NumberKinds DEF Record
  <2>3. /\ Len(log') = Len(log) + 1 /\ log'[Len(log) + 1] = r
        /\ \A i \in 1 .. Len(log) : log'[i] = log[i]
    BY SMTT(30), <1>0, <2>1, <2>2
  <2>4. /\ Len(log) <= Len(log')
        /\ \A i \in Len(log) + 1 .. Len(log') : ~IsNumber(log'[i])
    BY SMTT(30), <1>0, <2>2, <2>3
  <2> QED BY <1>c, <2>1, <2>3, <2>4
<1>2. ASSUME NEW r \in Op, AppendToTransaction(r) PROVE Numbers'
  BY <1>2, <1>d DEF AppendToTransaction, disk, history, rotation
<1>3. CASE BeginTransaction \/ AbortTransaction \/ getActiveTransaction
  BY <1>3, <1>d DEF BeginTransaction, AbortTransaction, getActiveTransaction, disk,
     history, rotation
<1>4. ASSUME NEW rs \in parked, setActiveTransaction(rs) PROVE Numbers'
  BY <1>4, <1>d DEF setActiveTransaction, disk, history, rotation
<1>e. /\ CommitLog \in Seq(Record) /\ Len(CommitLog) = Len(log) + Len(ops) + 2
      /\ \A i \in 1 .. Len(log) : CommitLog[i] = log[i]
      /\ \A i \in Len(log) + 1 .. Len(CommitLog) : ~IsNumber(CommitLog[i])
  <2> DEFINE one == log \o <<Begin>>
             two == ops \o <<End>>
  <2>1. /\ Begin \in Record /\ End \in Record /\ ops \in Seq(Record)
        /\ ~IsNumber(Begin) /\ ~IsNumber(End) /\ Len(ops) \in Nat
        /\ \A i \in 1 .. Len(ops) : ~IsNumber(ops[i])
    BY SMTT(30), <1>0, NumberKinds DEF Record
  <2> HIDE DEF Begin, End
  <2>2. /\ one \in Seq(Record) /\ Len(one) = Len(log) + 1
        /\ \A i \in 1 .. Len(one) : one[i] = IF i <= Len(log) THEN log[i] ELSE Begin
    BY SMTT(30), <1>0, <2>1
  <2>3. /\ two \in Seq(Record) /\ Len(two) = Len(ops) + 1
        /\ \A i \in 1 .. Len(two) : two[i] = IF i <= Len(ops) THEN ops[i] ELSE End
    BY SMTT(30), <2>1
  <2>4. CommitLog = one \o two
    BY SMTT(30), <1>0, <2>1 DEF CommitLog
  <2> HIDE DEF one, two
  <2>5. /\ one \o two \in Seq(Record) /\ Len(one \o two) = Len(one) + Len(two)
        /\ \A i \in 1 .. Len(one \o two) :
              (one \o two)[i] = IF i <= Len(one) THEN one[i] ELSE two[i - Len(one)]
    BY ZenonT(60), <2>2, <2>3, Joined
  <2>6. Len(CommitLog) = Len(log) + Len(ops) + 2 /\ CommitLog \in Seq(Record)
    BY SMTT(30), <1>0, <2>1, <2>2, <2>3, <2>4, <2>5
  <2>7. ASSUME NEW i \in 1 .. Len(log) PROVE CommitLog[i] = log[i]
    <3>1. i \in 1 .. Len(one) /\ i \in 1 .. Len(one \o two) /\ i <= Len(one) /\ i <= Len(log)
      BY SMTT(30), <1>0, <2>1, <2>2, <2>4, <2>6
    <3> QED BY <2>2, <2>4, <2>5, <3>1
  <2>8. ASSUME NEW i \in Len(log) + 1 .. Len(CommitLog) PROVE ~IsNumber(CommitLog[i])
    <3>0. i \in 1 .. Len(one \o two)
      BY SMTT(30), <1>0, <2>1, <2>4, <2>6
    <3>1. CASE i = Len(log) + 1
      <4>1. i \in 1 .. Len(one) /\ i <= Len(one) /\ ~(i <= Len(log))
        BY SMTT(30), <1>0, <2>2, <3>1
      <4> QED BY <2>1, <2>2, <2>4, <2>5, <3>0, <4>1
    <3>2. CASE i # Len(log) + 1
      <4>1. i - Len(one) \in 1 .. Len(two) /\ ~(i <= Len(one))
        BY SMTT(30), <1>0, <2>1, <2>2, <2>3, <2>6, <3>2
      <4>2. CommitLog[i] = two[i - Len(one)]
        BY <2>4, <2>5, <3>0, <4>1
      <4>3. \A j \in 1 .. Len(two) : ~IsNumber(two[j])
        BY SMTT(30), <2>1, <2>3
      <4> QED BY <4>1, <4>2, <4>3
    <3> QED BY <3>1, <3>2
  <2> QED BY <2>6, <2>7, <2>8
<1>5. ASSUME NEW nondurable \in BOOLEAN, CommitTransaction(nondurable)
      PROVE  Numbers'
  <2>1. /\ mode = "up" /\ mode' \in {"up", "syncing"} /\ (log' = log \/ log' = CommitLog)
        /\ UNCHANGED <<synced, forced, seqnum, saved, missed, new, stale>>
    BY <1>5 DEF CommitTransaction, AfterWrite, disk, history, rotation
  <2>2. Len(log) <= Len(CommitLog)
    BY SMTT(30), <1>0, <1>e
  <2> QED BY <1>c, <1>d, <1>e, <2>1, <2>2
<1>6. ASSUME NEW k \in Len(log) .. Len(CommitLog) - 1, NEW torn \in BOOLEAN,
             CommitLosing(k, torn)
      PROVE  Numbers'
  <2>1. /\ mode = "up" /\ mode' = "up" /\ log' = Kept(CommitLog, k, torn)
        /\ UNCHANGED <<synced, forced, seqnum, saved, missed, new, stale>>
    BY <1>6 DEF CommitLosing, history, rotation
  <2>2. k \in 0 .. Len(CommitLog) /\ k \in Nat /\ Len(log) <= k
    BY SMTT(30), <1>0, <1>e
  <2> DEFINE first == SubSeq(CommitLog, 1, k)
             end == IF torn THEN <<Torn>> ELSE <<>>
  <2>3. /\ first \in Seq(Record) /\ Len(first) = k
        /\ \A i \in 1 .. k : first[i] = CommitLog[i]
    BY SMTT(30), <1>e, <2>2
  <2>4. /\ end \in Seq(Record) /\ Len(end) \in Nat
        /\ \A i \in 1 .. Len(end) : ~IsNumber(end[i])
    <3>1. Torn \in Record /\ ~IsNumber(Torn)
      BY NumberKinds DEF Record
    <3> HIDE DEF Torn
    <3> QED BY SMTT(30), <3>1
  <2>5. log' = first \o end
    BY <2>1 DEF Kept
  <2> HIDE DEF first, end
  <2>6. /\ Len(log') = k + Len(end)
        /\ \A i \in 1 .. Len(log') :
              log'[i] = IF i <= k THEN first[i] ELSE end[i - k]
    BY <2>3, <2>4, <2>5, Joined
  <2>7. \A i \in 1 .. Len(log) : log'[i] = log[i]
    BY SMTT(30), <1>0, <1>e, <2>2, <2>3, <2>4, <2>6
  <2>8. ASSUME NEW i \in Len(log) + 1 .. Len(log') PROVE ~IsNumber(log'[i])
    <3>1. CASE i <= k
      <4>1. /\ log'[i] = CommitLog[i] /\ i \in Len(log) + 1 .. Len(CommitLog)
        BY SMTT(30), <1>0, <1>e, <2>2, <2>3, <2>4, <2>6, <3>1
      <4> QED BY <1>e, <4>1
    <3>2. CASE ~(i <= k)
      <4>1. log'[i] = end[i - k] /\ i - k \in 1 .. Len(end)
        BY SMTT(30), <1>0, <2>2, <2>4, <2>6, <3>2
      <4> QED BY <2>4, <4>1
    <3> QED BY <3>1, <3>2
  <2>9. Len(log) <= Len(log')
    BY SMTT(30), <1>0, <2>2, <2>4, <2>6
  <2> QED BY ZenonT(60), <1>c, <2>1, <2>7, <2>8, <2>9
<1>7. CASE Sync
  <2>1. /\ mode = "syncing" /\ mode' = "up" /\ synced' = Len(log)
        /\ UNCHANGED <<log, forced, seqnum, saved, missed, new, stale>>
    BY <1>7 DEF Sync, history, rotation
  <2>2. log # <<>> /\ log[1] = Number(seqnum) /\ ~forced
    BY <2>1 DEF Numbers
  <2>3. Filed'
    BY SMTT(30), <1>0, <1>a, <2>1, <2>2 DEF Filed
  <2> QED BY <2>1, <2>2, <2>3, NumbersUp
<1>8. CASE FlushLog
  BY <1>8, <1>d DEF FlushLog, history, rotation
<1>9. CASE TruncLog
  <2>1. /\ mode = "up" /\ mode' = "rotating" /\ StartRotation
        /\ UNCHANGED <<log, synced, forced>>
    BY <1>9 DEF TruncLog, disk
  <2>2. log # <<>> /\ log[1] = Number(seqnum)
    BY <1>b, <2>1
  <2>3. seqnum = NumberOf(log) /\ log[1] # Torn
    BY <2>2, NumberKinds DEF NumberOf
  <2> QED BY <1>a, <2>1, <2>2, <2>3, NumbersStart DEF Filed
<1>10. CASE TruncLogSkipped
  <2>1. /\ mode = "up" /\ mode' = "up" /\ NotRotated
        /\ UNCHANGED <<log, synced, forced, seqnum, new, stale>>
    BY <1>10 DEF TruncLogSkipped, disk, history, rotation
  <2>2. log # <<>> /\ log[1] = Number(seqnum) /\ ~forced
    BY <1>b, <2>1
  <2>3. seqnum = NumberOf(log)
    BY <2>2, NumberKinds DEF NumberOf
  <2>4. History(NumberOf(log'), saved', missed')
    BY <1>a, <2>1, <2>3, UnrotatedHistory DEF Filed
  <2>5. Filed'
    BY <1>a, <2>1, <2>4 DEF Filed
  <2> QED BY <2>1, <2>2, <2>5, NumbersUp
<1>11. ASSUME NEW k \in left, LogState(k) PROVE Numbers'
  <2> DEFINE create == [op |-> "New", key |-> k]
             set == [op |-> "Set", key |-> k, val |-> table[k]]
             more == IF table[k] = Empty THEN <<create>> ELSE <<create, set>>
  <2>1. /\ mode = "rotating" /\ mode' = "rotating" /\ new' = new \o more
        /\ UNCHANGED <<log, synced, forced, seqnum, saved, missed, stale>>
    BY <1>11 DEF LogState, disk, history
  <2>2. /\ new \in Seq(Record) /\ new' \in Seq(Record) /\ Len(new) \in Nat
        /\ Len(new') \in Nat /\ new # <<>> /\ DOMAIN new' = 1 .. Len(new')
        /\ DOMAIN new = 1 .. Len(new)
    BY SMTT(30), <2>1 DEF TInv, TypeOK, Numbers
  <2>3. ~IsNumber(create) /\ ~IsNumber(set)
    BY DEF IsNumber
  <2>4. \A i \in DOMAIN new' : \/ i \in DOMAIN new /\ new'[i] = new[i]
                               \/ new'[i] = create \/ new'[i] = set
    <3> HIDE DEF create, set
    <3>1. CASE table[k] = Empty
      <4>1. new' = Append(new, create)
        BY SMTT(30), <2>1, <2>2, <3>1
      <4> QED BY SMTT(30), <2>2, <4>1
    <3>2. CASE table[k] # Empty
      <4>1. new' = new \o <<create, set>>
        BY <2>1, <3>2
      <4>2. /\ Len(new') = Len(new) + 2
            /\ new'[Len(new) + 1] = create /\ new'[Len(new) + 2] = set
            /\ \A i \in 1 .. Len(new) : new'[i] = new[i]
        BY SMTT(30), <2>2, <4>1
      <4> QED BY SMTT(30), <2>2, <4>2
    <3> QED BY <3>1, <3>2
  <2>5. new' # <<>> /\ new'[1] = new[1]
    <3> HIDE DEF create, set
    <3>1. more \in {<<create>>, <<create, set>>}
      OBVIOUS
    <3> HIDE DEF more
    <3> QED BY SMTT(30), <2>1, <2>2, <3>1
  <2> HIDE DEF create, set
  <2>6. NumberedOnce(new')
    BY <1>a, <2>3, <2>4 DEF Filed, NumberedOnce
  <2> QED BY ZenonT(60), <2>1, <2>5, <2>6 DEF Numbers
<1>12. ASSUME NEW cut \in BOOLEAN, Rotated(cut) PROVE Numbers'
  <2>1. /\ mode = "rotating" /\ mode' = "up" /\ log' = TmpFile(cut)
        /\ synced' = Len(log') /\ new' = <<>> /\ stale' = <<>> /\ ~forced'
        /\ UNCHANGED <<seqnum, saved, missed>>
    BY <1>12 DEF Rotated, NoRotation, history
  <2>2. /\ new # <<>> /\ new[1] = Number(seqnum) /\ seqnum = NumberOf(log) + 1
        /\ saved \ missed \subseteq Saved(NumberOf(log))
    BY <2>1 DEF Numbers
  <2>3. log' # <<>> /\ log'[1] = Number(seqnum) /\ NumberedOnce(log')
    BY <1>a, <2>1, <2>2, TmpNumber DEF Filed
  <2>4. Headed(log') /\ NumberOf(log') = seqnum
    BY <2>3, NumberKinds DEF Headed, NumberOf
  <2>5. NumberedOnce(new') /\ NumberedOnce(stale')
    BY SMTT(30), <2>1 DEF NumberedOnce
  <2>6. NumberOf(log) \in Nat /\ MaxHistory \in Nat
    BY <1>0, NumberOfType, ClassAdLogAssumption
  <2>7. Saved(NumberOf(log)) = Before(seqnum)
    BY SMTT(30), <2>2, <2>6 DEF Saved, Before
  <2>8. History(NumberOf(log'), saved', missed')
    <3>1. \A i \in saved : i <= NumberOf(log) /\ i \in Nat
      BY <1>0, <1>a DEF Filed, History, TypeOK
    <3>2. \A i \in saved : i <= seqnum
      BY SMTT(30), <2>2, <2>6, <3>1
    <3> QED BY <2>1, <2>2, <2>4, <2>7, <3>2 DEF History
  <2>9. synced' = 0 => NumberOf(log') = 1
    BY <1>0, <2>1, <2>3, NoElements
  <2>10. Filed'
    BY <2>4, <2>5, <2>8, <2>9 DEF Filed
  <2> QED BY <2>1, <2>3, <2>10, NumbersUp
<1>f. ASSUME Ended, UNCHANGED <<log, synced, saved, missed>> PROVE Numbers'
  BY <1>a, <1>f, NumbersEnded DEF Filed
<1>13. CASE RotateFails
  <2>1. mode = "rotating" /\ UNCHANGED <<log, synced, saved, missed>>
    BY <1>13 DEF RotateFails, history
  <2>2. CASE forced
    BY <1>13, <1>f, <2>1, <2>2 DEF RotateFails
  <2>3. CASE ~forced
    <3>1. /\ mode' = "up" /\ seqnum' = seqnum - 1 /\ new' = <<>>
          /\ stale' = Abandoned /\ ~forced'
      BY <1>13, <2>3 DEF RotateFails, NoRotation
    <3>2. /\ log # <<>> /\ log[1] # Torn /\ seqnum = NumberOf(log) + 1
          /\ new # <<>> /\ log[1] \in Record
      BY SMTT(30), <1>0, <2>1, <2>3 DEF Numbers
    <3>3. IsNumber(log[1]) /\ NumberOf(log) \in Nat
      BY <1>0, <1>a, <3>2, NumberOfType DEF Filed, Headed
    <3>4. log[1] = Number(NumberOf(log)) /\ seqnum' = NumberOf(log)
      BY SMTT(30), <3>1, <3>2, <3>3, NumberKinds DEF NumberOf
    <3>5. NumberedOnce(new') /\ NumberedOnce(stale')
      <4>1. NumberedOnce(<<>>)
        BY SMTT(30) DEF NumberedOnce
      <4> QED BY <2>1, <3>1, <4>1, AbandonedNumber
    <3>6. Filed'
      BY <1>a, <2>1, <3>5 DEF Filed
    <3> QED BY <2>1, <3>1, <3>2, <3>4, <3>6, NumbersUp
  <2> QED BY <2>2, <2>3
<1>14. ASSUME NEW k \in 0 .. Len(log), NEW torn \in BOOLEAN,
              torn => k < Len(log), Kill(k, torn) \/ Power(k, torn)
       PROVE  Numbers'
  <2>1. Ended /\ log' = Kept(log, k, torn) /\ EndedSaving
    BY <1>14 DEF Kill, Power
  <2>2. /\ k >= synced /\ (synced' = synced \/ synced' = Len(log'))
    <3>1. flushed \in synced .. Len(log)
      BY <1>0 DEF TypeOK
    <3> QED BY SMTT(30), <1>0, <1>14, <3>1 DEF Kill, Power
  <2>3. Headed(log') /\ NumberOf(log') = IF k = 0 THEN 1 ELSE NumberOf(log)
    BY <1>0, <1>a, <2>1, ShorterLog DEF Filed
  <2>4. NumberOf(log') = NumberOf(log)
    <3>1. CASE k = 0
      <4>1. synced = 0
        BY SMTT(30), <1>0, <2>2, <3>1
      <4> QED BY <1>a, <2>3, <3>1, <4>1 DEF Filed
    <3>2. CASE k # 0
      BY <2>3, <3>2
    <3> QED BY <3>1, <3>2
  <2>5. synced' = 0 => NumberOf(log') = 1
    <3>1. CASE synced' = synced
      BY <1>a, <2>4, <3>1 DEF Filed
    <3>2. CASE synced' = Len(log') /\ synced' = 0
      <4>1. log' = <<>>
        BY <1>0, <3>2, NoElements
      <4> QED BY <4>1 DEF NumberOf
    <3> QED BY <2>2, <3>1, <3>2
  <2>6. History(NumberOf(log), saved', missed')
    <3>1. CASE UNCHANGED history
      BY <1>a, <3>1 DEF Filed, history
    <3>2. CASE Rotates /\ SaveHistoricalLogs(FALSE)
      <4>1. seqnum = NumberOf(log)
        BY <3>2, NumberAtRotation
      <4> QED BY <1>a, <3>2, <4>1, SavedHistory DEF Filed
    <3> QED BY <2>1, <3>1, <3>2 DEF EndedSaving
  <2> QED BY <2>1, <2>3, <2>4, <2>5, <2>6, NumbersEnded
<1>15. CASE Open
  BY <1>15 DEF Open, Numbers, TInv, disk, history, rotation
<1>16. CASE ReadLogEntry
  <2>1. /\ mode = "reading" /\ mode' = "reading" /\ pos' = pos + 1 /\ ~AtEnd
        /\ seqnum' = IF IsNumber(log[pos + 1]) THEN log[pos + 1].num ELSE seqnum
        /\ UNCHANGED <<log, synced, forced, saved, missed, new, stale>>
    BY <1>16 DEF ReadLogEntry, IsNumber, disk, history, rotation
  <2>2. pos \in Nat /\ pos + 1 \in DOMAIN log /\ log[pos + 1] # Torn /\ log # <<>>
    BY SMTT(30), <1>0, <2>1 DEF AtEnd, TypeOK
  <2>3. seqnum' = NumberOf(log) /\ log[1] # Torn
    <3>1. CASE pos = 0
      <4>1. log[1] # Torn
        BY SMTT(30), <2>2, <3>1
      <4>2. IsNumber(log[1])
        BY <1>a, <2>2, <4>1 DEF Filed, Headed
      <4> QED BY SMTT(30), <2>1, <2>2, <3>1, <4>1, <4>2 DEF NumberOf
    <3>2. CASE pos # 0
      <4>1. seqnum = NumberOf(log) /\ log[1] # Torn
        BY <2>1, <3>2 DEF Numbers
      <4>2. NumberedOnce(log)
        BY <1>a, <2>2, <4>1 DEF Filed, Headed
      <4>3. ~IsNumber(log[pos + 1])
        BY SMTT(30), <2>2, <3>2, <4>2 DEF NumberedOnce
      <4> QED BY <2>1, <4>1, <4>3
    <3> QED BY <3>1, <3>2
  <2> QED BY SMTT(30), <2>1, <2>2, <2>3 DEF Numbers
<1>17. CASE ReadBadRecord
  BY <1>17, <1>f DEF ReadBadRecord, disk, history
<1>18. CASE FinishClean
  <2>1. /\ AtLogEnd /\ NumberLog /\ ~RequiresCleaning /\ mode = "reading" /\ mode' = "up"
        /\ UNCHANGED <<synced, forced, seqnum, saved, missed, new, stale>>
    BY <1>18 DEF FinishClean, Recovered, AtLogEnd, history, rotation
  <2>2. /\ seqnum = NumberOf(log) /\ seqnum = NumberOf(log')
        /\ Headed(log') /\ log' # <<>> /\ log'[1] = Number(seqnum)
    BY <2>1, NumberFound
  <2>3. Filed' /\ ~forced'
    BY <1>a, <2>1, <2>2 DEF Filed, Numbers
  <2> QED BY <2>1, <2>2, <2>3, NumbersUp
<1>19. CASE FinishRotating
  <2>1. /\ AtLogEnd /\ NumberLog /\ (~IsClean \/ RequiresCleaning)
        /\ mode' = "rotating" /\ StartRotation /\ forced' = RequiresCleaning
        /\ UNCHANGED synced
    BY <1>19 DEF FinishRotating, Recovered
  <2>2. /\ seqnum = NumberOf(log) /\ seqnum = NumberOf(log')
        /\ Headed(log') /\ log' # <<>>
        /\ ~RequiresCleaning => log'[1] = Number(seqnum)
    BY <2>1, NumberFound
  <2>3. ~forced' => log'[1] # Torn
    BY <2>1, <2>2, NumberKinds
  <2> QED BY <2>1, <2>2, <2>3, NumbersStart
<1>20. CASE FinishUnrotated
  <2>1. /\ AtLogEnd /\ NumberLog /\ mode = "reading"
        /\ NotRotated /\ UNCHANGED synced
    BY <1>20 DEF FinishUnrotated, Recovered, AtLogEnd
  <2>2. /\ seqnum = NumberOf(log) /\ seqnum = NumberOf(log')
        /\ Headed(log') /\ log' # <<>>
        /\ ~RequiresCleaning => log'[1] = Number(seqnum)
    BY <2>1, NumberFound
  <2>3. History(NumberOf(log'), saved', missed')
    BY <1>a, <2>1, <2>2, UnrotatedHistory DEF Filed
  <2>4. synced' = 0 => NumberOf(log') = 1
    BY <1>a, <2>1, <2>2 DEF Filed
  <2>5. CASE RequiresCleaning
    BY <1>20, <2>2, <2>3, <2>4, <2>5, NumbersEnded DEF FinishUnrotated
  <2>6. CASE ~RequiresCleaning
    <3>1. mode' = "up" /\ UNCHANGED <<forced, seqnum, new, stale>>
      BY <1>20, <2>6 DEF FinishUnrotated, history, rotation
    <3>2. Filed' /\ ~forced'
      BY <1>a, <2>1, <2>2, <2>3, <2>4, <3>1 DEF Filed, Numbers
    <3> QED BY <2>2, <2>6, <3>1, <3>2, NumbersUp
  <2> QED BY <2>5, <2>6
<1>21. CASE UNCHANGED vars
  BY <1>21 DEF Numbers, vars, disk, history, rotation
<1> QED
  BY <1>1, <1>2, <1>3, <1>4, <1>5, <1>6, <1>7, <1>8, <1>9, <1>10, <1>11, <1>12,
     <1>13, <1>14, <1>15, <1>16, <1>17, <1>18, <1>19, <1>20, <1>21
  DEF Next, Restart

\* There is no log before the first start.
LEMMA NumbersInitially ==
    ASSUME Init
    PROVE  Numbers
<1>1. /\ log = <<>> /\ new = <<>> /\ stale = <<>> /\ mode = "down" /\ seqnum = 1
      /\ saved = {} /\ missed = {} /\ ~forced
  BY DEF Init
<1>2. Headed(log) /\ NumberedOnce(new) /\ NumberedOnce(stale) /\ NumberOf(log) = 1
  BY SMTT(30), <1>1 DEF Headed, NumberedOnce, NumberOf
<1> QED BY <1>1, <1>2 DEF Numbers, History

----------------------------------------------------------------------------
(* Induction, and what follows for every behaviour.                        *)

INSTANCE WellFoundedInduction

\* A set of numbers has a first one.
LEMMA FirstNatural ==
    ASSUME NEW S \in SUBSET Nat, S # {}
    PROVE  \E n \in S : \A m \in S : ~(m < n)
<1> DEFINE R == {ss \in Nat \X Nat : ss[1] < ss[2]}
<1>1. \E n \in S : \A m \in S : <<m, n>> \notin R
  <2>1. IsWellFoundedOn(R, Nat)
    BY NatLessThanWellFounded DEF OpToRel
  <2> HIDE DEF R
  <2> QED BY <2>1, WFMin
<1>2. \A m, n \in Nat : m < n => <<m, n>> \in R
  OBVIOUS
<1> HIDE DEF R
<1> QED BY <1>1, <1>2

\* A set with 0 and all successors of its numbers has all of them.
LEMMA NatInductionOnSet ==
    ASSUME NEW S, 0 \in S, \A n \in Nat : n \in S => n + 1 \in S
    PROVE  Nat \subseteq S
<1> SUFFICES ASSUME Nat \ S # {} PROVE FALSE
  OBVIOUS
<1>1. PICK n \in Nat \ S : \A m \in Nat \ S : ~(m < n)
  BY FirstNatural
<1>2. n # 0 /\ n - 1 \in Nat /\ n - 1 < n /\ (n - 1) + 1 = n
  BY SMTT(30), <1>1
<1>3. n - 1 \in S
  BY <1>1, <1>2
<1> QED BY <1>1, <1>2, <1>3

\* Induction, for a set of numbers.
LEMMA Inductive == Induction
BY NatInductionOnSet DEF Induction

\* TInv is an invariant.
LEMMA TInvAlways == Spec => []TInv
<1>1. TInv /\ [Next]_vars => TInv'
  BY TInvStep, Inductive
<1> QED BY <1>1, TInvInit, PTL DEF Spec

\* Every operation and every recovery keeps the store well typed: what is flushed
\* has been written, what is synced has been flushed, and there is an image for
\* every prefix of the log (all methods of ClassAdLog).
THEOREM TypeCorrect == Spec => []TypeOK
<1>1. TInv => TypeOK
  BY DEF TInv
<1> QED BY <1>1, TInvAlways, PTL

\* Numbers is an invariant.
LEMMA NumbersAlways == Spec => []Numbers
<1>1. Init => Numbers
  BY NumbersInitially
<1>2. TInv /\ TInv' /\ Numbers /\ [Next]_vars => Numbers'
  BY NumbersStep
<1> QED BY <1>1, <1>2, TInvAlways, PTL DEF Spec

\* The number of a log in use is the one that a reader finds in it, and no saved log
\* has a higher one, whatever fails in a rotation and wherever the process or the
\* machine ends (LogHistoricalSequenceNumber, TruncLog, the constructor).
THEOREM NumberStaysCurrent == Spec => []NumberIsCurrent
<1>1. ASSUME TInv, Numbers PROVE NumberIsCurrent
  <2>1. mode \in {"up", "syncing"} => log[1] = Number(seqnum)
    BY <1>1 DEF Numbers
  <2>2. NumberOf(log) \in Nat /\ MaxHistory \in Nat /\ saved \subseteq Nat
    BY <1>1, LogFacts, NumberOfType, ClassAdLogAssumption DEF TypeOK
  <2>3. \A n \in saved : n <= NumberOf(log)
    BY <1>1 DEF Numbers, History
  <2>4. Serving => NumberOf(log) = seqnum \/ seqnum = NumberOf(log) + 1
    <3>1. CASE mode \in {"up", "syncing"}
      BY <1>1, <3>1, NumberKinds DEF Numbers, NumberOf
    <3>2. CASE mode = "rotating"
      BY <1>1, <3>2 DEF Numbers
    <3> QED BY <3>1, <3>2 DEF Serving
  <2>5. Serving => \A n \in saved : n <= seqnum
    BY SMTT(30), <2>2, <2>3, <2>4
  <2> QED BY <2>1, <2>5 DEF NumberIsCurrent
<1> QED BY <1>1, TInvAlways, NumbersAlways, PTL

----------------------------------------------------------------------------
(* The images of a log are the ones of its records, also where it is bad.  *)

\* Every image follows from the one before and a record.
ChainInv ==
    /\ Chain(log, img)
    /\ mode = "rotating" => Chain(new, newImg)

\* A reader that has met a part of a record goes no further.
LEMMA ReadBad ==
    ASSUME NEW im, im.bad, NEW r
    PROVE  Read(im, r) = im
BY DEF Read

\* A transaction more (Transaction::Commit).
LEMMA CommitLinks ==
    ASSUME TypeOK, Chain(log, img)
    PROVE  /\ Chain(CommitLog, CommitImg)
           /\ Len(CommitLog) = Len(log) + Len(ops) + 2
           /\ \A i \in 1 .. Len(log) : CommitLog[i] = log[i]
           /\ \A i \in 0 .. Len(log) : CommitImg[i] = img[i]
<1> DEFINE len == Len(log)
           n == Len(ops)
           last == img[len]
           opened(i) == IF last.bad THEN last
                        ELSE Opened(last.table, last.ops \o SubSeq(ops, 1, i))
<1>1. /\ log \in Seq(Record) /\ ops \in Seq(Op) /\ len \in Nat /\ n \in Nat
      /\ img \in [0 .. len -> Image]
  BY SMTT(30) DEF TypeOK
<1>2. last \in Image /\ last.table \in Table /\ last.ops \in Seq(Op)
  <2>1. last \in Image
    BY SMTT(30), <1>1
  <2> QED BY <2>1 DEF Image
<1>3. /\ Len(CommitLog) = len + n + 2
      /\ \A i \in 1 .. len : CommitLog[i] = log[i]
      /\ CommitLog[len + 1] = Begin
      /\ \A i \in 1 .. n : CommitLog[len + 1 + i] = ops[i]
      /\ CommitLog[len + n + 2] = End
  BY SMTT(30), <1>1 DEF CommitLog
<1>4. CommitImg = [i \in 0 .. len + n + 2 |->
                     IF i <= len THEN img[i]
                     ELSE IF i < len + n + 2 THEN opened(i - len - 1)
                     ELSE Read(opened(n), End)]
  BY DEF CommitImg
<1> HIDE DEF opened
<1>5. /\ \A i \in 0 .. len : CommitImg[i] = img[i]
      /\ \A i \in 0 .. n : CommitImg[len + 1 + i] = opened(i)
      /\ CommitImg[len + n + 2] = Read(opened(n), End)
  BY SMTT(30), <1>1, <1>4
<1>6. opened(0) = Read(last, Begin)
  <2>1. CASE last.bad
    BY <2>1, ReadBad DEF opened
  <2>2. CASE ~last.bad
    <3>1. last.ops \o SubSeq(ops, 1, 0) = last.ops
      BY SMTT(30), <1>1, <1>2
    <3>2. Read(last, Begin) = Opened(last.table, last.ops)
      BY <2>2 DEF Read, Begin
    <3> QED BY <2>2, <3>1, <3>2 DEF opened
  <2> QED BY <2>1, <2>2
<1>7. ASSUME NEW j \in 1 .. n PROVE opened(j) = Read(opened(j - 1), ops[j])
  <2>1. CASE last.bad
    <3>1. opened(j) = last /\ opened(j - 1) = last
      BY <2>1 DEF opened
    <3> QED BY <2>1, <3>1, ReadBad
  <2>2. CASE ~last.bad
    <3> DEFINE before == SubSeq(ops, 1, j - 1)
    <3>1. /\ before \in Seq(Op) /\ ops[j] \in Op
          /\ SubSeq(ops, 1, j) = Append(before, ops[j])
      <4>1. before \in Seq(Op) /\ ops[j] \in Op
        BY SMTT(30), <1>1
      <4>2. \A i \in 1 .. n : SubSeq(ops, 1, i) = Append(SubSeq(ops, 1, i - 1), ops[i])
        BY SMTT(30), <1>1
      <4> QED BY <4>1, <4>2 DEF before
    <3> HIDE DEF before
    <3>2. last.ops \o before \in Seq(Op)
      BY SMTT(30), <1>2, <3>1
    <3>3. Append(last.ops \o before, ops[j]) = last.ops \o Append(before, ops[j])
      <4> DEFINE first == last.ops
                 e == ops[j]
      <4>1. first \in Seq(Op) /\ before \in Seq(Op) /\ e \in Op
        BY <1>2, <3>1
      <4> HIDE DEF first, e
      <4>2. Append(first \o before, e) = first \o Append(before, e)
        BY SMTT(30), <4>1
      <4> QED BY <4>2 DEF first, e
    <3>4. opened(j) = Opened(last.table, Append(last.ops \o before, ops[j]))
      BY <2>2, <3>1, <3>3 DEF opened
    <3>5. opened(j - 1) = Opened(last.table, last.ops \o before)
      BY <2>2 DEF opened, before
    <3>6. Read(Opened(last.table, last.ops \o before), ops[j]) =
             Opened(last.table, Append(last.ops \o before, ops[j]))
      BY <1>2, <3>1, <3>2, ReadOpened
    <3> QED BY <3>4, <3>5, <3>6
  <2> QED BY <2>1, <2>2
<1>8. ASSUME NEW i \in 1 .. len + n + 2
      PROVE  CommitImg[i] = Read(CommitImg[i - 1], CommitLog[i])
  <2>1. CASE i \in 1 .. len
    <3>1. i \in 0 .. len /\ i - 1 \in 0 .. len
      BY SMTT(30), <1>1, <2>1
    <3> QED BY <1>3, <1>5, <2>1, <3>1 DEF Chain
  <2>2. CASE i = len + 1
    <3>1. 0 \in 0 .. n /\ i = len + 1 + 0 /\ i - 1 = len /\ len \in 0 .. len
      BY SMTT(30), <1>1, <2>2
    <3>2. CommitImg[i] = opened(0) /\ CommitImg[i - 1] = last
      BY <1>5, <3>1
    <3> QED BY <1>3, <1>6, <2>2, <3>2
  <2>3. CASE i \in len + 2 .. len + n + 1
    <3> DEFINE j == i - len - 1
    <3>1. /\ j \in 1 .. n /\ j \in 0 .. n /\ j - 1 \in 0 .. n
          /\ i = len + 1 + j /\ i - 1 = len + 1 + (j - 1)
      BY SMTT(30), <1>1, <2>3
    <3> HIDE DEF j
    <3>2. CommitImg[i] = opened(j) /\ CommitImg[i - 1] = opened(j - 1)
      BY <1>5, <3>1
    <3>3. CommitLog[i] = ops[j]
      BY <1>3, <3>1
    <3> QED BY <1>7, <3>1, <3>2, <3>3
  <2>4. CASE i = len + n + 2
    <3>1. i - 1 = len + 1 + n /\ n \in 0 .. n
      BY SMTT(30), <1>1, <2>4
    <3>2. CommitImg[i - 1] = opened(n)
      BY <1>5, <3>1
    <3> QED BY <1>3, <1>5, <2>4, <3>2
  <2>5. i \in 1 .. len \/ i = len + 1 \/ i \in len + 2 .. len + n + 1 \/ i = len + n + 2
    BY SMTT(30), <1>1
  <2> QED BY <2>1, <2>2, <2>3, <2>4, <2>5
<1>9. CommitImg[0] = Blank
  BY SMTT(30), <1>1, <1>5 DEF Chain
<1> QED BY <1>3, <1>5, <1>8, <1>9 DEF Chain

\* A number more, in a log without records.
LEMMA NumberLogLinks ==
    ASSUME TInv, Chain(log, img), NumberLog
    PROVE  Chain(log', img')
<1>1. CASE pos = 0
  <2>1. log' = LogWith(Number(seqnum)) /\ img' = ImgWith(Number(seqnum))
    BY <1>1 DEF NumberLog
  <2> QED BY <2>1, ChainWith DEF TInv
<1>2. CASE pos # 0
  BY <1>2 DEF NumberLog
<1> QED BY <1>1, <1>2

\* The .tmp file, with what an earlier rotation left in it.
LEMMA TmpLinks ==
    ASSUME TInv, Chain(new, newImg), NEW cut \in BOOLEAN
    PROVE  Chain(TmpFile(cut), TmpImg(cut))
<1>1. new \in Seq(Record) /\ Len(new) \in Nat
  BY SMTT(30) DEF TInv, TypeOK
<1>2. /\ TmpFile(cut) \in Seq(Record)
      /\ \A i \in 1 .. Len(new) : TmpFile(cut)[i] = new[i]
      /\ \A i \in 0 .. Len(TmpFile(cut)) :
            TmpImg(cut)[i] = IF i <= Len(new) THEN newImg[i]
                             ELSE Read(TmpImg(cut)[i - 1], TmpFile(cut)[i])
  BY TmpTypes, Inductive
<1>3. TmpImg(cut)[0] = Blank
  BY SMTT(30), <1>1, <1>2 DEF Chain
<1>4. ASSUME NEW i \in 1 .. Len(TmpFile(cut))
      PROVE  TmpImg(cut)[i] = Read(TmpImg(cut)[i - 1], TmpFile(cut)[i])
  <2>1. i \in 0 .. Len(TmpFile(cut)) /\ i - 1 \in 0 .. Len(TmpFile(cut))
    BY SMTT(30), <1>2
  <2>2. CASE i <= Len(new)
    <3>1. i \in 1 .. Len(new) /\ i - 1 <= Len(new)
      BY SMTT(30), <1>1, <2>2
    <3> QED BY <1>2, <2>1, <2>2, <3>1 DEF Chain
  <2>3. CASE ~(i <= Len(new))
    BY <1>2, <2>1, <2>3
  <2> QED BY <2>2, <2>3
<1> QED BY <1>3, <1>4 DEF Chain

\* Every action of the schedd keeps the chains.
LEMMA ChainStep ==
    ASSUME TInv, ChainInv, [Next]_vars
    PROVE  ChainInv'
<1>0. /\ TypeOK /\ log \in Seq(Record) /\ Len(log) \in Nat
      /\ img \in [0 .. Len(log) -> Image]
  BY LogFacts
<1>a. Chain(log, img) /\ (mode = "rotating" => Chain(new, newImg))
  BY DEF ChainInv
<1>b. ASSUME UNCHANGED disk, UNCHANGED rotation \/ mode' # "rotating",
             mode' = "rotating" => mode = "rotating"
      PROVE  ChainInv'
  BY <1>a, <1>b DEF ChainInv, disk, rotation, Chain
<1>c. ASSUME Chain(log', img'), mode' # "rotating"
      PROVE  ChainInv'
  BY <1>c DEF ChainInv
<1>1. ASSUME NEW r \in Op, NEW nondurable \in BOOLEAN, AppendLog(r, nondurable)
      PROVE  ChainInv'
  <2>1. log' = LogWith(r) /\ img' = ImgWith(r) /\ mode' # "rotating"
    BY <1>1 DEF AppendLog, AfterWrite
  <2> QED BY <1>0, <1>a, <1>c, <2>1, ChainWith
<1>2. ASSUME NEW r \in Op, AppendToTransaction(r) PROVE ChainInv'
  BY <1>b, <1>2 DEF AppendToTransaction
<1>3. CASE BeginTransaction
  BY <1>b, <1>3 DEF BeginTransaction
<1>4. CASE AbortTransaction
  BY <1>b, <1>4 DEF AbortTransaction
<1>5. ASSUME NEW nondurable \in BOOLEAN, CommitTransaction(nondurable) PROVE ChainInv'
  <2>1. CASE ops = <<>>
    BY <1>b, <1>5, <2>1 DEF CommitTransaction
  <2>2. CASE ops # <<>>
    <3>1. log' = CommitLog /\ img' = CommitImg /\ mode' # "rotating"
      BY <1>5, <2>2 DEF CommitTransaction, AfterWrite
    <3> QED BY <1>0, <1>a, <1>c, <3>1, CommitLinks
  <2> QED BY <2>1, <2>2
<1>6. ASSUME NEW k \in Len(log) .. Len(CommitLog) - 1, NEW torn \in BOOLEAN,
             CommitLosing(k, torn)
      PROVE  ChainInv'
  <2>1. /\ log' = Kept(CommitLog, k, torn) /\ img' = KeptImg(CommitImg, k, torn)
        /\ mode' # "rotating"
    BY <1>6 DEF CommitLosing
  <2>2. /\ CommitLog \in Seq(Record) /\ CommitImg \in [0 .. Len(CommitLog) -> Image]
        /\ Len(CommitLog) \in Nat
    BY SMTT(30), <1>0, CommitType, Inductive
  <2>3. Chain(CommitLog, CommitImg)
    BY <1>0, <1>a, CommitLinks
  <2>4. k \in 0 .. Len(CommitLog)
    BY SMTT(30), <1>0, <1>6, <2>2
  <2>5. Chain(Kept(CommitLog, k, torn), KeptImg(CommitImg, k, torn))
    BY <2>2, <2>3, <2>4, ChainKept
  <2> QED BY <1>c, <2>1, <2>5
<1>7. CASE Sync
  BY <1>a, <1>c, <1>7 DEF Sync, Chain
<1>8. CASE FlushLog
  BY <1>a, <1>c, <1>8 DEF FlushLog, Chain
<1>9. CASE getActiveTransaction
  BY <1>b, <1>9 DEF getActiveTransaction
<1>10. ASSUME NEW rs \in parked, setActiveTransaction(rs) PROVE ChainInv'
  BY <1>b, <1>10 DEF setActiveTransaction
<1>11. CASE TruncLog
  <2>1. StartRotation /\ table' = table /\ UNCHANGED disk
    BY <1>11 DEF TruncLog, memory
  <2>2. Chain(new', newImg')
    BY <2>1, StartChain
  <2> QED BY <1>a, <2>1, <2>2 DEF ChainInv, disk, Chain
<1>12. CASE TruncLogSkipped
  BY <1>b, <1>12 DEF TruncLogSkipped
<1>13. ASSUME NEW k \in left, LogState(k) PROVE ChainInv'
  <2>1. mode = "rotating" /\ UNCHANGED disk
    BY <1>13 DEF LogState
  <2>2. Chain(new', newImg')
    BY ZenonT(60), <1>13, <1>a, <2>1, LogStateLinks
  <2> QED BY <1>a, <2>1, <2>2 DEF ChainInv, disk, Chain
<1>14. ASSUME NEW cut \in BOOLEAN, Rotated(cut) PROVE ChainInv'
  <2>1. mode = "rotating" /\ mode' # "rotating" /\ log' = TmpFile(cut) /\ img' = TmpImg(cut)
    BY <1>14 DEF Rotated
  <2> QED BY <1>a, <1>c, <2>1, TmpLinks
<1>15. CASE RotateFails
  <2>1. mode' # "rotating" /\ log' = log /\ img' = img
    BY <1>15 DEF RotateFails, Ended
  <2> QED BY <1>a, <1>c, <2>1
<1>16. ASSUME NEW k \in 0 .. Len(log), NEW torn \in BOOLEAN,
              Kill(k, torn) \/ Power(k, torn)
       PROVE  ChainInv'
  <2>1. /\ log' = Kept(log, k, torn) /\ img' = KeptImg(img, k, torn)
        /\ mode' # "rotating"
    BY <1>16 DEF Kill, Power, Ended
  <2>2. Chain(Kept(log, k, torn), KeptImg(img, k, torn))
    BY <1>0, <1>a, <1>16, ChainKept
  <2> QED BY <1>c, <2>1, <2>2
<1>17. CASE Open
  BY <1>b, <1>17 DEF Open
<1>18. CASE ReadLogEntry
  BY <1>b, <1>18 DEF ReadLogEntry
<1>19. CASE ReadBadRecord
  BY <1>b, <1>19 DEF ReadBadRecord, Ended
<1>20. CASE FinishClean
  <2>1. NumberLog /\ mode' # "rotating"
    BY <1>20 DEF FinishClean, Recovered
  <2> QED BY <1>a, <1>c, <2>1, NumberLogLinks
<1>21. CASE FinishRotating
  <2>1. NumberLog /\ StartRotation /\ table' = table
    BY <1>21 DEF FinishRotating, Recovered
  <2> QED BY <1>a, <2>1, NumberLogLinks, StartChain DEF ChainInv
<1>22. CASE FinishUnrotated
  <2>1. NumberLog /\ mode' # "rotating"
    BY <1>22 DEF FinishUnrotated, Recovered, Ended
  <2> QED BY <1>a, <1>c, <2>1, NumberLogLinks
<1>23. CASE UNCHANGED vars
  BY <1>b, <1>23 DEF vars
<1> QED
  BY SMTT(30), <1>1, <1>2, <1>3, <1>4, <1>5, <1>6, <1>7, <1>8, <1>9, <1>10, <1>11, <1>12,
     <1>13, <1>14, <1>15, <1>16, <1>17, <1>18, <1>19, <1>20, <1>21, <1>22, <1>23
  DEF Next, Restart

\* ChainInv is an invariant.
LEMMA ChainAlways == Spec => []ChainInv
<1>1. ASSUME Init PROVE ChainInv
  <2>1. Chain(log, img)
    BY SMTT(30), <1>1 DEF Init, Chain
  <2> QED BY <1>1, <2>1 DEF Init, ChainInv
<1>2. TInv /\ ChainInv /\ [Next]_vars => ChainInv'
  BY ChainStep
<1> QED BY <1>1, <1>2, TInvAlways, PTL DEF Spec
=============================================================================
