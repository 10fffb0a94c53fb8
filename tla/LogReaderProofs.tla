-------------------------- MODULE LogReaderProofs ---------------------------
(***************************************************************************)
(* What a mirror of the job queue holds, for every set of keys and values, *)
(* every bound, all faults but the end of the machine, and wherever the    *)
(* schedd writes, ends or rotates its log during a poll.                   *)
(*                                                                         *)
(* First, what a step of the schedd does to the file that the reader has   *)
(* open; then, what a load makes of the mirror.                            *)
(***************************************************************************)
EXTENDS LogReader, ClassAdLogProofs

\* Most leaves are first-order; the ones with arithmetic, or much to rewrite, name SMT.
USE Zenon

----------------------------------------------------------------------------
(* What the constructor would hold if the open transaction ended, and the  *)
(* mirror, which plays every operation at once.                            *)

Played(im) == PlayAll(im.table, im.ops)

\* Operations wait in a transaction only.
Waiting(im) == ~im.open => im.ops = <<>>

\* Two ways to play the same operations agree.
LEMMA SameSteps ==
    ASSUME NEW t \in Table, NEW rs \in Seq(Op), NEW qs \in Seq(Op),
           NEW f, NEW g, Plays(f, t, rs), Plays(g, t, qs),
           Len(rs) <= Len(qs), \A i \in 1 .. Len(rs) : qs[i] = rs[i]
    PROVE  g[Len(rs)] = f[Len(rs)]
<1> DEFINE Same == {i \in Nat : i <= Len(rs) => g[i] = f[i]}
<1>1. Len(rs) \in Nat /\ Len(qs) \in Nat
  BY SMTT(30)
<1>2. 0 \in Same
  BY DEF Plays
<1>3. ASSUME NEW i \in Nat, i \in Same PROVE i + 1 \in Same
  <2> SUFFICES ASSUME i + 1 <= Len(rs) PROVE g[i + 1] = f[i + 1]
    BY SMTT(30)
  <2>1. i <= Len(rs) /\ i + 1 <= Len(qs) /\ i + 1 \in 1 .. Len(rs)
    BY SMTT(30), <1>1
  <2>2. f[i + 1] = Play(f[i], rs[i + 1])
    BY OneStep
  <2>3. g[i + 1] = Play(g[i], qs[i + 1])
    BY <2>1, OneStep
  <2>4. g[i] = f[i] /\ qs[i + 1] = rs[i + 1]
    BY <1>3, <2>1
  <2> QED BY <2>2, <2>3, <2>4
<1>4. Nat \subseteq Same
  <2> HIDE DEF Same
  <2> QED BY <1>2, <1>3, NatInductionOnSet
<1>5. Len(rs) \in Same
  BY <1>1, <1>4
<1> QED BY SMTT(30), <1>1, <1>5

\* No operation, and one operation more (Commit).
LEMMA PlayMore ==
    ASSUME NEW t \in Table
    PROVE  /\ PlayAll(t, <<>>) = t
           /\ \A rs \in Seq(Op), r \in Op :
                 PlayAll(t, Append(rs, r)) = Play(PlayAll(t, rs), r)
<1>1. PlayAll(t, <<>>) = t
  <2> DEFINE none == <<>>
  <2>0. none \in Seq(Op) /\ Len(none) = 0
    BY SMTT(30)
  <2> HIDE DEF none
  <2>1. PICK f \in [0 .. Len(none) -> Table] :
           /\ f[0] = t /\ PlayAll(t, none) = f[Len(none)]
           /\ \A j \in 1 .. Len(none) : f[j] = Play(f[j - 1], none[j])
    BY ZenonT(60), <2>0, PlayAllSteps, Inductive
  <2>2. PlayAll(t, none) = t
    BY <2>0, <2>1
  <2> QED BY <2>2 DEF none
<1>2. ASSUME NEW rs \in Seq(Op), NEW r \in Op
      PROVE  PlayAll(t, Append(rs, r)) = Play(PlayAll(t, rs), r)
  <2> DEFINE qs == Append(rs, r)
  <2>1. /\ qs \in Seq(Op) /\ Len(qs) = Len(rs) + 1 /\ Len(rs) \in Nat
        /\ qs[Len(rs) + 1] = r /\ \A i \in 1 .. Len(rs) : qs[i] = rs[i]
    BY SMTT(30)
  <2> HIDE DEF qs
  <2>2. PICK f \in [0 .. Len(rs) -> Table] :
           /\ f[0] = t /\ PlayAll(t, rs) = f[Len(rs)]
           /\ \A j \in 1 .. Len(rs) : f[j] = Play(f[j - 1], rs[j])
    BY PlayAllSteps, Inductive
  <2>3. PICK g \in [0 .. Len(qs) -> Table] :
           /\ g[0] = t /\ PlayAll(t, qs) = g[Len(qs)]
           /\ \A j \in 1 .. Len(qs) : g[j] = Play(g[j - 1], qs[j])
    BY <2>1, PlayAllSteps, Inductive
  <2>4. Plays(f, t, rs) /\ Plays(g, t, qs)
    BY <2>2, <2>3 DEF Plays
  <2>5. g[Len(rs)] = f[Len(rs)]
    BY SMTT(30), <2>1, <2>4, SameSteps
  <2>6. g[Len(rs) + 1] = Play(g[Len(rs)], qs[Len(rs) + 1])
    BY SMTT(30), <2>1, <2>4, OneStep
  <2> QED BY <2>1, <2>2, <2>3, <2>5, <2>6 DEF qs
<1> QED BY <1>1, <1>2

\* The two kinds of readers.
LEMMA PlayedFields ==
    ASSUME NEW t, NEW rs
    PROVE  /\ Played(Opened(t, rs)) = PlayAll(t, rs)
           /\ Waiting(Opened(t, rs)) /\ ~Opened(t, rs).bad
           /\ Played(Holding(t)) = PlayAll(t, <<>>)
           /\ Waiting(Holding(t)) /\ ~Holding(t).bad
<1> DEFINE o == Opened(t, rs)
           h == Holding(t)
<1>1. /\ o.table = t /\ o.ops = rs /\ o.open = TRUE /\ o.bad = FALSE
      /\ h.table = t /\ h.ops = <<>> /\ h.bad = FALSE
  BY DEF Opened, Holding
<1> HIDE DEF o, h
<1>2. Played(o) = PlayAll(t, rs) /\ Played(h) = PlayAll(t, <<>>)
  BY <1>1 DEF Played
<1>3. Waiting(o) /\ Waiting(h)
  BY <1>1, Zenon DEF Waiting
<1>4. ~o.bad /\ ~h.bad
  BY <1>1, Zenon
<1> QED BY <1>2, <1>3, <1>4 DEF o, h

\* The consumer makes a table of a table, and ignores all but operations
\* (ProcessLogEntry).
LEMMA ConsumeKinds ==
    ASSUME NEW t \in Table, NEW r \in Record
    PROVE  /\ Consume(t, r) \in Table
           /\ r \in Op => Consume(t, r) = Play(t, r)
           /\ r \notin Op => Consume(t, r) = t
<1>1. r \in Op => r.op \in {"New", "Destroy", "Set", "Delete"}
  BY DEF Op
<1>2. r \notin Op => r.op \notin {"New", "Destroy", "Set", "Delete"}
  BY RecordKinds
<1> QED BY <1>1, <1>2, PlayType DEF Consume

\* A record that can be read does the same to the mirror as to the constructor, but
\* for transactions that the constructor has not seen the end of.
LEMMA ReadPlayed ==
    ASSUME NEW im \in Image, Waiting(im), NEW r \in Record
    PROVE  /\ Waiting(Read(im, r))
           /\ ~im.bad /\ r # Torn => /\ ~Read(im, r).bad
                                     /\ Played(Read(im, r)) = Consume(Played(im), r)
<1>1. /\ im.table \in Table /\ im.ops \in Seq(Op) /\ im.open \in BOOLEAN
      /\ Played(im) \in Table
  <2>1. im.table \in Table /\ im.ops \in Seq(Op) /\ im.open \in BOOLEAN
    BY DEF Image
  <2> QED BY <2>1, PlayAllType, Inductive DEF Played
<1>2. CASE im.bad
  BY <1>2, ReadBad
<1>3. CASE ~im.bad /\ r \in Op /\ im.open
  <2>1. Read(im, r) = Opened(im.table, Append(im.ops, r))
    BY <1>3, ReadOp
  <2>2. Played(Read(im, r)) = PlayAll(im.table, Append(im.ops, r)) /\ ~Read(im, r).bad
        /\ Waiting(Read(im, r))
    BY <2>1, PlayedFields
  <2>3. PlayAll(im.table, Append(im.ops, r)) = Play(Played(im), r)
    BY <1>1, <1>3, PlayMore DEF Played
  <2> QED BY <1>1, <1>3, <2>2, <2>3, ConsumeKinds
<1>4. CASE ~im.bad /\ r \in Op /\ ~im.open
  <2>1. Read(im, r) = Holding(Play(im.table, r))
    BY <1>4, ReadOp
  <2>2. Played(Read(im, r)) = PlayAll(Play(im.table, r), <<>>) /\ ~Read(im, r).bad
        /\ Waiting(Read(im, r))
    BY <2>1, PlayedFields
  <2>3. Played(Read(im, r)) = Play(im.table, r)
    BY <1>1, <1>4, <2>2, PlayMore, PlayType
  <2>4. Played(im) = im.table
    BY <1>1, <1>4, PlayMore DEF Played, Waiting
  <2> QED BY <1>1, <1>4, <2>2, <2>3, <2>4, ConsumeKinds
<1>5. CASE ~im.bad /\ r = Begin
  <2>1. Read(im, r) = Opened(im.table, im.ops) /\ r \notin Op
    BY <1>5, OpKinds DEF Read, Begin
  <2>2. Played(Read(im, r)) = Played(im) /\ ~Read(im, r).bad /\ Waiting(Read(im, r))
    BY <2>1, PlayedFields DEF Played
  <2> QED BY <1>1, <2>1, <2>2, ConsumeKinds
<1>6. CASE ~im.bad /\ r = End
  <2>1. Read(im, r) = Holding(Played(im)) /\ r \notin Op
    BY <1>6, OpKinds DEF Read, End, Played
  <2>2. Played(Read(im, r)) = PlayAll(Played(im), <<>>) /\ ~Read(im, r).bad
        /\ Waiting(Read(im, r))
    BY <2>1, PlayedFields
  <2> QED BY <1>1, <2>1, <2>2, PlayMore, ConsumeKinds
<1>7. CASE ~im.bad /\ r.op = "Number"
  <2>1. Read(im, r) = im /\ r \notin Op
    BY <1>7, OpKinds DEF Read
  <2> QED BY <1>1, <1>7, <2>1, ConsumeKinds
<1>8. CASE ~im.bad /\ r = Torn
  <2>1. Read(im, r) = Broken(im)
    BY <1>8, ReadTorn
  <2> QED BY SMTT(30), <1>8, <2>1 DEF Waiting, Broken
<1> QED BY <1>2, <1>3, <1>4, <1>5, <1>6, <1>7, <1>8, RecordKinds

\* Along a log, operations wait in transactions only.
LEMMA ChainWaits ==
    ASSUME NEW l \in Seq(Record), NEW im \in [0 .. Len(l) -> Image], Chain(l, im)
    PROVE  \A i \in 0 .. Len(l) : Waiting(im[i])
<1> DEFINE Good == {i \in Nat : i <= Len(l) => Waiting(im[i])}
<1>0. Len(l) \in Nat
  BY SMTT(30)
<1>1. 0 \in Good
  <2>1. im[0] = Holding(NoAds)
    BY DEF Chain, Blank
  <2> QED BY <2>1, PlayedFields
<1>2. ASSUME NEW i \in Nat, i \in Good PROVE i + 1 \in Good
  <2> SUFFICES ASSUME i + 1 <= Len(l) PROVE Waiting(im[i + 1])
    BY SMTT(30)
  <2>1. i \in 0 .. Len(l) /\ i + 1 \in 1 .. Len(l) /\ (i + 1) - 1 = i /\ i <= Len(l)
    BY SMTT(30), <1>0
  <2>2. im[i] \in Image /\ Waiting(im[i]) /\ l[i + 1] \in Record
    BY SMTT(30), <1>2, <2>1
  <2>3. im[i + 1] = Read(im[i], l[i + 1])
    BY <2>1 DEF Chain
  <2> QED BY <2>2, <2>3, ReadPlayed
<1>3. Nat \subseteq Good
  <2> HIDE DEF Good
  <2> QED BY <1>1, <1>2, NatInductionOnSet
<1>4. ASSUME NEW i \in 0 .. Len(l) PROVE Waiting(im[i])
  <2>1. i \in Nat /\ i <= Len(l)
    BY SMTT(30), <1>0
  <2> QED BY <1>3, <2>1
<1> QED BY <1>4

\* p is the mirror after each record of f from start on, with table t before.
Consumes(p, f, start, n, t) ==
    /\ p \in [start .. n -> Table] /\ p[start] = t
    /\ \A i \in start + 1 .. n : p[i] = Consume(p[i - 1], f[i])

\* These are the records from start to end of a log that the constructor would read.
Passes(l, im, f, p, start, end, n, t) ==
    /\ l \in Seq(Record) /\ im \in [0 .. Len(l) -> Image] /\ Chain(l, im)
    /\ start \in Nat /\ end \in start .. Len(l) /\ n \in end .. Len(l)
    /\ Consumes(p, f, start, n, t) /\ ~im[start].bad /\ t = Played(im[start])
    /\ \A i \in start + 1 .. end : f[i] # Torn /\ f[i] = l[i]

\* A load of records that the constructor would read makes the mirror of a prefix
\* of the log the mirror of a longer one (IncrementalLoad).
LEMMA LoadFollows ==
    ASSUME NEW l, NEW im, NEW f, NEW p, NEW start, NEW end, NEW n, NEW t,
           Passes(l, im, f, p, start, end, n, t)
    PROVE  ~im[end].bad /\ p[end] = Played(im[end])
<1>h. /\ l \in Seq(Record) /\ im \in [0 .. Len(l) -> Image] /\ Chain(l, im)
      /\ start \in Nat /\ end \in start .. Len(l) /\ n \in end .. Len(l)
      /\ Consumes(p, f, start, n, t) /\ ~im[start].bad /\ t = Played(im[start])
      /\ \A i \in start + 1 .. end : f[i] # Torn /\ f[i] = l[i]
  BY DEF Passes
<1> USE <1>h
<1> DEFINE Fits(i) == ~im[i].bad /\ p[i] = Played(im[i])
           Good == {i \in Nat : start + i <= end => Fits(start + i)}
<1>a. \A i \in 0 .. Len(l) : Waiting(im[i])
  BY ChainWaits
<1>0. Len(l) \in Nat /\ end \in Nat /\ n \in Nat /\ start <= end /\ end <= n /\ n <= Len(l)
  BY SMTT(30)
<1>1. 0 \in Good
  BY SMTT(30) DEF Consumes
<1> HIDE DEF Fits
<1>2. ASSUME NEW i \in Nat, i \in Good PROVE i + 1 \in Good
  <2> DEFINE j == start + i
  <2> SUFFICES ASSUME j + 1 <= end PROVE Fits(j + 1)
    BY SMTT(30)
  <2>1. /\ j \in 0 .. Len(l) /\ j + 1 \in 1 .. Len(l) /\ (j + 1) - 1 = j /\ j <= end
        /\ j + 1 \in start + 1 .. end /\ j + 1 \in start + 1 .. n /\ j \in Nat
    BY SMTT(30), <1>0
  <2>2. Fits(j)
    BY <1>2, <2>1
  <2> HIDE DEF j
  <2>3. im[j] \in Image /\ Waiting(im[j]) /\ l[j + 1] \in Record
    BY SMTT(30), <1>a, <2>1
  <2>4. im[j + 1] = Read(im[j], l[j + 1])
    BY <2>1 DEF Chain
  <2>5. f[j + 1] # Torn /\ f[j + 1] = l[j + 1]
    BY <2>1
  <2>6. p[j + 1] = Consume(p[j], l[j + 1])
    BY <2>1, <2>5 DEF Consumes
  <2> QED BY <2>2, <2>3, <2>4, <2>5, <2>6, ReadPlayed DEF Fits
<1>3. Nat \subseteq Good
  <2> HIDE DEF Good
  <2> QED BY <1>1, <1>2, NatInductionOnSet
<1>4. end - start \in Good /\ start + (end - start) = end
  BY SMTT(30), <1>0, <1>3
<1>5. Fits(end)
  BY SMTT(30), <1>0, <1>4
<1> QED BY <1>5 DEF Fits

\* The load plays one record after the other, up to one that is refused or to the
\* end of what can be read (IncrementalLoad).
LEMMA LoadSteps ==
    ASSUME NEW f \in Seq(Record), NEW start \in Nat, NEW t \in Table,
           IncrementalLoad(f, start, t), rd' # Fresh
    PROVE  \E end \in start .. Len(f) : \E p :
              /\ Consumes(p, f, start, Len(f), t)
              /\ \A i \in start + 1 .. end : f[i] # Torn
              /\ end = start => ~Complete(f, end + 1)
              /\ \/ rd' = AtRefusal(Advanced(f, start, end, p[end]))
                 \/ rd' \in AtEndOfFile(f, Advanced(f, start, end, p[end]))
<1> DEFINE n == Len(f)
           played == CHOOSE p : p = [i \in start .. n |->
                                       IF i = start THEN t ELSE Consume(p[i - 1], f[i])]
           Good == {i \in Nat : start + i <= n => \E p : Consumes(p, f, start, start + i, t)}
           Typed == {i \in Nat : start + i <= n => played[start + i] \in Table}
<1>0. n \in Nat /\ \A i \in 1 .. n : f[i] \in Record
  BY SMTT(30)
<1>1. PICK end \in start .. n :
          /\ \A i \in start + 1 .. end : f[i] # Torn
          /\ IF end > start /\ Refuses(played[end - 1], f[end])
             THEN rd' = AtRefusal(Advanced(f, start, end, played[end]))
             ELSE /\ ~Complete(f, end + 1)
                  /\ rd' \in AtEndOfFile(f, Advanced(f, start, end, played[end]))
  BY DEF IncrementalLoad
<1>2. start <= n
  BY SMTT(30), <1>0, <1>1
<1>3. 0 \in Good
  <2>1. Consumes([i \in start .. start |-> t], f, start, start, t)
    BY SMTT(30) DEF Consumes
  <2> QED BY SMTT(30), <2>1
<1>4. ASSUME NEW i \in Nat, i \in Good PROVE i + 1 \in Good
  <2> DEFINE j == start + i
  <2> SUFFICES ASSUME j + 1 <= n PROVE \E p : Consumes(p, f, start, j + 1, t)
    BY SMTT(30)
  <2>0. j \in Nat /\ j >= start /\ j <= n /\ j + 1 \in 1 .. n
    BY SMTT(30), <1>0
  <2>1. PICK p : Consumes(p, f, start, j, t)
    BY <1>4, <2>0
  <2> HIDE DEF j
  <2> DEFINE q == [m \in start .. j + 1 |-> IF m <= j THEN p[m] ELSE Consume(p[j], f[j + 1])]
  <2>2. p[j] \in Table /\ f[j + 1] \in Record
    BY SMTT(30), <1>0, <2>0, <2>1 DEF Consumes
  <2>3. Consume(p[j], f[j + 1]) \in Table
    BY <2>2, ConsumeKinds
  <2>4. q \in [start .. j + 1 -> Table] /\ q[start] = t
    BY SMTT(30), <2>0, <2>1, <2>3 DEF Consumes
  <2>5. ASSUME NEW m \in start + 1 .. j + 1 PROVE q[m] = Consume(q[m - 1], f[m])
    <3>1. CASE m <= j
      <4>1. q[m] = p[m] /\ q[m - 1] = p[m - 1] /\ m \in start + 1 .. j
        BY SMTT(30), <2>0, <3>1
      <4> QED BY <2>1, <4>1 DEF Consumes
    <3>2. CASE m = j + 1
      BY SMTT(30), <2>0, <3>2
    <3> QED BY SMTT(30), <2>0, <3>1, <3>2
  <2> HIDE DEF q
  <2> QED BY ZenonT(60), <2>4, <2>5 DEF Consumes
<1>5. n - start \in Good
  <2> HIDE DEF Good
  <2>1. Nat \subseteq Good
    BY <1>3, <1>4, NatInductionOnSet
  <2> QED BY SMTT(30), <1>0, <1>2, <2>1
<1>6. PICK p : Consumes(p, f, start, n, t)
  <2>1. start + (n - start) = n
    BY SMTT(30), <1>0
  <2> QED BY SMTT(30), <1>0, <1>5, <2>1
<1>7. p = [i \in start .. n |-> IF i = start THEN t ELSE Consume(p[i - 1], f[i])]
  <2>1. \A i \in start .. n : p[i] = IF i = start THEN t ELSE Consume(p[i - 1], f[i])
    <3>1. \A i \in start .. n : i = start \/ i \in start + 1 .. n
      BY SMTT(30), <1>0
    <3> QED BY <1>6, <3>1 DEF Consumes
  <2>2. p = [i \in start .. n |-> p[i]]
    BY <1>6 DEF Consumes
  <2> QED BY <2>1, <2>2
<1>8. played = [i \in start .. n |-> IF i = start THEN t ELSE Consume(played[i - 1], f[i])]
  BY <1>7, Zenon
<1> HIDE DEF played
<1>9. 0 \in Typed
  BY SMTT(30), <1>0, <1>2, <1>8
<1>10. ASSUME NEW i \in Nat, i \in Typed PROVE i + 1 \in Typed
  <2> DEFINE j == start + i
  <2> SUFFICES ASSUME j + 1 <= n PROVE played[j + 1] \in Table
    BY SMTT(30)
  <2>0. /\ j <= n /\ j + 1 \in 1 .. n /\ j + 1 \in start .. n
        /\ j + 1 # start /\ (j + 1) - 1 = j
    BY SMTT(30), <1>0
  <2>1. f[j + 1] \in Record /\ played[j] \in Table
    BY <1>0, <1>10, <2>0
  <2> HIDE DEF j
  <2>2. played[j + 1] = Consume(played[j], f[j + 1])
    BY <1>8, <2>0
  <2> QED BY <2>1, <2>2, ConsumeKinds
<1>11. Nat \subseteq Typed
  <2> HIDE DEF Typed
  <2> QED BY <1>9, <1>10, NatInductionOnSet
<1>12. Consumes(played, f, start, n, t)
  <2>1. ASSUME NEW i \in start .. n PROVE played[i] \in Table
    <3>1. i - start \in Nat /\ start + (i - start) = i /\ i <= n
      BY SMTT(30), <1>0
    <3>2. i - start \in Typed
      BY <1>11, <3>1
    <3> QED BY <3>1, <3>2
  <2>2. played \in [start .. n -> Table]
    BY <1>8, <2>1
  <2>3. played[start] = t /\ \A i \in start + 1 .. n : played[i] = Consume(played[i - 1], f[i])
    BY SMTT(30), <1>0, <1>2, <1>8
  <2> QED BY <2>2, <2>3 DEF Consumes
<1>13. end = start => ~Complete(f, end + 1)
  BY SMTT(30), <1>1
<1> QED BY <1>1, <1>12, <1>13

----------------------------------------------------------------------------
(* What a step of the schedd does to the file.                             *)

\* What is in the file stays there.
Grows ==
    /\ flushed <= flushed'
    /\ \A i \in 1 .. flushed : log'[i] = log[i]
    /\ \A i \in 0 .. flushed : img'[i] = img[i]
    /\ mode' # "down" => Len(log) <= Len(log')

\* So it is with a log that is a prefix of the one after it.
LEMMA LongerGrows ==
    ASSUME TInv, TInv', flushed' = flushed \/ flushed' = Len(log'),
           Len(log) <= Len(log'),
           \A i \in 1 .. Len(log) : log'[i] = log[i],
           \A i \in 0 .. Len(log) : img'[i] = img[i]
    PROVE  Grows
<1>0. synced \in 0 .. Len(log) /\ flushed \in synced .. Len(log)
  BY DEF TInv, TypeOK
<1>1. /\ Len(log) \in Nat /\ Len(log') \in Nat
      /\ flushed \in Nat /\ flushed <= Len(log)
  BY SMTT(30), <1>0, LogFacts, LogFactsAfter
<1>2. \A i \in 1 .. flushed : i \in 1 .. Len(log)
  BY SMTT(30), <1>1
<1>3. \A i \in 0 .. flushed : i \in 0 .. Len(log)
  BY SMTT(30), <1>1
<1> QED BY SMTT(30), <1>1, <1>2, <1>3 DEF Grows

\* The constructor numbers a log without records.
LEMMA NumberLogGrows ==
    ASSUME TInv, TInv', NumberLog, flushed' = flushed \/ flushed' = Len(log')
    PROVE  Grows
<1>0. log \in Seq(Record) /\ Len(log) \in Nat /\ img \in [0 .. Len(log) -> Image]
  BY LogFacts
<1>1. CASE pos = 0
  <2>1. log' = LogWith(Number(seqnum)) /\ img' = ImgWith(Number(seqnum))
    BY <1>1 DEF NumberLog
  <2>2. Len(log') = Len(log) + 1 /\ \A i \in 1 .. Len(log) : log'[i] = log[i]
    BY SMTT(30), <1>0, <2>1 DEF LogWith
  <2>3. \A i \in 0 .. Len(log) : img'[i] = img[i]
    BY SMTT(30), <1>0, <2>1 DEF ImgWith
  <2> QED BY SMTT(30), <1>0, <2>2, <2>3, LongerGrows
<1>2. CASE pos # 0
  <2>1. log' = log /\ img' = img
    BY <1>2 DEF NumberLog
  <2> QED BY SMTT(30), <1>0, <2>1, LongerGrows
<1> QED BY <1>1, <1>2

\* Every step of the schedd renames a new file over the log, or leaves what is in
\* the file there, unless the machine ends.
LEMMA ScheddStep ==
    ASSUME TInv, TInv', ChainInv, Next
    PROVE  \/ Renamed /\ \E cut \in BOOLEAN : Rotated(cut)
           \/ ~Renamed /\ Grows
<1>0. /\ TypeOK /\ log \in Seq(Record) /\ Len(log) \in Nat
      /\ img \in [0 .. Len(log) -> Image] /\ seqnum \in Nat
      /\ synced \in 0 .. Len(log) /\ flushed \in synced .. Len(log) /\ flushed \in Nat
  <2>1. TypeOK
    BY DEF TInv
  <2> QED BY SMTT(30), <2>1 DEF TypeOK
<1>a. ASSUME UNCHANGED <<log, img>>, flushed' = flushed \/ flushed' = Len(log')
      PROVE  Grows
  BY SMTT(30), <1>0, <1>a, LongerGrows
<1>b. ASSUME UNCHANGED disk PROVE Grows
  BY <1>a, <1>b DEF disk
<1>c. mode # "rotating" => ~Renamed
  BY DEF Renamed
<1>d. mode' # "up" => ~Renamed
  BY DEF Renamed
<1>1. ASSUME NEW r \in Op, NEW nondurable \in BOOLEAN, AppendLog(r, nondurable)
      PROVE  ~Renamed /\ Grows
  <2>1. log' = LogWith(r) /\ img' = ImgWith(r) /\ flushed' = flushed /\ mode = "up"
    BY <1>1 DEF AppendLog
  <2>2. Len(log') = Len(log) + 1 /\ \A i \in 1 .. Len(log) : log'[i] = log[i]
    BY SMTT(30), <1>0, <2>1 DEF LogWith
  <2>3. \A i \in 0 .. Len(log) : img'[i] = img[i]
    BY SMTT(30), <1>0, <2>1 DEF ImgWith
  <2> QED BY SMTT(30), <1>0, <1>c, <2>1, <2>2, <2>3, LongerGrows
<1>2. ASSUME NEW r \in Op, AppendToTransaction(r) PROVE ~Renamed /\ Grows
  BY <1>b, <1>c, <1>2 DEF AppendToTransaction
<1>3. CASE BeginTransaction
  BY <1>b, <1>c, <1>3 DEF BeginTransaction
<1>4. CASE AbortTransaction
  BY <1>b, <1>c, <1>4 DEF AbortTransaction
<1>5. ASSUME NEW nondurable \in BOOLEAN, CommitTransaction(nondurable)
      PROVE  ~Renamed /\ Grows
  <2>1. CASE ops = <<>>
    BY <1>b, <1>c, <1>5, <2>1 DEF CommitTransaction
  <2>2. CASE ops # <<>>
    <3>1. log' = CommitLog /\ img' = CommitImg /\ flushed' = flushed /\ mode = "up"
      BY <1>5, <2>2 DEF CommitTransaction
    <3>2. /\ Len(CommitLog) = Len(log) + Len(ops) + 2 /\ Len(ops) \in Nat
          /\ \A i \in 1 .. Len(log) : CommitLog[i] = log[i]
          /\ \A i \in 0 .. Len(log) : CommitImg[i] = img[i]
      BY SMTT(30), <1>0, CommitLinks DEF ChainInv, TypeOK
    <3>3. Len(log) <= Len(log')
      BY SMTT(30), <1>0, <3>1, <3>2
    <3> QED BY <1>c, <3>1, <3>2, <3>3, LongerGrows
  <2> QED BY <2>1, <2>2
<1>6. ASSUME NEW k \in Len(log) .. Len(CommitLog) - 1, NEW torn \in BOOLEAN,
             CommitLosing(k, torn)
      PROVE  ~Renamed /\ Grows
  <2>1. /\ log' = Kept(CommitLog, k, torn) /\ img' = KeptImg(CommitImg, k, torn)
        /\ flushed' = flushed /\ mode = "up"
    BY <1>6 DEF CommitLosing
  <2>2. /\ CommitLog \in Seq(Record) /\ Len(CommitLog) \in Nat /\ k \in Nat
        /\ k <= Len(CommitLog) /\ Len(log) <= k
    BY SMTT(30), <1>0, <1>6, CommitType, Inductive
  <2>3. /\ Len(log') = IF torn THEN k + 1 ELSE k
        /\ \A i \in 1 .. k : log'[i] = CommitLog[i]
    <3>1. /\ SubSeq(CommitLog, 1, k) \in Seq(Record)
          /\ Len(SubSeq(CommitLog, 1, k)) = k
          /\ \A i \in 1 .. k : SubSeq(CommitLog, 1, k)[i] = CommitLog[i]
      BY SMTT(30), <2>2
    <3>2. Torn \in Record
      BY DEF Record
    <3> HIDE DEF Torn
    <3> QED BY SMTT(30), <2>1, <2>2, <3>1, <3>2 DEF Kept
  <2>4. \A i \in 0 .. k : img'[i] = CommitImg[i]
    BY SMTT(30), <2>1, <2>2 DEF KeptImg
  <2>5. /\ \A i \in 1 .. Len(log) : CommitLog[i] = log[i]
        /\ \A i \in 0 .. Len(log) : CommitImg[i] = img[i]
    BY <1>0, CommitLinks DEF ChainInv
  <2>6. /\ \A i \in 1 .. Len(log) : log'[i] = log[i]
        /\ \A i \in 0 .. Len(log) : img'[i] = img[i]
    <3>1. \A i \in 1 .. Len(log) : i \in 1 .. k
      BY SMTT(30), <1>0, <2>2
    <3>2. \A i \in 0 .. Len(log) : i \in 0 .. k
      BY SMTT(30), <1>0, <2>2
    <3> QED BY <2>3, <2>4, <2>5, <3>1, <3>2
  <2>7. Len(log) <= Len(log')
    BY SMTT(30), <1>0, <2>2, <2>3
  <2> QED BY <1>c, <2>1, <2>6, <2>7, LongerGrows
<1>7. CASE Sync
  BY <1>a, <1>c, <1>7 DEF Sync
<1>8. CASE FlushLog
  BY <1>a, <1>c, <1>8 DEF FlushLog
<1>9. CASE getActiveTransaction
  BY <1>b, <1>c, <1>9 DEF getActiveTransaction
<1>10. ASSUME NEW rs \in parked, setActiveTransaction(rs) PROVE ~Renamed /\ Grows
  BY <1>b, <1>c, <1>10 DEF setActiveTransaction
<1>11. CASE TruncLog
  BY <1>b, <1>c, <1>11 DEF TruncLog
<1>12. CASE TruncLogSkipped
  BY <1>b, <1>c, <1>12 DEF TruncLogSkipped
<1>13. ASSUME NEW k \in left, LogState(k) PROVE ~Renamed /\ Grows
  BY <1>b, <1>d, <1>13 DEF LogState
<1>14. ASSUME NEW cut \in BOOLEAN, Rotated(cut) PROVE Renamed
  BY <1>14 DEF Rotated, Renamed
<1>15. CASE RotateFails
  <2>1. ~Renamed
    BY SMTT(30), <1>0, <1>15 DEF RotateFails, Renamed, Ended
  <2> QED BY <1>a, <1>15, <2>1 DEF RotateFails
<1>16. ASSUME NEW k \in 0 .. Len(log), NEW torn \in BOOLEAN,
              Kill(k, torn) \/ Power(k, torn)
       PROVE  ~Renamed /\ Grows
  <2>1. Kill(k, torn)
    BY <1>16, LogReaderAssumption DEF Power, Happens
  <2>2. /\ log' = Kept(log, k, torn) /\ img' = KeptImg(img, k, torn)
        /\ flushed' = Len(log') /\ mode' = "down" /\ k >= flushed
    BY <2>1 DEF Kill, Ended
  <2>3. /\ Len(log') = IF torn THEN k + 1 ELSE k
        /\ \A i \in 1 .. k : log'[i] = log[i]
    <3>1. /\ SubSeq(log, 1, k) \in Seq(Record) /\ Len(SubSeq(log, 1, k)) = k
          /\ \A i \in 1 .. k : SubSeq(log, 1, k)[i] = log[i]
      BY SMTT(30), <1>0
    <3>2. Torn \in Record
      BY DEF Record
    <3> HIDE DEF Torn
    <3> QED BY SMTT(30), <2>2, <3>1, <3>2 DEF Kept
  <2>4. \A i \in 0 .. k : img'[i] = img[i]
    BY SMTT(30), <1>0, <2>2 DEF KeptImg
  <2>5. flushed <= flushed'
    BY SMTT(30), <1>0, <2>2, <2>3
  <2>6. \A i \in 1 .. flushed : i \in 1 .. k
    BY SMTT(30), <1>0, <2>2
  <2>7. \A i \in 0 .. flushed : i \in 0 .. k
    BY SMTT(30), <1>0, <2>2
  <2> QED BY <1>d, <2>2, <2>3, <2>4, <2>5, <2>6, <2>7 DEF Grows
<1>17. CASE Open
  BY <1>b, <1>c, <1>17 DEF Open
<1>18. CASE ReadLogEntry
  BY <1>b, <1>c, <1>18 DEF ReadLogEntry
<1>19. CASE ReadBadRecord
  BY <1>b, <1>c, <1>19 DEF ReadBadRecord
<1>20. CASE FinishClean
  BY <1>c, <1>20, NumberLogGrows DEF FinishClean, AtLogEnd, Recovered
<1>21. CASE FinishRotating
  BY <1>c, <1>21, NumberLogGrows DEF FinishRotating, AtLogEnd, Recovered
<1>22. CASE FinishUnrotated
  <2>1. /\ NumberLog /\ mode # "rotating"
        /\ flushed' = flushed \/ flushed' = Len(log')
    BY <1>22 DEF FinishUnrotated, AtLogEnd, Recovered
  <2> QED BY <1>c, <2>1, NumberLogGrows
<1> QED
  BY SMTT(30), <1>1, <1>2, <1>3, <1>4, <1>5, <1>6, <1>7, <1>8, <1>9, <1>10, <1>11, <1>12,
     <1>13, <1>14, <1>15, <1>16, <1>17, <1>18, <1>19, <1>20, <1>21, <1>22
  DEF Next, Restart

----------------------------------------------------------------------------
(* Types.                                                                  *)

\* The types of the reader, and of what stdio has let go.
ReaderTypes ==
    /\ spilled \in 0 .. MaxSpilled
    /\ spilled > 0 => flushed < Len(log)
    /\ rd \in Reader

\* What the types say of the numbers.
LEMMA DiskTypes ==
    ASSUME TInv, ReaderTypes
    PROVE  /\ log \in Seq(Record) /\ Len(log) \in Nat
           /\ img \in [0 .. Len(log) -> Image]
           /\ flushed \in Nat /\ flushed <= Len(log) /\ spilled \in Nat
<1>1. log \in Seq(Record) /\ Len(log) \in Nat /\ img \in [0 .. Len(log) -> Image]
  BY LogFacts
<1>2. synced \in 0 .. Len(log) /\ flushed \in synced .. Len(log)
  BY DEF TInv, TypeOK
<1>3. spilled \in Nat
  BY SMTT(30), LogReaderAssumption DEF ReaderTypes
<1> QED BY SMTT(30), <1>1, <1>2, <1>3

\* The file that is the log.
LEMMA OnDiskRecords ==
    ASSUME TInv, ReaderTypes
    PROVE  /\ OnDisk \in Seq(Record) /\ Len(OnDisk) \in flushed .. flushed + 1
           /\ \A i \in 1 .. flushed : OnDisk[i] = log[i]
           /\ \A i \in flushed + 1 .. Len(OnDisk) : OnDisk[i] = Torn
<1> DEFINE s == SubSeq(log, 1, flushed)
           tail == IF spilled > 0 THEN <<Torn>> ELSE <<>>
<1>1. /\ log \in Seq(Record) /\ Len(log) \in Nat
      /\ flushed \in Nat /\ flushed <= Len(log) /\ spilled \in Nat
  BY DiskTypes
<1>2. s \in Seq(Record) /\ Len(s) = flushed /\ \A i \in 1 .. flushed : s[i] = log[i]
  BY SMTT(30), <1>1
<1>3. Torn \in Record
  BY DEF Record
<1>4. tail \in Seq(Record) /\ Len(tail) \in 0 .. 1 /\ \A i \in 1 .. Len(tail) : tail[i] = Torn
  <2> HIDE DEF Torn
  <2> QED BY SMTT(30), <1>3
<1>5. OnDisk = s \o tail
  BY DEF OnDisk
<1> HIDE DEF s, tail
<1>6. /\ s \o tail \in Seq(Record) /\ Len(s \o tail) = Len(s) + Len(tail)
      /\ \A i \in 1 .. Len(s \o tail) :
            (s \o tail)[i] = IF i <= Len(s) THEN s[i] ELSE tail[i - Len(s)]
  BY <1>2, <1>4, Joined
<1>7. Len(OnDisk) = flushed + Len(tail) /\ Len(OnDisk) \in flushed .. flushed + 1
  BY SMTT(30), <1>1, <1>2, <1>4, <1>5, <1>6
<1>8. ASSUME NEW i \in 1 .. flushed PROVE OnDisk[i] = log[i]
  <2>1. i \in 1 .. Len(s \o tail) /\ i <= Len(s)
    BY SMTT(30), <1>1, <1>2, <1>4, <1>6
  <2> QED BY <1>2, <1>5, <1>6, <2>1
<1>9. ASSUME NEW i \in flushed + 1 .. Len(OnDisk) PROVE OnDisk[i] = Torn
  <2>1. /\ i \in 1 .. Len(s \o tail) /\ ~(i <= Len(s)) /\ i - Len(s) \in 1 .. Len(tail)
    BY SMTT(30), <1>1, <1>2, <1>4, <1>5, <1>6, <1>7
  <2> QED BY <1>4, <1>5, <1>6, <2>1
<1> QED BY <1>5, <1>6, <1>7, <1>8, <1>9

\* The first record of a file that has one is its number.
LEMMA FirstOnDisk ==
    ASSUME TInv, ReaderTypes, Numbers, Complete(OnDisk, 1)
    PROVE  /\ flushed > 0 /\ IsNumber(log[1])
           /\ OnDisk[1].num = NumberOf(log) /\ NumberOf(log) \in Nat
<1>1. /\ OnDisk \in Seq(Record) /\ Len(OnDisk) \in flushed .. flushed + 1
      /\ \A i \in 1 .. flushed : OnDisk[i] = log[i]
      /\ \A i \in flushed + 1 .. Len(OnDisk) : OnDisk[i] = Torn
  BY OnDiskRecords
<1>2. /\ log \in Seq(Record) /\ Len(log) \in Nat
      /\ flushed \in Nat /\ flushed <= Len(log)
  BY DiskTypes
<1>3. 1 <= Len(OnDisk) /\ OnDisk[1] # Torn
  BY DEF Complete
<1>4. flushed > 0
  BY SMTT(30), <1>1, <1>2, <1>3
<1>5. log # <<>> /\ log[1] = OnDisk[1]
  BY SMTT(30), <1>1, <1>2, <1>4
<1>6. IsNumber(log[1])
  BY <1>3, <1>5 DEF Numbers, Headed
<1>7. NumberOf(log) = log[1].num /\ NumberOf(log) \in Nat
  BY <1>2, <1>5, <1>6, NumberOfType DEF NumberOf
<1> QED BY <1>4, <1>5, <1>6, <1>7

\* A file has a size: a part of a record counts for something (st_size).
LEMMA SizeType ==
    ASSUME TInv, ReaderTypes
    PROVE  Size \in Nat
<1>1. flushed \in Nat /\ spilled \in Nat /\ MaxSpilled \in Nat
  BY DiskTypes, LogReaderAssumption
<1>2. ASSUME NEW m \in Nat, NEW n \in Nat
      PROVE  (m + 1) * n \in Nat /\ (n > 0 => (m + 1) * n >= 1)
  <2>1. (m + 1) * n = m * n + n /\ m * n \in Nat
    BY SMTT(30)
  <2> QED BY SMTT(30), <2>1
<1>3. (MaxSpilled + 1) * flushed \in Nat
      /\ (flushed > 0 => (MaxSpilled + 1) * flushed >= 1)
  BY <1>1, <1>2
<1> DEFINE bytes == (MaxSpilled + 1) * flushed
<1>4. Size = bytes + spilled - IF flushed > 0 /\ log[flushed] = Torn THEN 1 ELSE 0
  BY DEF Size
<1>5. bytes \in Nat /\ (flushed > 0 => bytes >= 1)
  BY <1>3
<1> HIDE DEF bytes
<1> QED BY SMTT(30), <1>1, <1>4, <1>5

\* The fields of the reader.
LEMMA ReaderFields ==
    ASSUME NEW r \in Reader
    PROVE  /\ r.mirror \in Table /\ r.next \in Nat /\ r.last \in Entry /\ r.cur \in Entry
           /\ r.size \in Nat /\ r.seq \in Nat /\ r.probedSize \in Nat /\ r.probedSeq \in Nat
           /\ r.load \in {"idle", "bulk", "incremental"}
           /\ r.replaced \in BOOLEAN /\ r.file \in Seq(Record) /\ r.refused \in BOOLEAN
BY DEF Reader

\* A reader that has just been started is one.
LEMMA FreshType == Fresh \in Reader
<1>1. NoAds \in Table
  BY DEF NoAds, Table, Ad
<1>2. [rec |-> NoEntry, off |-> 0] \in Entry
  BY DEF Entry
<1> QED BY SMTT(30), <1>1, <1>2 DEF Fresh, Reader

\* The reader after a load.
LEMMA AdvancedType ==
    ASSUME rd \in Reader, NEW f \in Seq(Record), NEW start \in Nat,
           NEW n \in start .. Len(f), NEW t \in Table
    PROVE  LET r == Advanced(f, start, n, t)
           IN  /\ r \in Reader /\ r.mirror = t /\ r.next = n /\ r.load = "idle"
               /\ ~r.replaced /\ r.probedSeq = rd.probedSeq /\ r.seq = rd.seq
<1> DEFINE last == IF n > start + 1 THEN At(f, n - 1)
                   ELSE IF n = start + 1 THEN rd.cur ELSE rd.last
           cur == IF n > start THEN At(f, n) ELSE rd.cur
<1>0. Len(f) \in Nat /\ n \in Nat
  BY SMTT(30)
<1>1. \A i \in 1 .. Len(f) : At(f, i) \in Entry
  BY SMTT(30) DEF At, Entry
<1>2. rd.cur \in Entry /\ rd.last \in Entry
  BY ReaderFields
<1>3. last \in Entry /\ cur \in Entry
  <2>1. n > start + 1 => n - 1 \in 1 .. Len(f)
    BY SMTT(30), <1>0
  <2>2. n > start => n \in 1 .. Len(f)
    BY SMTT(30), <1>0
  <2> QED BY <1>1, <1>2, <2>1, <2>2
<1> DEFINE one == [rd EXCEPT !.mirror = t, !.next = n, !.last = last]
           two == [one EXCEPT !.cur = cur, !.load = "idle", !.probedSize = 0]
           all == [two EXCEPT !.replaced = FALSE, !.file = <<>>, !.refused = FALSE]
<1>4. Advanced(f, start, n, t) = all
  BY DEF Advanced
<1> HIDE DEF last, cur
<1>5. /\ one \in Reader /\ one.mirror = t /\ one.next = n
      /\ one.probedSeq = rd.probedSeq /\ one.seq = rd.seq
  BY <1>0, <1>3 DEF Reader
<1> HIDE DEF one
<1>6. /\ two \in Reader /\ two.mirror = t /\ two.next = n /\ two.load = "idle"
      /\ two.probedSeq = rd.probedSeq /\ two.seq = rd.seq
  BY <1>3, <1>5 DEF Reader
<1> HIDE DEF two
<1>7. /\ all.mirror = t /\ all.next = n /\ all.load = "idle"
      /\ all.probedSeq = rd.probedSeq /\ all.seq = rd.seq
  BY <1>6 DEF Reader
<1>8. all.replaced = FALSE
  BY <1>6 DEF Reader
<1>9. all \in Reader
  <2> DEFINE no == FALSE
  <2>1. no \in BOOLEAN /\ <<>> \in Seq(Record) /\ two \in Reader
    BY SMTT(30), <1>6
  <2>2. all = [two EXCEPT !.replaced = no, !.file = <<>>, !.refused = no]
    OBVIOUS
  <2> HIDE DEF no, all
  <2> QED BY ZenonT(60), <2>1, <2>2 DEF Reader
<1> HIDE DEF all
<1> QED BY <1>4, <1>7, <1>8, <1>9

\* The end of a load, at a record that is refused or where nothing more can be read
\* (incrementProbeInfo).
LEMMA LoadEnds ==
    ASSUME TInv, ReaderTypes, NEW f, NEW r \in Reader, r.load = "idle",
           ~r.replaced, r.probedSeq = rd.probedSeq, r.seq = rd.seq,
           rd' = AtRefusal(r) \/ rd' \in AtEndOfFile(f, r)
    PROVE  /\ rd' \in Reader /\ rd'.mirror = r.mirror /\ rd'.next = r.next
           /\ rd'.load = "idle" /\ ~rd'.replaced /\ rd'.probedSeq = rd.probedSeq
           /\ rd'.seq = rd.seq \/ rd'.seq = rd.probedSeq
<1>0. /\ rd.probedSize \in Nat /\ rd.probedSeq \in Nat
      /\ r.next \in Nat /\ r.cur \in Entry
  BY ReaderFields DEF ReaderTypes
<1>1. CASE rd' = AtRefusal(r)
  <2> DEFINE no == rd.load = "bulk"
  <2>1. no \in BOOLEAN /\ rd' = [r EXCEPT !.refused = no]
    BY <1>1 DEF AtRefusal
  <2> HIDE DEF no
  <2> QED BY <2>1 DEF Reader
<1> DEFINE observed == [r EXCEPT !.size = rd.probedSize, !.seq = rd.probedSeq]
<1>2. /\ observed \in Reader /\ observed.mirror = r.mirror /\ observed.next = r.next
      /\ observed.load = "idle" /\ ~observed.replaced
      /\ observed.probedSeq = rd.probedSeq /\ observed.seq = rd.probedSeq
  BY <1>0 DEF Reader
<1>3. CASE rd' = observed
  BY <1>2, <1>3
<1>4. ASSUME NEW m \in Mixed,
             rd' = [observed EXCEPT !.last = r.cur, !.cur = [rec |-> m, off |-> r.next]]
      PROVE  /\ rd' \in Reader /\ rd'.mirror = r.mirror /\ rd'.next = r.next
             /\ rd'.load = "idle" /\ ~rd'.replaced /\ rd'.probedSeq = rd.probedSeq
             /\ rd'.seq = rd.probedSeq
  <2>1. m \in Record \cup {NoEntry}
    <3>1. CASE spilled > 0 /\ ~rd.replaced
      <4>1. flushed + 1 \in 1 .. Len(log) /\ log \in Seq(Record)
        BY SMTT(30), <3>1, DiskTypes DEF ReaderTypes
      <4> QED BY SMTT(30), <3>1, <4>1, <1>4 DEF Mixed
    <3>2. CASE ~(spilled > 0 /\ ~rd.replaced)
      BY <1>4, <3>2 DEF Mixed
    <3> QED BY <3>1, <3>2
  <2> DEFINE entry == [rec |-> m, off |-> r.next]
             before == r.cur
  <2>2. entry \in Entry /\ before \in Entry
    BY <1>0, <2>1 DEF Entry
  <2>3. rd' = [observed EXCEPT !.last = before, !.cur = entry]
    BY <1>4
  <2> HIDE DEF observed, entry, before
  <2> QED BY ZenonT(60), <1>2, <2>2, <2>3 DEF Reader
<1>5. \/ rd' = AtRefusal(r) \/ rd' = observed
      \/ \E m \in Mixed :
            rd' = [observed EXCEPT !.last = r.cur, !.cur = [rec |-> m, off |-> r.next]]
  BY DEF AtEndOfFile
<1> HIDE DEF observed
<1> QED BY <1>1, <1>3, <1>4, <1>5

\* The file that the reader has open.
LEMMA FileType ==
    ASSUME TInv, ReaderTypes
    PROVE  File \in Seq(Record)
<1>1. rd.file \in Seq(Record) /\ OnDisk \in Seq(Record)
  BY ReaderFields, OnDiskRecords DEF ReaderTypes
<1> QED BY <1>1 DEF File

\* What a load does (BulkLoad, IncrementalLoad).
LEMMA Loads ==
    ASSUME TInv, ReaderTypes, Load, rd' # Fresh
    PROVE  LET start == IF rd.load = "bulk" THEN 0 ELSE rd.next
               t == IF rd.load = "bulk" THEN NoAds ELSE rd.mirror
           IN  /\ rd' \in Reader /\ rd'.load = "idle" /\ ~rd'.replaced
               /\ rd'.probedSeq = rd.probedSeq
               /\ rd'.seq = rd.seq \/ rd'.seq = rd.probedSeq
               /\ rd'.next \in start .. Len(File)
               /\ \A i \in start + 1 .. rd'.next : File[i] # Torn
               /\ rd'.next = start => ~Complete(File, start + 1)
               /\ \E p : /\ Consumes(p, File, start, Len(File), t)
                         /\ rd'.mirror = p[rd'.next]
<1> DEFINE start == IF rd.load = "bulk" THEN 0 ELSE rd.next
           t == IF rd.load = "bulk" THEN NoAds ELSE rd.mirror
           f == File
<1>1. start \in Nat /\ t \in Table
  <2>1. NoAds \in Table
    BY DEF NoAds, Table, Ad
  <2>2. rd.next \in Nat /\ rd.mirror \in Table
    BY ReaderFields DEF ReaderTypes
  <2> QED BY <2>1, <2>2
<1>2. f \in Seq(Record)
  BY FileType
<1>3. IncrementalLoad(f, start, t)
  BY DEF Load
<1> HIDE DEF start, t, f
<1>4. PICK end \in start .. Len(f) : \E p :
              /\ Consumes(p, f, start, Len(f), t)
              /\ \A i \in start + 1 .. end : f[i] # Torn
              /\ end = start => ~Complete(f, end + 1)
              /\ \/ rd' = AtRefusal(Advanced(f, start, end, p[end]))
                 \/ rd' \in AtEndOfFile(f, Advanced(f, start, end, p[end]))
  BY <1>1, <1>2, <1>3, LoadSteps
<1>p. PICK p :
              /\ Consumes(p, f, start, Len(f), t)
              /\ \A i \in start + 1 .. end : f[i] # Torn
              /\ end = start => ~Complete(f, end + 1)
              /\ \/ rd' = AtRefusal(Advanced(f, start, end, p[end]))
                 \/ rd' \in AtEndOfFile(f, Advanced(f, start, end, p[end]))
  BY <1>4
<1> DEFINE r == Advanced(f, start, end, p[end])
<1>5. p[end] \in Table
  BY <1>p DEF Consumes
<1>6. /\ r \in Reader /\ r.mirror = p[end] /\ r.next = end /\ r.load = "idle"
      /\ ~r.replaced /\ r.probedSeq = rd.probedSeq /\ r.seq = rd.seq
  BY SMTT(30), <1>1, <1>2, <1>5, AdvancedType DEF ReaderTypes
<1>7. rd' = AtRefusal(r) \/ rd' \in AtEndOfFile(f, r)
  BY <1>p
<1> HIDE DEF r
<1>8. /\ rd' \in Reader /\ rd'.mirror = r.mirror /\ rd'.next = r.next
      /\ rd'.load = "idle" /\ ~rd'.replaced /\ rd'.probedSeq = rd.probedSeq
      /\ rd'.seq = rd.seq \/ rd'.seq = rd.probedSeq
  BY <1>6, <1>7, LoadEnds
<1>9. rd'.next = end /\ rd'.mirror = p[rd'.next]
  BY <1>6, <1>8
<1> QED BY ZenonT(60), <1>p, <1>8, <1>9 DEF start, t, f

----------------------------------------------------------------------------
(* The schedd under a reader.                                              *)

\* What holds of the log, whoever reads it.
LogInv == TInv /\ Numbers /\ ChainInv

\* The reader changes nothing of it, and what stdio lets go is only flushed.
LEMMA LogInvStep ==
    ASSUME LogInv, [ReaderNext]_allvars
    PROVE  LogInv'
<1>1. ASSUME [Next]_vars PROVE LogInv'
  <2>1. TInv'
    BY <1>1, TInvStep, Inductive DEF LogInv
  <2>2. Numbers'
    BY <1>1, <2>1, NumbersStep DEF LogInv
  <2>3. ChainInv'
    BY <1>1, ChainStep DEF LogInv
  <2> QED BY <2>1, <2>2, <2>3 DEF LogInv
<1>2. CASE Schedd
  BY <1>1, <1>2 DEF Schedd
<1>3. ASSUME NEW k \in flushed .. Len(log), NEW part \in 0 .. MaxSpilled, Spill(k, part)
      PROVE  LogInv'
  <2>1. UNCHANGED <<mode, memory, log, synced, img, pos, forced, seqnum, saved,
                    missed, rotation, spoilt, faults>>
        /\ flushed' = k
    BY <1>3 DEF Spill, history
  <2>2. flushed' \in synced' .. Len(log')
    <3>1. /\ synced \in 0 .. Len(log) /\ flushed \in synced .. Len(log)
          /\ Len(log) \in Nat
      BY LogFacts DEF LogInv, TInv, TypeOK
    <3>2. k \in synced .. Len(log)
      BY SMTT(30), <3>1
    <3> QED BY <2>1, <3>2
  <2>3. TypeOK'
    BY <2>1, <2>2 DEF LogInv, TInv, TypeOK, memory, rotation
  <2>4. TInv'
    BY <2>1, <2>3 DEF LogInv, TInv, memory, rotation
  <2>5. Numbers'
    BY <2>1 DEF LogInv, Numbers, memory, rotation
  <2>6. ChainInv'
    BY <2>1 DEF LogInv, ChainInv, rotation
  <2> QED BY <2>4, <2>5, <2>6 DEF LogInv
<1>4. CASE UNCHANGED vars
  BY <1>1, <1>4
<1>5. CASE Poll \/ PollClosed \/ Load
  BY <1>4, <1>5 DEF Poll, PollClosed, Load
<1>6. CASE UNCHANGED allvars
  BY <1>4, <1>6 DEF allvars
<1> QED BY <1>2, <1>3, <1>5, <1>6 DEF ReaderNext

\* A rotation makes a log with the next number (TruncLog).
LEMMA RotatedNumber ==
    ASSUME LogInv, LogInv', NEW cut \in BOOLEAN, Rotated(cut)
    PROVE  /\ flushed' > 0 /\ IsNumber(log'[1]) /\ log'[1] = Number(NumberOf(log'))
           /\ NumberOf(log') = NumberOf(log) + 1 /\ NumberOf(log) \in Nat
<1>1. mode = "rotating" /\ mode' = "up" /\ seqnum' = seqnum /\ flushed' = Len(log')
  BY DEF Rotated
<1>2. /\ log \in Seq(Record) /\ log' \in Seq(Record) /\ Len(log') \in Nat
  BY LogFacts, LogFactsAfter DEF LogInv
<1>3. seqnum = NumberOf(log) + 1
  BY <1>1 DEF LogInv, Numbers
<1>4. log' # <<>> /\ log'[1] = Number(seqnum)
  BY <1>1 DEF LogInv, Numbers
<1>5. IsNumber(log'[1]) /\ log'[1].num = seqnum
  BY <1>4, NumberKinds
<1>6. NumberOf(log') = seqnum
  BY <1>4, <1>5 DEF NumberOf
<1>7. flushed' > 0
  BY SMTT(30), <1>1, <1>2, <1>4
<1> QED BY <1>2, <1>3, <1>4, <1>5, <1>6, <1>7, NumberOfType

\* The types are kept.
LEMMA ReaderTypesStep ==
    ASSUME LogInv, LogInv', ReaderTypes, [ReaderNext]_allvars
    PROVE  ReaderTypes'
<1>0. /\ TInv /\ TInv' /\ Numbers /\ ChainInv
      /\ log \in Seq(Record) /\ Len(log) \in Nat
      /\ flushed \in Nat /\ flushed <= Len(log) /\ spilled \in Nat
      /\ rd \in Reader /\ MaxSpilled \in Nat
  BY DiskTypes, LogReaderAssumption DEF LogInv, ReaderTypes
<1>1. CASE Schedd
  <2>1. /\ Next
        /\ spilled' = IF flushed' = flushed /\ mode' # "down" /\ ~Renamed
                      THEN spilled ELSE 0
        /\ rd' = IF Renamed /\ rd.load # "idle" /\ ~rd.replaced
                 THEN [rd EXCEPT !.replaced = TRUE, !.file = log] ELSE rd
    BY <1>1 DEF Schedd
  <2>2. ~Renamed => Grows
    BY <1>0, <2>1, ScheddStep
  <2>3. spilled' > 0 => flushed' < Len(log')
    <3> SUFFICES ASSUME spilled' > 0 PROVE flushed' < Len(log')
      OBVIOUS
    <3>1. spilled' = spilled /\ flushed' = flushed /\ mode' # "down" /\ ~Renamed
      BY SMTT(30), <2>1
    <3>2. Len(log) <= Len(log') /\ flushed < Len(log)
      BY <2>2, <3>1 DEF Grows, ReaderTypes
    <3>3. Len(log') \in Nat
      BY <1>0, LogFactsAfter
    <3> QED BY SMTT(30), <1>0, <3>1, <3>2, <3>3
  <2>4. [rd EXCEPT !.replaced = TRUE, !.file = log] \in Reader
    <3> DEFINE yes == TRUE
    <3>1. yes \in BOOLEAN
      OBVIOUS
    <3>2. [rd EXCEPT !.replaced = TRUE, !.file = log] =
             [rd EXCEPT !.replaced = yes, !.file = log]
      OBVIOUS
    <3> HIDE DEF yes
    <3> QED BY <1>0, <3>1, <3>2 DEF Reader
  <2>5. rd' \in Reader
    BY <1>0, <2>1, <2>4
  <2>6. spilled' \in 0 .. MaxSpilled
    BY SMTT(30), <1>0, <2>1 DEF ReaderTypes
  <2> QED BY <2>3, <2>5, <2>6 DEF ReaderTypes
<1>2. ASSUME NEW k \in flushed .. Len(log), NEW part \in 0 .. MaxSpilled, Spill(k, part)
      PROVE  ReaderTypes'
  <2>1. /\ k = Len(log) => part = 0
        /\ flushed' = k /\ spilled' = part /\ log' = log /\ rd' = rd
    BY <1>2 DEF Spill
  <2> QED BY SMTT(30), <1>0, <2>1 DEF ReaderTypes
<1>a. ASSUME UNCHANGED <<vars, spilled>>, rd' \in Reader PROVE ReaderTypes'
  BY <1>a DEF ReaderTypes, vars, disk
<1>3. CASE Poll
  <2>1. /\ Complete(OnDisk, 1) /\ UNCHANGED <<vars, spilled>>
        /\ rd' = IF Probed(OnDisk) = "idle" THEN rd
                 ELSE [rd EXCEPT !.load = Probed(OnDisk), !.probedSize = Size,
                                 !.probedSeq = OnDisk[1].num]
    BY <1>3 DEF Poll
  <2>2. Probed(OnDisk) \in {"idle", "bulk", "incremental"}
    BY DEF Probed
  <2>3. Size \in Nat
    BY <1>0, SizeType
  <2>4. OnDisk[1].num \in Nat
    BY <1>0, <2>1, FirstOnDisk
  <2> DEFINE how == Probed(OnDisk)
             bytes == Size
             number == OnDisk[1].num
  <2>5. rd' = rd \/ rd' = [rd EXCEPT !.load = how, !.probedSize = bytes, !.probedSeq = number]
    BY <2>1
  <2>6. how \in {"idle", "bulk", "incremental"} /\ bytes \in Nat /\ number \in Nat
    BY <2>2, <2>3, <2>4
  <2> HIDE DEF how, bytes, number
  <2>7. [rd EXCEPT !.load = how, !.probedSize = bytes, !.probedSeq = number] \in Reader
    BY ZenonT(60), <1>0, <2>6 DEF Reader
  <2> QED BY <1>0, <1>a, <2>1, <2>5, <2>7
<1>4. CASE PollClosed
  BY <1>4, <1>a, FreshType DEF PollClosed
<1>5. CASE Load
  <2>1. UNCHANGED <<vars, spilled>>
    BY <1>5 DEF Load
  <2>2. rd' \in Reader
    BY <1>0, <1>5, Loads, FreshType
  <2> QED BY <1>a, <2>1, <2>2
<1>6. CASE UNCHANGED allvars
  BY <1>0, <1>6, <1>a DEF allvars
<1> QED BY <1>1, <1>2, <1>3, <1>4, <1>5, <1>6 DEF ReaderNext

----------------------------------------------------------------------------
(* What the reader has loaded.                                             *)

\* The log is the file with this number.
InFile(q) == log # <<>> /\ log[1] = Number(q)

\* The mirror is what the records that the reader has passed make of no ads.
Loaded ==
    /\ rd.next <= flushed /\ ~img[rd.next].bad
    /\ rd.mirror = Played(img[rd.next])

\* The inductive invariant: a reader between polls has loaded the file it has
\* probed, as far as nextOffset, if that is the log still; one in a poll has that
\* file open, and goes on from there only if it is the one that it has loaded.
Follows ==
    /\ rd.next = 0 => rd.seq = 0 /\ rd.size = 0
    /\ rd.replaced => rd.load # "idle" /\ rd.file # <<>> /\ rd.file[1] # Torn
    /\ rd.next > 0 \/ rd.load # "idle" =>
          /\ flushed > 0 /\ IsNumber(log[1]) /\ rd.probedSeq <= NumberOf(log)
          /\ rd.replaced => rd.probedSeq < NumberOf(log)
    /\ rd.next > 0 => rd.seq <= rd.probedSeq
    /\ rd.load = "idle" /\ rd.next > 0 /\ InFile(rd.probedSeq) => Loaded
    /\ rd.load = "incremental" => rd.next > 0
    /\ rd.load = "incremental" /\ ~rd.replaced => Loaded

\* The number of a log that has one.
LEMMA InFileNumber ==
    ASSUME TInv, ReaderTypes, flushed > 0, IsNumber(log[1])
    PROVE  /\ log # <<>> /\ log[1] \in Record /\ log[1] # Torn
           /\ NumberOf(log) \in Nat
           /\ \A q : InFile(q) <=> q = NumberOf(log)
<1>1. /\ log \in Seq(Record) /\ Len(log) \in Nat
      /\ flushed \in Nat /\ flushed <= Len(log)
  BY DiskTypes
<1>2. log # <<>> /\ log[1] \in Record
  BY SMTT(30), <1>1
<1>3. log[1] = Number(log[1].num) /\ log[1].num \in Nat
  BY <1>2, NumberKinds
<1>4. NumberOf(log) = log[1].num
  BY <1>2 DEF NumberOf
<1>5. log[1] # Torn
  BY NumberKinds
<1>6. \A q : log[1] = Number(q) <=> q = log[1].num
  BY <1>3, NumberKinds
<1> QED BY <1>2, <1>3, <1>4, <1>5, <1>6 DEF InFile

\* What is in the file stays there: the reader has loaded what it had.
LEMMA GrowsFollows ==
    ASSUME LogInv, LogInv', ReaderTypes, ReaderTypes', Follows, Grows, rd' = rd
    PROVE  Follows'
<1>0. /\ log \in Seq(Record) /\ flushed \in Nat /\ flushed <= Len(log)
      /\ rd.next \in Nat /\ TInv /\ TInv'
  BY DiskTypes, ReaderFields DEF LogInv, ReaderTypes
<1>1. Loaded => Loaded'
  <2> SUFFICES ASSUME Loaded PROVE Loaded'
    OBVIOUS
  <2>1. rd.next \in 0 .. flushed
    BY SMTT(30), <1>0 DEF Loaded
  <2>2. img'[rd.next] = img[rd.next] /\ flushed <= flushed'
    BY <2>1 DEF Grows
  <2>3. flushed' \in Nat
    BY SMTT(30), <1>0, DiskTypes DEF ReaderTypes, TInv, TypeOK
  <2> QED BY SMTT(30), <1>0, <2>2, <2>3 DEF Loaded
<1>2. CASE ~(rd.next > 0 \/ rd.load # "idle")
  BY ZenonT(60), <1>0, <1>2 DEF Follows
<1>3. CASE rd.next > 0 \/ rd.load # "idle"
  <2>1. /\ flushed > 0 /\ IsNumber(log[1]) /\ rd.probedSeq <= NumberOf(log)
        /\ rd.replaced => rd.probedSeq < NumberOf(log)
    BY <1>3 DEF Follows
  <2>2. log'[1] = log[1] /\ flushed' > 0 /\ flushed' \in Nat
    <3>1. 1 \in 1 .. flushed /\ flushed <= flushed'
      BY SMTT(30), <1>0, <2>1 DEF Grows
    <3>2. synced' \in 0 .. Len(log') /\ flushed' \in synced' .. Len(log') /\ Len(log') \in Nat
      BY <1>0, LogFactsAfter DEF TInv, TypeOK
    <3> QED BY SMTT(30), <1>0, <2>1, <3>1, <3>2 DEF Grows
  <2>3. log # <<>> /\ log' # <<>>
    <3>1. log' \in Seq(Record) /\ synced' \in 0 .. Len(log') /\ flushed' \in synced' .. Len(log')
      BY <1>0 DEF TInv, TypeOK
    <3> QED BY SMTT(30), <1>0, <2>1, <2>2, <3>1
  <2>4. /\ NumberOf(log') = NumberOf(log) /\ IsNumber(log'[1])
        /\ InFile(rd.probedSeq)' <=> InFile(rd.probedSeq)
    BY <2>1, <2>2, <2>3 DEF NumberOf, InFile
  <2> HIDE DEF Loaded, InFile
  <2> QED BY ZenonT(60), <1>1, <2>1, <2>2, <2>4 DEF Follows
<1> QED BY <1>2, <1>3

\* Another file has become the log: what the reader has loaded is not the log any
\* more, and what it reads is the old file.
LEMMA RenamedFollows ==
    ASSUME LogInv, LogInv', ReaderTypes, Follows,
           NEW cut \in BOOLEAN, Rotated(cut),
           rd' = IF rd.load # "idle" /\ ~rd.replaced
                 THEN [rd EXCEPT !.replaced = TRUE, !.file = log] ELSE rd
    PROVE  Follows'
<1>0. /\ TInv /\ rd \in Reader /\ rd.next \in Nat /\ rd.probedSeq \in Nat
      /\ rd.load \in {"idle", "bulk", "incremental"}
  BY ReaderFields DEF LogInv, ReaderTypes
<1>1. /\ flushed' > 0 /\ IsNumber(log'[1]) /\ log'[1] = Number(NumberOf(log'))
      /\ NumberOf(log') = NumberOf(log) + 1 /\ NumberOf(log) \in Nat
  BY RotatedNumber
<1>2. ASSUME rd.next > 0 \/ rd.load # "idle"
      PROVE  /\ rd.probedSeq < NumberOf(log') /\ rd.probedSeq <= NumberOf(log')
             /\ ~InFile(rd.probedSeq)'
  <2>1. rd.probedSeq < NumberOf(log')
    BY SMTT(30), <1>0, <1>1, <1>2 DEF Follows
  <2>2. Number(rd.probedSeq) # Number(NumberOf(log'))
    BY SMTT(30), <1>0, <1>1, <2>1, NumberKinds
  <2>3. ~InFile(rd.probedSeq)'
    <3>1. InFile(rd.probedSeq)' => log'[1] = Number(rd'.probedSeq)
      BY DEF InFile
    <3>2. rd'.probedSeq = rd.probedSeq
      BY <1>0 DEF Reader
    <3> QED BY <1>1, <2>2, <3>1, <3>2
  <2> QED BY SMTT(30), <1>0, <1>1, <2>1, <2>3
<1>3. CASE rd.load # "idle" /\ ~rd.replaced
  <2>1. /\ rd'.next = rd.next /\ rd'.seq = rd.seq /\ rd'.size = rd.size
        /\ rd'.load = rd.load /\ rd'.probedSeq = rd.probedSeq /\ rd'.file = log
    BY <1>0, <1>3 DEF Reader
  <2>2. rd'.replaced
    BY <1>0, <1>3 DEF Reader
  <2>3. log # <<>> /\ log[1] # Torn
    BY <1>0, <1>3, InFileNumber DEF Follows
  <2> QED BY <1>1, <1>2, <1>3, <2>1, <2>2, <2>3 DEF Follows
<1>4. CASE ~(rd.load # "idle" /\ ~rd.replaced)
  BY <1>1, <1>2, <1>4 DEF Follows
<1> QED BY <1>3, <1>4

\* A probe: the reader goes on where it was only in the file that it has loaded
\* (probe, Poll).
LEMMA PollFollows ==
    ASSUME LogInv, ReaderTypes, Follows, Poll
    PROVE  Follows'
<1>0. /\ TInv /\ Numbers /\ rd \in Reader /\ rd.next \in Nat /\ rd.probedSeq \in Nat
      /\ rd.seq \in Nat /\ rd.load = "idle"
  BY ReaderFields DEF LogInv, ReaderTypes, Poll
<1>1. log' = log /\ img' = img /\ flushed' = flushed
  BY DEF Poll, vars, disk
<1>2. /\ flushed > 0 /\ IsNumber(log[1])
      /\ OnDisk[1].num = NumberOf(log) /\ NumberOf(log) \in Nat
  BY <1>0, FirstOnDisk DEF Poll
<1>3. CASE rd' = rd
  BY ZenonT(60), <1>1, <1>3 DEF Follows, Loaded, InFile
<1> DEFINE how == Probed(OnDisk)
           bytes == Size
           number == OnDisk[1].num
<1>4. CASE rd' # rd
  <2>1. rd' = [rd EXCEPT !.load = how, !.probedSize = bytes, !.probedSeq = number]
        /\ how # "idle"
    BY <1>4 DEF Poll
  <2>2. how = "incremental" => rd.size # 0 /\ number = rd.seq
    BY DEF Probed, ProbesEntry
  <2>3. number = NumberOf(log)
    BY <1>2
  <2> HIDE DEF how, bytes, number
  <2>4. /\ rd'.next = rd.next /\ rd'.seq = rd.seq /\ rd'.size = rd.size
        /\ rd'.load = how /\ rd'.probedSeq = NumberOf(log) /\ rd'.mirror = rd.mirror
        /\ rd'.replaced = rd.replaced
    BY <1>0, <2>1, <2>3 DEF Reader
  <2>5. ~rd.replaced
    BY <1>0 DEF Follows
  <2>6. rd.next > 0 => rd.seq <= rd.probedSeq /\ rd.probedSeq <= NumberOf(log)
    BY DEF Follows
  <2>7. how = "incremental" => rd.next > 0 /\ Loaded
    <3> SUFFICES ASSUME how = "incremental" PROVE rd.next > 0 /\ Loaded
      OBVIOUS
    <3>1. rd.next > 0
      BY SMTT(30), <1>0, <2>2 DEF Follows
    <3>2. rd.probedSeq = NumberOf(log)
      BY SMTT(30), <1>0, <1>2, <2>2, <2>3, <2>6, <3>1
    <3>3. InFile(rd.probedSeq)
      BY <1>0, <1>2, <3>2, InFileNumber
    <3> QED BY <1>0, <3>1, <3>3 DEF Follows
  <2>8. Loaded => Loaded'
    BY <1>1, <2>4 DEF Loaded
  <2>9. /\ rd'.next = 0 => rd'.seq = 0 /\ rd'.size = 0
        /\ rd'.next > 0 => rd'.seq <= rd'.probedSeq
    BY SMTT(30), <1>0, <1>2, <2>4, <2>6 DEF Follows
  <2>10. rd'.load # "idle" /\ ~rd'.replaced
    BY <2>1, <2>4, <2>5
  <2>11. /\ flushed' > 0 /\ IsNumber(log'[1]) /\ rd'.probedSeq <= NumberOf(log')
    BY SMTT(30), <1>1, <1>2, <2>4
  <2>12. rd'.load = "incremental" => rd'.next > 0 /\ Loaded'
    BY <2>4, <2>7, <2>8
  <2> QED BY <2>9, <2>10, <2>11, <2>12 DEF Follows
<1> QED BY <1>3, <1>4

\* A load of the file that is the log makes the mirror of what has been read.
LEMMA LoadLoaded ==
    ASSUME LogInv, ReaderTypes, Follows, Load, rd' # Fresh, ~rd.replaced
    PROVE  Loaded'
<1> DEFINE start == IF rd.load = "bulk" THEN 0 ELSE rd.next
           t == IF rd.load = "bulk" THEN NoAds ELSE rd.mirror
           end == rd'.next
<1>0. /\ TInv /\ ChainInv /\ rd.next \in Nat
      /\ rd.load \in {"idle", "bulk", "incremental"} /\ rd.load # "idle"
  BY ReaderFields DEF LogInv, ReaderTypes, Load
<1>1. /\ log \in Seq(Record) /\ Len(log) \in Nat /\ img \in [0 .. Len(log) -> Image]
      /\ flushed \in Nat /\ flushed <= Len(log)
  BY <1>0, DiskTypes
<1>2. log' = log /\ img' = img /\ flushed' = flushed
  BY DEF Load, vars, disk
<1>3. File = OnDisk
  BY DEF File
<1>4. /\ OnDisk \in Seq(Record) /\ Len(OnDisk) \in flushed .. flushed + 1
      /\ \A i \in 1 .. flushed : OnDisk[i] = log[i]
      /\ \A i \in flushed + 1 .. Len(OnDisk) : OnDisk[i] = Torn
  BY <1>0, OnDiskRecords
<1>5. /\ end \in start .. Len(OnDisk)
      /\ \A i \in start + 1 .. end : OnDisk[i] # Torn
      /\ \E p : /\ Consumes(p, OnDisk, start, Len(OnDisk), t)
                /\ rd'.mirror = p[end]
  BY <1>0, <1>3, Loads
<1>6. start \in 0 .. flushed /\ ~img[start].bad /\ t = Played(img[start])
  <2>1. CASE rd.load = "bulk"
    <3>1. start = 0 /\ t = NoAds
      BY <2>1
    <3>2. img[0] = Holding(NoAds)
      BY <1>0 DEF ChainInv, Chain, Blank
    <3>3. PlayAll(NoAds, <<>>) = NoAds
      <4>1. NoAds \in Table
        BY DEF NoAds, Table, Ad
      <4> QED BY <4>1, PlayMore
    <3> HIDE DEF start, t
    <3> QED BY SMTT(30), <1>1, <3>1, <3>2, <3>3, PlayedFields
  <2>2. CASE rd.load = "incremental"
    <3>1. start = rd.next /\ t = rd.mirror
      BY <2>2
    <3>2. Loaded
      BY <2>2 DEF Follows
    <3> HIDE DEF start, t
    <3> QED BY SMTT(30), <1>0, <1>1, <3>1, <3>2 DEF Loaded
  <2> QED BY <1>0, <2>1, <2>2
<1> HIDE DEF start, t, end
<1>7. end \in Nat /\ start \in Nat /\ start <= end /\ end <= flushed
  <2>1. end \in Nat /\ start \in Nat /\ start <= end /\ end <= Len(OnDisk)
    BY SMTT(30), <1>1, <1>4, <1>5, <1>6
  <2>2. end > flushed => end \in start + 1 .. end /\ end \in flushed + 1 .. Len(OnDisk)
    BY SMTT(30), <1>1, <1>4, <1>6, <2>1
  <2>3. ~(end > flushed)
    BY <1>4, <1>5, <2>2
  <2> QED BY SMTT(30), <1>1, <2>1, <2>3
<1>8. PICK p : Consumes(p, OnDisk, start, Len(OnDisk), t) /\ rd'.mirror = p[end]
  BY <1>5
<1>9. Consumes([i \in start .. flushed |-> p[i]], OnDisk, start, flushed, t)
  <2> DEFINE q == [i \in start .. flushed |-> p[i]]
  <2>1. /\ \A i \in start .. flushed : q[i] = p[i] /\ i \in start .. Len(OnDisk)
        /\ \A i \in start + 1 .. flushed : /\ i \in start .. flushed
                                           /\ i - 1 \in start .. flushed
                                           /\ i \in start + 1 .. Len(OnDisk)
        /\ start \in start .. flushed
    BY SMTT(30), <1>1, <1>4, <1>6, <1>7
  <2>2. q \in [start .. flushed -> Table]
    BY <1>8, <2>1 DEF Consumes
  <2> HIDE DEF q
  <2>3. q[start] = t /\ \A i \in start + 1 .. flushed : q[i] = Consume(q[i - 1], OnDisk[i])
    BY <1>8, <2>1 DEF Consumes
  <2>4. Consumes(q, OnDisk, start, flushed, t)
    BY <2>2, <2>3 DEF Consumes
  <2> QED BY <2>4 DEF q
<1> DEFINE q == [i \in start .. flushed |-> p[i]]
           f == OnDisk
<1>10. \A i \in start + 1 .. end : f[i] # Torn /\ f[i] = log[i]
  <2>1. \A i \in start + 1 .. end : i \in 1 .. flushed
    BY SMTT(30), <1>1, <1>7
  <2> QED BY <1>4, <1>5, <2>1
<1>11. q[end] = p[end] /\ Consumes(q, f, start, flushed, t)
  BY SMTT(30), <1>1, <1>7, <1>9
<1>12. end \in start .. Len(log) /\ flushed \in end .. Len(log) /\ Chain(log, img)
  BY SMTT(30), <1>0, <1>1, <1>7 DEF ChainInv
<1> HIDE DEF q, f
<1>13. Passes(log, img, f, q, start, end, flushed, t)
  BY <1>1, <1>6, <1>7, <1>10, <1>11, <1>12 DEF Passes
<1>14. ~img[end].bad /\ q[end] = Played(img[end])
  BY SMTT(30), <1>13, LoadFollows
<1> QED BY <1>2, <1>7, <1>8, <1>11, <1>14 DEF Loaded, end

\* A load (Load, BulkLoad, IncrementalLoad).
LEMMA LoadFollowsToo ==
    ASSUME LogInv, ReaderTypes, Follows, Load, rd' # Fresh
    PROVE  Follows'
<1> DEFINE start == IF rd.load = "bulk" THEN 0 ELSE rd.next
<1>0. /\ TInv /\ rd.next \in Nat /\ rd.seq \in Nat /\ rd.probedSeq \in Nat
      /\ rd.load \in {"idle", "bulk", "incremental"} /\ rd.load # "idle"
  BY ReaderFields DEF LogInv, ReaderTypes, Load
<1>1. log' = log /\ img' = img /\ flushed' = flushed
  BY DEF Load, vars, disk
<1>2. /\ rd'.load = "idle" /\ ~rd'.replaced /\ rd'.probedSeq = rd.probedSeq
      /\ rd'.seq = rd.seq \/ rd'.seq = rd.probedSeq
      /\ rd'.next \in start .. Len(File)
      /\ rd'.next = start => ~Complete(File, start + 1)
  BY <1>0, Loads
<1>3. /\ flushed > 0 /\ IsNumber(log[1]) /\ rd.probedSeq <= NumberOf(log)
      /\ rd.replaced => rd.probedSeq < NumberOf(log)
  BY <1>0 DEF Follows
<1>4. NumberOf(log) \in Nat /\ log[1] # Torn /\ \A q : InFile(q) <=> q = NumberOf(log)
  BY <1>0, <1>3, InFileNumber
<1>5. File \in Seq(Record)
  BY <1>0, FileType
<1>6. Complete(File, 1)
  <2>1. CASE rd.replaced
    <3>1. rd.file # <<>> /\ rd.file[1] # Torn /\ File = rd.file
      BY <2>1 DEF Follows, File
    <3> QED BY SMTT(30), <1>5, <3>1 DEF Complete
  <2>2. CASE ~rd.replaced
    <3>1. File = OnDisk
      BY <2>2 DEF File
    <3>2. flushed \in Nat /\ Len(OnDisk) \in flushed .. flushed + 1
          /\ \A i \in 1 .. flushed : OnDisk[i] = log[i]
      BY <1>0, DiskTypes, OnDiskRecords
    <3>3. 1 <= Len(OnDisk) /\ OnDisk[1] = log[1]
      BY SMTT(30), <1>3, <3>2
    <3> QED BY <1>4, <3>1, <3>3 DEF Complete
  <2> QED BY <2>1, <2>2
<1>7. rd'.next \in Nat /\ rd'.next > 0
  <2>1. CASE rd.load = "bulk"
    <3>1. start = 0
      BY <2>1
    <3> HIDE DEF start
    <3>2. rd'.next # 0 /\ rd'.next \in 0 .. Len(File)
      BY SMTT(30), <1>2, <1>6, <3>1
    <3> QED BY SMTT(30), <1>5, <3>2
  <2>2. CASE rd.load = "incremental"
    <3>1. start = rd.next /\ rd.next > 0
      BY <2>2 DEF Follows
    <3> HIDE DEF start
    <3> QED BY SMTT(30), <1>0, <1>2, <1>5, <3>1
  <2> QED BY <1>0, <2>1, <2>2
<1>8. rd'.seq <= rd'.probedSeq
  BY SMTT(30), <1>0, <1>2 DEF Follows
<1>9. InFile(rd.probedSeq)' => Loaded'
  <2>1. InFile(rd.probedSeq)' <=> InFile(rd.probedSeq)
    BY <1>1, <1>2 DEF InFile
  <2>2. InFile(rd.probedSeq) => ~rd.replaced
    BY SMTT(30), <1>0, <1>3, <1>4
  <2> QED BY <2>1, <2>2, LoadLoaded
<1> QED BY SMTT(30), <1>0, <1>1, <1>2, <1>3, <1>7, <1>8, <1>9 DEF Follows

----------------------------------------------------------------------------
\* Every step keeps what the reader has loaded.
LEMMA FollowsStep ==
    ASSUME LogInv, LogInv', ReaderTypes, ReaderTypes', Follows, [ReaderNext]_allvars
    PROVE  Follows'
<1>1. CASE Schedd
  <2>1. /\ Next
        /\ rd' = IF Renamed /\ rd.load # "idle" /\ ~rd.replaced
                 THEN [rd EXCEPT !.replaced = TRUE, !.file = log] ELSE rd
    BY <1>1 DEF Schedd
  <2>2. \/ Renamed /\ \E cut \in BOOLEAN : Rotated(cut)
        \/ ~Renamed /\ Grows
    BY <2>1, ScheddStep DEF LogInv
  <2>3. CASE Renamed /\ \E cut \in BOOLEAN : Rotated(cut)
    <3>1. PICK cut \in BOOLEAN : Rotated(cut)
      BY <2>3
    <3>2. rd' = IF rd.load # "idle" /\ ~rd.replaced
                THEN [rd EXCEPT !.replaced = TRUE, !.file = log] ELSE rd
      BY <2>1, <2>3
    <3> QED BY <3>1, <3>2, RenamedFollows
  <2>4. CASE ~Renamed /\ Grows
    <3>1. rd' = rd
      BY <2>1, <2>4
    <3> QED BY <2>4, <3>1, GrowsFollows
  <2> QED BY <2>2, <2>3, <2>4
<1>2. ASSUME NEW k \in flushed .. Len(log), NEW part \in 0 .. MaxSpilled, Spill(k, part)
      PROVE  Follows'
  <2>1. flushed' = k /\ log' = log /\ img' = img /\ rd' = rd
    BY <1>2 DEF Spill
  <2>2. flushed \in Nat /\ Len(log) \in Nat
    BY DiskTypes DEF LogInv
  <2>3. Grows
    BY SMTT(30), <2>1, <2>2 DEF Grows
  <2> QED BY <2>1, <2>3, GrowsFollows
<1>3. CASE Poll
  BY <1>3, PollFollows
<1>4. CASE rd' = Fresh
  <2>1. /\ rd'.next = 0 /\ rd'.seq = 0 /\ rd'.size = 0
        /\ rd'.load = "idle" /\ rd'.replaced = FALSE
    BY <1>4 DEF Fresh
  <2> QED BY SMTT(30), <2>1 DEF Follows
<1>5. CASE PollClosed \/ Load
  BY <1>4, <1>5, LoadFollowsToo DEF PollClosed
<1>6. CASE UNCHANGED allvars
  <2>1. log' = log /\ img' = img /\ flushed' = flushed /\ rd' = rd
    BY <1>6 DEF allvars, vars, disk
  <2> QED BY <2>1 DEF Follows, Loaded, InFile
<1> QED BY <1>1, <1>2, <1>3, <1>4, <1>5, <1>6 DEF ReaderNext

\* At first there is neither a log nor anything in the mirror.
LEMMA ReaderInitially ==
    ASSUME ReaderInit
    PROVE  LogInv /\ ReaderTypes /\ Follows
<1>1. Init /\ spilled = 0 /\ rd = Fresh
  BY DEF ReaderInit
<1>2. TInv
  BY <1>1, TInvInit
<1>3. Numbers
  BY <1>1, NumbersInitially
<1>4. ChainInv
  BY SMTT(30), <1>1 DEF Init, ChainInv, Chain
<1>5. ReaderTypes
  BY SMTT(30), <1>1, FreshType, LogReaderAssumption DEF ReaderTypes
<1>6. Follows
  <2>1. /\ rd.next = 0 /\ rd.seq = 0 /\ rd.size = 0
        /\ rd.load = "idle" /\ rd.replaced = FALSE
    BY <1>1 DEF Fresh
  <2> QED BY SMTT(30), <2>1 DEF Follows
<1> QED BY <1>2, <1>3, <1>4, <1>5, <1>6 DEF LogInv

\* The three are invariants.
LEMMA ReaderAlways == ReaderSpec => [](LogInv /\ ReaderTypes /\ Follows)
<1>1. ReaderInit => LogInv /\ ReaderTypes /\ Follows
  BY ReaderInitially
<1>2. LogInv /\ ReaderTypes /\ Follows /\ [ReaderNext]_allvars
        => (LogInv /\ ReaderTypes /\ Follows)'
  <2> SUFFICES ASSUME LogInv, ReaderTypes, Follows, [ReaderNext]_allvars
               PROVE  LogInv' /\ ReaderTypes' /\ Follows'
    OBVIOUS
  <2>1. LogInv'
    BY LogInvStep
  <2>2. ReaderTypes'
    BY <2>1, ReaderTypesStep
  <2> QED BY <2>1, <2>2, FollowsStep
<1> QED BY <1>1, <1>2, PTL DEF ReaderSpec

\* Types of the log, of what stdio has let go of it and of the reader (ClassAdLog,
\* ClassAdLogReader, ClassAdLogProber, ClassAdLogParser).
THEOREM ReaderTypeCorrect == ReaderSpec => []ReaderTypeOK
<1>1. LogInv /\ ReaderTypes => ReaderTypeOK
  BY DEF LogInv, TInv, ReaderTypes, ReaderTypeOK
<1> QED BY <1>1, ReaderAlways, PTL

\* Between polls the mirror is a state that the schedd has committed with as much of
\* the next transaction as the reader has found, wherever stdio cuts what it writes,
\* the process of the schedd ends, or a rotation renames a new file over the log
\* while the reader has the old one open (Poll, BulkLoad, IncrementalLoad, probe).
THEOREM MirrorAlwaysFollows == ReaderSpec => []MirrorFollows
<1>1. LogInv /\ ReaderTypes /\ Follows => MirrorFollows
  <2> SUFFICES ASSUME LogInv, ReaderTypes, Follows,
                      rd.load = "idle", rd.next > 0, SameFile
               PROVE  /\ rd.next <= Len(log)
                      /\ rd.mirror = PlayAll(img[rd.next].table, img[rd.next].ops)
    BY DEF MirrorFollows
  <2>1. Loaded
    BY DEF Follows, SameFile, InFile
  <2>2. flushed \in Nat /\ Len(log) \in Nat /\ flushed <= Len(log) /\ rd.next \in Nat
    BY DiskTypes, ReaderFields DEF LogInv, ReaderTypes
  <2> QED BY SMTT(30), <2>1, <2>2 DEF Loaded, Played
<1> QED BY <1>1, ReaderAlways, PTL
=============================================================================
