------------------------- MODULE ClassAdLogLookups --------------------------
(***************************************************************************)
(* What a client is told of its own transaction before it is committed,    *)
(* for transactions of any length.  Then, how many historical logs are     *)
(* kept, which takes the theorems on finite sets.                          *)
(***************************************************************************)
EXTENDS ClassAdLogProofs

\* Most leaves are first-order; the ones with arithmetic, or much to rewrite, name SMT.
USE Zenon

Creates(r, k) == r.key = k /\ r.op = "New"
Destroys(r, k) == r.key = k /\ r.op = "Destroy"
Values(r, k) == r.key = k /\ r.op \in {"Set", "Delete"}

\* What a record leaves of the value of the ad.
ValueOf(r) == IF r.op = "Set" THEN r.val ELSE Empty

\* What an operation does to the ad of a key (the Play methods).
LEMMA PlayOne ==
    ASSUME NEW t \in Table, NEW r \in Op, NEW k \in Key
    PROVE  /\ Empty # Absent
           /\ Values(r, k) => ValueOf(r) # Absent
           /\ r.key # k => Play(t, r)[k] = t[k]
           /\ r.key = k => Creates(r, k) \/ Destroys(r, k) \/ Values(r, k)
           /\ Creates(r, k) => Play(t, r)[k] = Empty
           /\ Destroys(r, k) => Play(t, r)[k] = Absent
           /\ Values(r, k) =>
                Play(t, r)[k] = IF t[k] = Absent THEN Absent ELSE ValueOf(r)
<1> USE DEF Creates, Destroys, Values, ValueOf
<1>1. Empty # Absent
  BY DEF Empty, Absent
<1>2. /\ r.op = "Set" => r.val \in Value
      /\ r.key \in Key /\ r.op \in {"New", "Destroy", "Delete", "Set"}
  BY DEF Op
<1>3. Values(r, k) => ValueOf(r) # Absent
  BY <1>1, <1>2, ClassAdLogAssumption DEF Absent
<1>4. r.key # k => Play(t, r)[k] = t[k]
  BY <1>2 DEF Play, Table
<1>5. r.key = k => Play(t, r)[k] =
        IF r.op = "New" THEN Empty
        ELSE IF r.op = "Destroy" \/ t[k] = Absent THEN Absent
        ELSE IF r.op = "Set" THEN r.val
        ELSE Empty
  BY <1>2 DEF Play, Table
<1> QED BY <1>1, <1>2, <1>3, <1>4, <1>5

\* The ad is there after i operations if it was there or has been created, and has
\* not been destroyed since.
LivesAfter(t, rs, k, i) ==
    \/ t[k] # Absent /\ \A j \in 1 .. i : ~Destroys(rs[j], k)
    \/ \E c \in 1 .. i : /\ Creates(rs[c], k)
                         /\ \A j \in c + 1 .. i : ~Destroys(rs[j], k)

\* So it is.
LEMMA PlayedLives ==
    ASSUME NEW t \in Table, NEW rs \in Seq(Op), NEW f, Plays(f, t, rs), NEW k \in Key
    PROVE  \A i \in 0 .. Len(rs) : f[i][k] # Absent <=> LivesAfter(t, rs, k, i)
<1> DEFINE Good == {i \in Nat : i <= Len(rs) =>
                                  (f[i][k] # Absent <=> LivesAfter(t, rs, k, i))}
<1>1. 0 \in Good
  BY SMTT(30) DEF Plays, LivesAfter
<1>2. ASSUME NEW i \in Nat, i \in Good PROVE i + 1 \in Good
  <2> SUFFICES ASSUME i + 1 <= Len(rs)
               PROVE  f[i + 1][k] # Absent <=> LivesAfter(t, rs, k, i + 1)
    BY SMTT(30)
  <2> DEFINE r == rs[i + 1]
  <2>1. f[i] \in Table /\ r \in Op /\ f[i + 1] = Play(f[i], r)
    BY OneStep
  <2>2. f[i][k] # Absent <=> LivesAfter(t, rs, k, i)
    BY SMTT(30), <1>2
  <2>3. /\ Destroys(r, k) => f[i + 1][k] = Absent
        /\ Creates(r, k) => f[i + 1][k] # Absent
        /\ ~Creates(r, k) /\ ~Destroys(r, k)
             => (f[i + 1][k] # Absent <=> f[i][k] # Absent)
    BY SMTT(30), <2>1, PlayOne
  <2>4. \A j \in 1 .. i + 1 : j \in 1 .. i \/ j = i + 1
    BY SMTT(30)
  <2>5. CASE Destroys(r, k)
    <3>1. ~Creates(r, k)
      BY <2>5 DEF Creates, Destroys
    <3>2. ~LivesAfter(t, rs, k, i + 1)
      BY SMTT(30), <2>4, <2>5, <3>1 DEF LivesAfter
    <3> QED BY <2>3, <2>5, <3>2
  <2>6. CASE Creates(r, k)
    <3>1. LivesAfter(t, rs, k, i + 1)
      BY SMTT(30), <2>6 DEF LivesAfter
    <3> QED BY <2>3, <2>6, <3>1
  <2>7. CASE ~Creates(r, k) /\ ~Destroys(r, k)
    <3> HIDE DEF r
    <3>1. LivesAfter(t, rs, k, i + 1) => LivesAfter(t, rs, k, i)
      BY SMTT(30), <2>4, <2>7 DEF LivesAfter, r
    <3>2. LivesAfter(t, rs, k, i) => LivesAfter(t, rs, k, i + 1)
      BY SMTT(30), <2>4, <2>7 DEF LivesAfter, r
    <3> QED BY <2>2, <2>3, <2>7, <3>1, <3>2
  <2> QED BY <2>5, <2>6, <2>7
<1> HIDE DEF Good
<1>3. Nat \subseteq Good
  BY <1>1, <1>2, NatInductionOnSet
<1> QED BY SMTT(30), <1>3 DEF Good

\* The ad is not destroyed, and created before anything else is done to it or not
\* at all.
Steady(rs, k) ==
    /\ \A j \in 1 .. Len(rs) : ~Destroys(rs[j], k)
    /\ \A i, j \in 1 .. Len(rs) : i < j /\ rs[i].key = k => ~Creates(rs[j], k)

\* The last value among the first i operations counts; without one, an ad that has
\* been created has none, and one that has not keeps what it had.
LastValueCounts(t, rs, k, i, ad) ==
    /\ \A v \in 1 .. i :
          Values(rs[v], k) /\ (\A j \in v + 1 .. i : ~Values(rs[j], k))
              => ad = ValueOf(rs[v])
    /\ (\A j \in 1 .. i : ~Values(rs[j], k)) =>
          /\ (\E c \in 1 .. i : Creates(rs[c], k)) => ad = Empty
          /\ (\A c \in 1 .. i : ~Creates(rs[c], k)) => ad = t[k]

\* So it is for an ad that lives throughout.
LEMMA PlayedValue ==
    ASSUME NEW t \in Table, NEW rs \in Seq(Op), NEW f, Plays(f, t, rs),
           NEW k \in Key, Steady(rs, k),
           t[k] # Absent \/ \E c \in 1 .. Len(rs) : Creates(rs[c], k)
    PROVE  \A i \in 0 .. Len(rs) : LastValueCounts(t, rs, k, i, f[i][k])
<1> DEFINE Good == {i \in Nat : i <= Len(rs) => LastValueCounts(t, rs, k, i, f[i][k])}
<1>1. 0 \in Good
  BY SMTT(30) DEF Plays, LastValueCounts
<1>2. ASSUME NEW i \in Nat, i \in Good PROVE i + 1 \in Good
  <2> SUFFICES ASSUME i + 1 <= Len(rs)
               PROVE  LastValueCounts(t, rs, k, i + 1, f[i + 1][k])
    BY SMTT(30)
  <2> DEFINE r == rs[i + 1]
  <2>1. /\ f[i] \in Table /\ r \in Op /\ f[i + 1] = Play(f[i], r)
        /\ i + 1 \in 1 .. Len(rs)
    BY OneStep
  <2>2. LastValueCounts(t, rs, k, i, f[i][k])
    BY SMTT(30), <1>2
  <2>3. /\ r.key # k => f[i + 1][k] = f[i][k]
        /\ r.key = k => Creates(r, k) \/ Values(r, k)
        /\ Creates(r, k) => f[i + 1][k] = Empty
        /\ Values(r, k) =>
             f[i + 1][k] = IF f[i][k] = Absent THEN Absent ELSE ValueOf(r)
    BY SMTT(30), <2>1, PlayOne DEF Steady
  <2>4. \A j \in 1 .. i + 1 : j \in 1 .. i \/ j = i + 1
    BY SMTT(30)
  <2>5. \A j \in 1 .. i : j \in 1 .. Len(rs) /\ j < i + 1
    BY SMTT(30)
  <2>6. CASE r.key # k
    <3>1. ~Values(r, k) /\ ~Creates(r, k)
      BY <2>6 DEF Values, Creates
    <3> HIDE DEF r
    <3>2. \A v \in 1 .. i + 1 :
              Values(rs[v], k) /\ (\A j \in v + 1 .. i + 1 : ~Values(rs[j], k))
                => f[i + 1][k] = ValueOf(rs[v])
      <4> SUFFICES ASSUME NEW v \in 1 .. i + 1, Values(rs[v], k),
                          \A j \in v + 1 .. i + 1 : ~Values(rs[j], k)
                   PROVE  f[i + 1][k] = ValueOf(rs[v])
        OBVIOUS
      <4>1. v \in 1 .. i
        BY <2>4, <3>1 DEF r
      <4>2. \A j \in v + 1 .. i : ~Values(rs[j], k)
        BY SMTT(30)
      <4> QED BY ZenonT(60), <2>2, <2>3, <2>6, <4>1, <4>2 DEF LastValueCounts
    <3>3. (\A j \in 1 .. i + 1 : ~Values(rs[j], k)) => \A j \in 1 .. i : ~Values(rs[j], k)
      BY SMTT(30)
    <3>4. (\E c \in 1 .. i + 1 : Creates(rs[c], k)) => \E c \in 1 .. i : Creates(rs[c], k)
      BY <2>4, <3>1 DEF r
    <3>5. (\A c \in 1 .. i + 1 : ~Creates(rs[c], k)) => \A c \in 1 .. i : ~Creates(rs[c], k)
      BY SMTT(30)
    <3> QED BY <2>2, <2>3, <2>6, <3>2, <3>3, <3>4, <3>5 DEF LastValueCounts
  <2>7. CASE Creates(r, k)
    <3>1. \A v \in 1 .. i + 1 : ~Values(rs[v], k)
      BY ZenonT(60), <2>1, <2>4, <2>5, <2>7 DEF Steady, Values, Creates
    <3> QED BY SMTT(30), <2>1, <2>3, <2>7, <3>1 DEF LastValueCounts
  <2>8. CASE Values(r, k)
    <3>1. f[i][k] # Absent
      <4>1. f[i][k] # Absent <=> LivesAfter(t, rs, k, i)
        BY SMTT(30), PlayedLives
      <4>2. \A j \in 1 .. i : ~Destroys(rs[j], k)
        BY <2>5 DEF Steady
      <4>3. t[k] # Absent \/ \E c \in 1 .. i : Creates(rs[c], k)
        <5> SUFFICES ASSUME NEW c \in 1 .. Len(rs), Creates(rs[c], k)
                     PROVE  c \in 1 .. i
          OBVIOUS
        <5>1. r.key = k /\ ~Creates(r, k)
          BY <2>8 DEF Values, Creates
        <5>2. ~(i + 1 < c) /\ c # i + 1
          BY ZenonT(60), <2>1, <5>1 DEF Steady
        <5> QED BY SMTT(30), <5>2
      <4> QED BY SMTT(30), <4>1, <4>2, <4>3 DEF LivesAfter
    <3>2. f[i + 1][k] = ValueOf(r)
      BY ZenonT(60), <2>3, <2>8, <3>1
    <3>3. ASSUME NEW v \in 1 .. i + 1, \A j \in v + 1 .. i + 1 : ~Values(rs[j], k)
          PROVE  v = i + 1
      BY SMTT(30), <2>8, <3>3
    <3> QED BY SMTT(30), <2>8, <3>2, <3>3 DEF LastValueCounts
  <2> QED BY ZenonT(60), <2>3, <2>6, <2>7, <2>8
<1> HIDE DEF Good
<1>3. Nat \subseteq Good
  BY <1>1, <1>2, NatInductionOnSet
<1> QED BY SMTT(30), <1>3 DEF Good

\* Some places in a transaction have a last one.
LEMMA LatestPlace ==
    ASSUME ops \in Seq(Op), NEW places \in SUBSET DOMAIN ops, places # {}
    PROVE  \E i \in places : /\ \A j \in places : j <= i
                             /\ Latest(places) = ops[i]
<1> DEFINE n == Len(ops)
           S == {n - i : i \in places}
<1>1. n \in Nat /\ places \subseteq 1 .. n
  BY SMTT(30)
<1> HIDE DEF n
<1>2. S \in SUBSET Nat /\ S # {}
  BY SMTT(30), <1>1
<1>3. PICK d \in S : \A e \in S : ~(e < d)
  BY <1>2, FirstNatural
<1>4. PICK i \in places : d = n - i
  BY <1>3
<1>5. \A j \in places : j <= i
  <2> SUFFICES ASSUME NEW j \in places PROVE j <= i
    OBVIOUS
  <2>1. ~(n - j < n - i)
    BY <1>3, <1>4
  <2> QED BY SMTT(30), <1>1, <2>1
<1>6. \E j \in places : \A h \in places : h <= j
  BY <1>5
<1> DEFINE last == CHOOSE j \in places : \A h \in places : h <= j
<1>7. last \in places /\ \A h \in places : h <= last
  BY <1>6
<1>8. Latest(places) = ops[last]
  BY DEF Latest
<1> HIDE DEF last
<1> QED BY <1>7, <1>8

\* AdExists goes by the last creation or destruction.
LEMMA ExistsFacts ==
    ASSUME ops \in Seq(Op), NEW k \in Key
    PROVE  AdExists(k) <=> LivesAfter(table, ops, k, Len(ops))
<1> DEFINE life == Places(k, {"New", "Destroy"})
<1>1. DOMAIN ops = 1 .. Len(ops) /\ Len(ops) \in Nat
  BY SMTT(30)
<1>2. \A i \in 1 .. Len(ops) :
          i \in life <=> Creates(ops[i], k) \/ Destroys(ops[i], k)
  BY <1>1 DEF Places, Creates, Destroys
<1>3. life \subseteq 1 .. Len(ops)
  BY <1>1 DEF Places
<1>4. AdExists(k) = IF life = {} THEN table[k] # Absent ELSE Latest(life).op = "New"
  BY DEF AdExists
<1> HIDE DEF life
<1>5. CASE life = {}
  BY <1>2, <1>4, <1>5 DEF LivesAfter
<1>6. CASE life # {}
  <2>1. PICK i \in life : (\A j \in life : j <= i) /\ Latest(life) = ops[i]
    BY ZenonT(60), <1>1, <1>3, <1>6, LatestPlace
  <2>2. i \in 1 .. Len(ops) /\ (Creates(ops[i], k) \/ Destroys(ops[i], k))
    BY <1>2, <1>3, <2>1
  <2>3. \A j \in i + 1 .. Len(ops) : ~Destroys(ops[j], k)
    <3> SUFFICES ASSUME NEW j \in i + 1 .. Len(ops) PROVE j \notin life /\ j \in 1 .. Len(ops)
      BY <1>2
    <3>1. i \in Nat /\ j \in Nat /\ ~(j <= i) /\ j >= 1 /\ j <= Len(ops)
      BY SMTT(30), <1>1, <2>2
    <3> QED BY SMTT(30), <1>1, <2>1, <3>1
  <2>4. CASE Creates(ops[i], k)
    <3>1. AdExists(k)
      BY <1>4, <1>6, <2>1, <2>4 DEF Creates
    <3> QED BY <2>2, <2>3, <2>4, <3>1 DEF LivesAfter
  <2>5. CASE Destroys(ops[i], k)
    <3>1. ~AdExists(k)
      BY <1>4, <1>6, <2>1, <2>5 DEF Destroys
    <3>2. \A c \in 1 .. Len(ops) : Creates(ops[c], k) => c <= i /\ c # i
      <4>1. ~Creates(ops[i], k)
        BY <2>5 DEF Creates, Destroys
      <4> QED BY <1>2, <2>1, <4>1
    <3>3. \A c \in 1 .. Len(ops) : Creates(ops[c], k) => i \in c + 1 .. Len(ops)
      BY SMTT(30), <1>1, <2>2, <3>2
    <3>4. ~LivesAfter(table, ops, k, Len(ops))
      BY <2>2, <2>5, <3>3 DEF LivesAfter
    <3> QED BY <3>1, <3>4
  <2> QED BY <2>2, <2>4, <2>5
<1> QED BY <1>5, <1>6

\* A client that asks whether an ad exists is answered for what its commit would
\* leave, with any number of clients and whatever they have committed while its
\* transaction was parked (AdExistsInTableOrTransaction, Transaction::Commit).
THEOREM ExistsIsCommitted == Spec => []ExistsAsCommitted
<1>1. ASSUME TInv PROVE ExistsAsCommitted
  <2> SUFFICES ASSUME NEW k \in Key
               PROVE  AdExists(k) <=> Committed[k] # Absent
    BY DEF ExistsAsCommitted
  <2>1. table \in Table /\ ops \in Seq(Op)
    BY <1>1, LogFacts
  <2>2. PICK f \in [0 .. Len(ops) -> Table] :
            /\ f[0] = table /\ PlayAll(table, ops) = f[Len(ops)]
            /\ \A j \in 1 .. Len(ops) : f[j] = Play(f[j - 1], ops[j])
    BY <2>1, PlayAllSteps, Inductive
  <2>3. Plays(f, table, ops) /\ Len(ops) \in 0 .. Len(ops)
    BY SMTT(30), <2>1, <2>2 DEF Plays
  <2>4. f[Len(ops)][k] # Absent <=> LivesAfter(table, ops, k, Len(ops))
    BY <2>1, <2>3, PlayedLives
  <2> QED BY <2>1, <2>2, <2>4, ExistsFacts DEF Committed
<1> QED BY <1>1, TInvAlways, PTL

\* Nothing is done to the ad in the transaction before it is created.
CreatesFirst(rs, k) ==
    \E i \in DOMAIN rs : /\ Creates(rs[i], k)
                         /\ \A j \in DOMAIN rs : j < i => rs[j].key # k

\* No two transactions create the same ad, and an ad that one of them creates first
\* of all is not in the table yet.
Apart ==
    /\ ~active => ops = <<>>
    /\ \A rs \in parked : CreatedBy(rs) \cap CreatedBy(ops) = {}
    /\ \A rs, qs \in parked : rs = qs \/ CreatedBy(rs) \cap CreatedBy(qs) = {}
    /\ \A rs \in parked \cup {ops}, k \in Key :
          CreatesFirst(rs, k) => table[k] = Absent

\* The inductive invariant.
Clients == IF mode \in {"down", "reading"} THEN parked = {} ELSE Apart

\* An ad that is created first is created.
LEMMA FirstIsCreated ==
    ASSUME NEW rs, NEW k, CreatesFirst(rs, k)
    PROVE  k \in CreatedBy(rs)
BY DEF CreatesFirst, CreatedBy, Creates

\* A transaction without operations creates nothing.
LEMMA EmptyCreates ==
    CreatedBy(<<>>) = {} /\ \A k : ~CreatesFirst(<<>>, k)
BY SMTT(30) DEF CreatedBy, CreatesFirst

\* One operation more (AppendToTransaction).
LEMMA OneMore ==
    ASSUME NEW rs \in Seq(Op), NEW r \in Op
    PROVE  /\ CreatedBy(Append(rs, r)) \subseteq
                CreatedBy(rs) \cup (IF r.op = "New" THEN {r.key} ELSE {})
           /\ \A k \in Key : CreatesFirst(Append(rs, r), k) =>
                \/ CreatesFirst(rs, k)
                \/ Creates(r, k) /\ \A j \in DOMAIN rs : rs[j].key # k
<1> DEFINE qs == Append(rs, r)
<1>1. /\ DOMAIN rs = 1 .. Len(rs) /\ Len(rs) \in Nat
      /\ DOMAIN qs = 1 .. Len(rs) + 1
      /\ qs[Len(rs) + 1] = r /\ \A i \in 1 .. Len(rs) : qs[i] = rs[i]
  BY SMTT(30)
<1>2. \A i \in DOMAIN qs : i \in 1 .. Len(rs) \/ i = Len(rs) + 1
  BY SMTT(30), <1>1
<1> HIDE DEF qs
<1>3. CreatedBy(qs) \subseteq
          CreatedBy(rs) \cup (IF r.op = "New" THEN {r.key} ELSE {})
  <2> SUFFICES ASSUME NEW i \in DOMAIN qs, qs[i].op = "New"
               PROVE  qs[i].key \in CreatedBy(rs) \cup
                                      (IF r.op = "New" THEN {r.key} ELSE {})
    BY DEF CreatedBy
  <2> QED BY <1>1, <1>2 DEF CreatedBy
<1>4. ASSUME NEW k \in Key, CreatesFirst(qs, k)
      PROVE  \/ CreatesFirst(rs, k)
             \/ Creates(r, k) /\ \A j \in DOMAIN rs : rs[j].key # k
  <2>1. PICK i \in DOMAIN qs : /\ Creates(qs[i], k)
                               /\ \A j \in DOMAIN qs : j < i => qs[j].key # k
    BY <1>4 DEF CreatesFirst
  <2>2. CASE i \in 1 .. Len(rs)
    <3>1. Creates(rs[i], k) /\ i \in DOMAIN rs
      BY <1>1, <2>1, <2>2
    <3>2. \A j \in DOMAIN rs : j < i => rs[j].key # k
      BY SMTT(30), <1>1, <2>1
    <3> QED BY <3>1, <3>2 DEF CreatesFirst
  <2>3. CASE i = Len(rs) + 1
    <3>1. \A j \in DOMAIN rs : j \in DOMAIN qs /\ j < i
      BY SMTT(30), <1>1, <2>3
    <3>2. \A j \in DOMAIN rs : rs[j].key # k
      BY <1>1, <2>1, <3>1
    <3> QED BY <1>1, <2>1, <2>3, <3>2
  <2> QED BY <1>2, <2>2, <2>3
<1> QED BY <1>3, <1>4 DEF qs

\* What is not there and not created is not there afterwards (Commit).
LEMMA AbsentStays ==
    ASSUME NEW t \in Table, NEW rs \in Seq(Op), NEW k \in Key,
           t[k] = Absent, k \notin CreatedBy(rs)
    PROVE  PlayAll(t, rs)[k] = Absent
<1>1. PICK f \in [0 .. Len(rs) -> Table] :
          /\ f[0] = t /\ PlayAll(t, rs) = f[Len(rs)]
          /\ \A j \in 1 .. Len(rs) : f[j] = Play(f[j - 1], rs[j])
  BY PlayAllSteps, Inductive
<1>2. Plays(f, t, rs) /\ Len(rs) \in 0 .. Len(rs)
  BY SMTT(30), <1>1 DEF Plays
<1>3. f[Len(rs)][k] # Absent <=> LivesAfter(t, rs, k, Len(rs))
  BY <1>2, PlayedLives
<1>4. \A c \in 1 .. Len(rs) : ~Creates(rs[c], k)
  BY SMTT(30) DEF CreatedBy, Creates
<1> QED BY <1>1, <1>3, <1>4 DEF LivesAfter

\* A commit keeps Apart, of whatever it writes.
LEMMA CommitApart ==
    ASSUME TInv, Apart, parked' = parked, ops' = <<>>,
           table' = PlayAll(table, ops)
    PROVE  Apart'
<1>1. table \in Table /\ ops \in Seq(Op)
  BY LogFacts
<1>2. CreatedBy(ops') = {} /\ \A k : ~CreatesFirst(ops', k)
  BY EmptyCreates
<1>3. ASSUME NEW rs \in parked, NEW k \in Key, CreatesFirst(rs, k)
      PROVE  table'[k] = Absent
  <2>1. table[k] = Absent /\ k \in CreatedBy(rs)
    BY <1>3, FirstIsCreated DEF Apart
  <2>2. k \notin CreatedBy(ops)
    BY <2>1 DEF Apart
  <2> QED BY <1>1, <2>1, <2>2, AbsentStays
<1> QED BY <1>2, <1>3 DEF Apart

\* What does not touch the transactions keeps Clients.
LEMMA ClientsFrame ==
    ASSUME Clients, mode \notin {"down", "reading"}, mode' \notin {"down", "reading"},
           UNCHANGED <<table, active, ops, parked>>
    PROVE  Clients'
BY DEF Clients, Apart

\* A process that has ended has no transactions.
LEMMA ClientsEnded ==
    ASSUME Ended
    PROVE  Clients'
BY DEF Ended, Clients

\* Nor has one that has just started.
LEMMA ClientsRecovered ==
    ASSUME Clients, mode = "reading", Recovered
    PROVE  Clients'
<1>1. parked' = {} /\ ops' = <<>>
  BY DEF Clients, Recovered
<1>2. Apart'
  BY <1>1, EmptyCreates DEF Apart
<1> QED BY <1>1, <1>2 DEF Clients

\* Every action keeps Clients.
LEMMA ClientsStep ==
    ASSUME TInv, Clients, [Next]_vars
    PROVE  Clients'
<1>0. TypeOK /\ table \in Table /\ ops \in Seq(Op)
  BY LogFacts
<1>a. /\ mode = "up" => Apart
      /\ mode = "up" => mode \notin {"down", "reading"}
  BY DEF Clients
<1>b. ASSUME Apart', mode' \in {"up", "syncing"} PROVE Clients'
  BY <1>b DEF Clients
<1>1. ASSUME NEW r \in Op, NEW nondurable \in BOOLEAN, AppendLog(r, nondurable)
      PROVE  Clients'
  <2>1. /\ mode = "up" /\ ~active /\ Allowed(r) /\ table' = Play(table, r)
        /\ mode' \in {"up", "syncing"} /\ UNCHANGED <<active, ops, parked>>
    BY <1>1 DEF AppendLog, AfterWrite
  <2>2. Apart /\ ops = <<>>
    BY <1>a, <2>1 DEF Apart
  <2>3. ASSUME NEW rs \in parked \cup {ops}, NEW k \in Key, CreatesFirst(rs, k)
        PROVE  table'[k] = Absent
    <3>1. rs \in parked /\ table[k] = Absent /\ k \in CreatedBy(rs)
      BY <2>2, <2>3, EmptyCreates, FirstIsCreated DEF Apart
    <3>2. ~Creates(r, k)
      BY <2>1, <3>1 DEF Allowed, Creates
    <3> QED BY ZenonT(60), <1>0, <2>1, <3>1, <3>2, PlayOne
  <2>4. Apart'
    BY <2>1, <2>2, <2>3 DEF Apart
  <2> QED BY <1>b, <2>1, <2>4
<1>2. ASSUME NEW r \in Op, AppendToTransaction(r) PROVE Clients'
  <2>1. /\ mode = "up" /\ mode' = "up" /\ active /\ Allowed(r)
        /\ ops' = Append(ops, r) /\ UNCHANGED <<table, active, parked>>
    BY <1>2 DEF AppendToTransaction
  <2>2. Apart
    BY <1>a, <2>1
  <2>3. /\ CreatedBy(ops') \subseteq
             CreatedBy(ops) \cup (IF r.op = "New" THEN {r.key} ELSE {})
        /\ \A k \in Key : CreatesFirst(ops', k) =>
             \/ CreatesFirst(ops, k)
             \/ Creates(r, k) /\ \A j \in DOMAIN ops : ops[j].key # k
    BY <1>0, <2>1, OneMore
  <2>4. \A rs \in parked : CreatedBy(rs) \cap CreatedBy(ops') = {}
    BY SMTT(30), <2>1, <2>2, <2>3 DEF Apart, Allowed
  <2>5. ASSUME NEW k \in Key, CreatesFirst(ops', k)
        PROVE  table[k] = Absent
    <3>1. CASE CreatesFirst(ops, k)
      BY <2>2, <3>1 DEF Apart
    <3>2. CASE Creates(r, k) /\ \A j \in DOMAIN ops : ops[j].key # k
      <4>1. ~AdExists(k)
        BY <2>1, <3>2 DEF Allowed, Creates
      <4>2. ~LivesAfter(table, ops, k, Len(ops))
        BY <1>0, <4>1, ExistsFacts
      <4>3. \A j \in 1 .. Len(ops) : ~Destroys(ops[j], k)
        BY SMTT(30), <1>0, <3>2 DEF Destroys
      <4> QED BY <4>2, <4>3 DEF LivesAfter
    <3> QED BY <2>3, <2>5, <3>1, <3>2
  <2>6. Apart'
    <3>1. \A rs \in parked \cup {ops'}, k \in Key :
              CreatesFirst(rs, k) => table'[k] = Absent
      BY ZenonT(60), <2>1, <2>2, <2>5 DEF Apart
    <3> QED BY <2>1, <2>2, <2>4, <3>1 DEF Apart
  <2> QED BY <1>b, <2>1, <2>6
<1>3. CASE BeginTransaction
  <2>1. mode = "up" /\ mode' = "up" /\ active' /\ UNCHANGED <<table, ops, parked>>
    BY <1>3 DEF BeginTransaction
  <2>2. Apart'
    BY <1>a, <2>1 DEF Apart
  <2> QED BY <1>b, <2>1, <2>2
<1>4. CASE AbortTransaction
  <2>1. mode = "up" /\ mode' = "up" /\ ops' = <<>> /\ UNCHANGED <<table, parked>>
    BY <1>4 DEF AbortTransaction
  <2>2. Apart'
    BY <1>a, <2>1, EmptyCreates DEF Apart
  <2> QED BY <1>b, <2>1, <2>2
<1>5. ASSUME NEW nondurable \in BOOLEAN, CommitTransaction(nondurable)
      PROVE  Clients'
  <2>1. mode = "up" /\ ops' = <<>> /\ mode' \in {"up", "syncing"} /\ UNCHANGED parked
    BY <1>5 DEF CommitTransaction, AfterWrite
  <2>2. CASE ops = <<>>
    <3>1. UNCHANGED <<table, ops>>
      BY <1>5, <2>1, <2>2 DEF CommitTransaction
    <3>2. Apart'
      BY <1>a, <2>1, <2>2, <3>1 DEF Apart
    <3> QED BY <1>b, <2>1, <3>2
  <2>3. CASE ops # <<>>
    <3>1. table' = PlayAll(table, ops)
      BY <1>5, <2>3 DEF CommitTransaction
    <3> QED BY <1>a, <1>b, <2>1, <3>1, CommitApart
  <2> QED BY <2>2, <2>3
<1>6. ASSUME NEW k \in Len(log) .. Len(CommitLog) - 1, NEW torn \in BOOLEAN,
             CommitLosing(k, torn)
      PROVE  Clients'
  <2>1. /\ mode = "up" /\ mode' = "up" /\ ops' = <<>> /\ UNCHANGED parked
        /\ table' = PlayAll(table, ops)
    BY <1>6 DEF CommitLosing
  <2> QED BY <1>a, <1>b, <2>1, CommitApart
<1>7. CASE Sync \/ FlushLog
  <2>1. /\ mode \in {"up", "syncing"} /\ mode' \in {"up", "syncing"}
        /\ UNCHANGED <<table, active, ops, parked>>
    BY <1>7 DEF Sync, FlushLog, memory
  <2> QED BY <2>1, ClientsFrame
<1>8. CASE getActiveTransaction
  <2>1. /\ mode = "up" /\ mode' = "up" /\ ops' = <<>> /\ UNCHANGED table
        /\ parked' = parked \cup {ops}
    BY <1>8 DEF getActiveTransaction
  <2>2. Apart
    BY <1>a, <2>1
  <2>3. \A rs, qs \in parked' : rs = qs \/ CreatedBy(rs) \cap CreatedBy(qs) = {}
    BY <2>1, <2>2 DEF Apart
  <2>4. Apart'
    BY <2>1, <2>2, <2>3, EmptyCreates DEF Apart
  <2> QED BY <1>b, <2>1, <2>4
<1>9. ASSUME NEW rs \in parked, setActiveTransaction(rs) PROVE Clients'
  <2>1. /\ mode = "up" /\ mode' = "up" /\ ops' = rs /\ UNCHANGED table
        /\ active' /\ parked' = parked \ {rs}
    BY <1>9 DEF setActiveTransaction
  <2>2. Apart
    BY <1>a, <2>1
  <2>3. Apart'
    BY <2>1, <2>2 DEF Apart
  <2> QED BY <1>b, <2>1, <2>3
<1>10. CASE \/ TruncLog \/ TruncLogSkipped \/ (\E k \in left : LogState(k))
            \/ \E cut \in BOOLEAN : Rotated(cut)
  <2>1. /\ mode \in {"up", "rotating"} /\ mode' \in {"up", "rotating"}
        /\ UNCHANGED <<table, active, ops, parked>>
    BY <1>10 DEF TruncLog, TruncLogSkipped, LogState, Rotated, memory
  <2> QED BY <2>1, ClientsFrame
<1>11. CASE RotateFails
  <2>1. CASE forced
    BY <1>11, <2>1, ClientsEnded DEF RotateFails
  <2>2. CASE ~forced
    <3>1. /\ mode = "rotating" /\ mode' = "up"
          /\ UNCHANGED <<table, active, ops, parked>>
      BY <1>11, <2>2 DEF RotateFails, memory
    <3> QED BY <3>1, ClientsFrame
  <2> QED BY <2>1, <2>2
<1>12. ASSUME NEW k \in 0 .. Len(log), NEW torn \in BOOLEAN,
              Kill(k, torn) \/ Power(k, torn)
       PROVE  Clients'
  BY <1>12, ClientsEnded DEF Kill, Power
<1>13. CASE Open \/ ReadLogEntry
  BY <1>13 DEF Open, ReadLogEntry, Clients, memory
<1>14. CASE ReadBadRecord
  BY <1>14, ClientsEnded DEF ReadBadRecord
<1>15. CASE FinishClean \/ FinishRotating
  BY <1>15, ClientsRecovered DEF FinishClean, FinishRotating, AtLogEnd
<1>16. CASE FinishUnrotated
  BY <1>16, ClientsRecovered, ClientsEnded DEF FinishUnrotated, AtLogEnd
<1>17. CASE UNCHANGED vars
  BY <1>17 DEF Clients, Apart, vars, memory
<1> QED
  BY SMTT(30), <1>1, <1>2, <1>3, <1>4, <1>5, <1>6, <1>7, <1>8, <1>9, <1>10, <1>11, <1>12,
     <1>13, <1>14, <1>15, <1>16, <1>17
  DEF Next, Restart

\* What LookupInTransaction answers for an ad that lives throughout.
LEMMA LookupFacts ==
    ASSUME ops \in Seq(Op), NEW k \in Key, LivesThroughout(k)
    PROVE  /\ Steady(ops, k)
           /\ \/ /\ \A j \in 1 .. Len(ops) : ~Values(ops[j], k)
                 /\ LookupInTransaction(k) = "none"
              \/ \E v \in 1 .. Len(ops) :
                    /\ Values(ops[v], k)
                    /\ \A j \in v + 1 .. Len(ops) : ~Values(ops[j], k)
                    /\ LookupInTransaction(k) =
                         IF ops[v].op = "Delete" THEN "deleted" ELSE ops[v].val
<1> DEFINE life == Places(k, {"New", "Destroy"})
           value == Places(k, {"Set", "Delete"})
           destroyed == life # {} /\ Latest(life).op = "Destroy"
<1>1. DOMAIN ops = 1 .. Len(ops) /\ Len(ops) \in Nat
  BY SMTT(30)
<1>2. /\ \A i \in 1 .. Len(ops) : i \in value <=> Values(ops[i], k)
      /\ value \in SUBSET DOMAIN ops /\ value \subseteq 1 .. Len(ops)
  BY <1>1 DEF Places, Values
<1>3. AdExists(k) /\ AdExists(k) = IF life = {} THEN table[k] # Absent
                                   ELSE Latest(life).op = "New"
  BY DEF AdExists, LivesThroughout
<1>4. ~destroyed
  BY ZenonT(60), <1>3
<1>5. LookupInTransaction(k) =
          IF destroyed \/ (value # {} /\ Latest(value).op = "Delete") THEN "deleted"
          ELSE IF value # {} THEN Latest(value).val
          ELSE "none"
  BY DEF LookupInTransaction
<1>6. Steady(ops, k)
  <2>1. \A i, j \in 1 .. Len(ops) : i < j /\ ops[i].key = k => ~Creates(ops[j], k)
    BY ZenonT(60), <1>1 DEF LivesThroughout, Creates
  <2>2. LivesAfter(table, ops, k, Len(ops))
    BY <1>3, ExistsFacts
  <2>3. ASSUME NEW d \in 1 .. Len(ops), Destroys(ops[d], k) PROVE FALSE
    <3>1. PICK c \in 1 .. Len(ops) :
              /\ Creates(ops[c], k) /\ \A j \in c + 1 .. Len(ops) : ~Destroys(ops[j], k)
      BY <2>2, <2>3 DEF LivesAfter
    <3>2. c # d /\ ~(c < d)
      BY SMTT(30), <1>1, <2>3, <3>1 DEF Creates, Destroys
    <3>3. d < c
      BY SMTT(30), <1>1, <3>2
    <3> QED BY <2>1, <2>3, <3>1, <3>3 DEF Destroys
  <2> QED BY <2>1, <2>3 DEF Steady
<1> HIDE DEF life, value, destroyed
<1>7. CASE value = {}
  BY ZenonT(60), <1>2, <1>4, <1>5, <1>6, <1>7
<1>8. CASE value # {}
  <2>1. PICK v \in value : (\A j \in value : j <= v) /\ Latest(value) = ops[v]
    BY <1>2, <1>8, LatestPlace
  <2>2. v \in 1 .. Len(ops) /\ Values(ops[v], k)
    BY <1>2, <2>1
  <2>3. \A j \in v + 1 .. Len(ops) : ~Values(ops[j], k)
    <3> SUFFICES ASSUME NEW j \in v + 1 .. Len(ops)
                 PROVE  j \notin value /\ j \in 1 .. Len(ops)
      BY <1>2
    <3>1. v \in Nat /\ j \in Nat /\ ~(j <= v) /\ j >= 1 /\ j <= Len(ops)
      BY SMTT(30), <1>1, <2>2
    <3> QED BY SMTT(30), <1>1, <2>1, <3>1
  <2>4. LookupInTransaction(k) = IF ops[v].op = "Delete" THEN "deleted" ELSE ops[v].val
    BY <1>4, <1>5, <1>8, <2>1
  <2> QED BY <1>6, <2>2, <2>3, <2>4
<1> QED BY <1>7, <1>8

\* What a client is told of an attribute is what its commit would leave.
LEMMA LookupHolds ==
    ASSUME TInv, Clients
    PROVE  LookupAsCommitted
<1> SUFFICES ASSUME mode = "up", NEW k \in Key, LivesThroughout(k)
             PROVE  CASE LookupInTransaction(k) = "deleted" -> Committed[k] = Empty
                      [] LookupInTransaction(k) = "none" ->
                             Committed[k] = IF table[k] = Absent THEN Empty ELSE table[k]
                      [] OTHER -> Committed[k] = LookupInTransaction(k)
  BY DEF LookupAsCommitted
<1> DEFINE n == Len(ops)
<1>1. table \in Table /\ ops \in Seq(Op) /\ n \in Nat /\ DOMAIN ops = 1 .. n
  BY SMTT(30), LogFacts
<1>2. PICK f \in [0 .. n -> Table] :
          /\ f[0] = table /\ PlayAll(table, ops) = f[n]
          /\ \A j \in 1 .. n : f[j] = Play(f[j - 1], ops[j])
  BY <1>1, PlayAllSteps, Inductive
<1>3. Plays(f, table, ops) /\ n \in 0 .. n
  BY SMTT(30), <1>1, <1>2 DEF Plays
<1>4. Steady(ops, k)
  BY <1>1, LookupFacts
<1>5. LivesAfter(table, ops, k, n)
  BY <1>1, ExistsFacts DEF LivesThroughout
<1>6. table[k] # Absent \/ \E c \in 1 .. n : Creates(ops[c], k)
  BY <1>5 DEF LivesAfter
<1>7. LastValueCounts(table, ops, k, n, Committed[k])
  BY <1>1, <1>2, <1>3, <1>4, <1>6, PlayedValue DEF Committed
<1>8. ASSUME NEW v \in 1 .. n, Values(ops[v], k),
             \A j \in v + 1 .. n : ~Values(ops[j], k),
             LookupInTransaction(k) = IF ops[v].op = "Delete" THEN "deleted"
                                      ELSE ops[v].val
      PROVE  CASE LookupInTransaction(k) = "deleted" -> Committed[k] = Empty
               [] LookupInTransaction(k) = "none" ->
                      Committed[k] = IF table[k] = Absent THEN Empty ELSE table[k]
               [] OTHER -> Committed[k] = LookupInTransaction(k)
  <2>1. Committed[k] = ValueOf(ops[v])
    BY <1>7, <1>8 DEF LastValueCounts
  <2>2. CASE ops[v].op = "Delete"
    BY <1>8, <2>1, <2>2 DEF ValueOf
  <2>3. CASE ops[v].op = "Set"
    <3>1. ops[v] \in Op
      BY SMTT(30), <1>1, <1>8
    <3>2. ops[v].val \in Value
      BY <2>3, <3>1 DEF Op
    <3>3. ops[v].val # "deleted" /\ ops[v].val # "none"
      BY <3>2, ClassAdLogAssumption
    <3>4. Committed[k] = ops[v].val /\ LookupInTransaction(k) = ops[v].val
      BY <1>8, <2>1, <2>3 DEF ValueOf
    <3> QED BY <3>3, <3>4
  <2> QED BY <1>8, <2>2, <2>3 DEF Values
<1>9. ASSUME \A j \in 1 .. n : ~Values(ops[j], k), LookupInTransaction(k) = "none"
      PROVE  Committed[k] = IF table[k] = Absent THEN Empty ELSE table[k]
  <2>1. CASE \E c \in 1 .. n : Creates(ops[c], k)
    <3>1. PICK c \in 1 .. n : Creates(ops[c], k)
      BY <2>1
    <3>2. \A j \in 1 .. n : j < c => ops[j].key # k
      BY <1>4, <3>1 DEF Steady
    <3>3. CreatesFirst(ops, k)
      BY <1>1, <3>1, <3>2 DEF CreatesFirst
    <3>4. table[k] = Absent
      BY <3>3 DEF Clients, Apart
    <3> QED BY <1>7, <1>9, <2>1, <3>4 DEF LastValueCounts
  <2>2. CASE \A c \in 1 .. n : ~Creates(ops[c], k)
    BY ZenonT(60), <1>6, <1>7, <1>9, <2>2 DEF LastValueCounts
  <2> QED BY <2>1, <2>2
<1> QED BY <1>1, <1>8, <1>9, LookupFacts

\* A client that looks up an attribute in its transaction before it looks at the
\* table gets what its commit would leave, for every ad that lives throughout the
\* transaction, with any number of clients and whatever they have committed while
\* the transaction was parked (LookupInTransaction, ExamineTransaction).
THEOREM LookupIsCommitted == Spec => []LookupAsCommitted
<1>1. Init => Clients
  BY DEF Init, Clients
<1>2. TInv /\ Clients /\ [Next]_vars => Clients'
  BY ClientsStep
<1>3. TInv /\ Clients => LookupAsCommitted
  BY LookupHolds
<1> QED BY <1>1, <1>2, <1>3, TInvAlways, PTL DEF Spec

----------------------------------------------------------------------------
(* The historical logs.                                                    *)

INSTANCE FiniteSetTheorems

\* As many historical logs are kept as SetMaxHistoricalLogs allows, and those whose
\* removal failed or was not reached, whatever fails in a rotation and wherever the
\* process or the machine ends (SaveHistoricalLogs removes one log by its number).
THEOREM HistoryIsBounded == Spec => []HistoryBounded
<1>1. ASSUME TInv, Numbers PROVE HistoryBounded
  <2> DEFINE n == NumberOf(log)
  <2>1. n \in Nat /\ MaxHistory \in Nat
    BY <1>1, LogFacts, NumberOfType, ClassAdLogAssumption
  <2> HIDE DEF n
  <2>2. /\ IsFiniteSet(Before(n)) /\ Cardinality(Before(n)) = MaxHistory
        /\ IsFiniteSet(Saved(n)) /\ Cardinality(Saved(n)) = MaxHistory
    <3>1. n - MaxHistory \in Int /\ n - 1 \in Int /\ n - MaxHistory + 1 \in Int /\ n \in Int
      BY SMTT(30), <2>1
    <3>2. /\ IsFiniteSet(Before(n))
          /\ Cardinality(Before(n)) = IF n - MaxHistory > n - 1 THEN 0
                                      ELSE (n - 1) - (n - MaxHistory) + 1
      BY <3>1, FS_Interval DEF Before
    <3>3. /\ IsFiniteSet(Saved(n))
          /\ Cardinality(Saved(n)) = IF n - MaxHistory + 1 > n THEN 0
                                     ELSE n - (n - MaxHistory + 1) + 1
      BY <3>1, FS_Interval DEF Saved
    <3> QED BY SMTT(30), <2>1, <3>2, <3>3
  <2>3. saved \ missed \subseteq Before(n) \/ saved \ missed \subseteq Saved(n)
    BY <1>1 DEF Numbers, History, n
  <2>4. Cardinality(saved \ missed) <= MaxHistory
    BY <2>2, <2>3, FS_Subset
  <2> QED BY <2>4 DEF HistoryBounded
<1> QED BY <1>1, TInvAlways, NumbersAlways, PTL
=============================================================================
