-------------------------- MODULE ReplicatorProofs --------------------------
(***************************************************************************)
(* Proofs about Replicator, for any number of hosts, updates, elections    *)
(* and faults of every kind.                                               *)
(***************************************************************************)
EXTENDS Replicator, TLAPS

\* Most leaves are first-order; the ones with arithmetic, or much to rewrite, name SMT.
USE Zenon

----------------------------------------------------------------------------
(* The invariant: what holds of one host, of one transfer and of one       *)
(* message, and how far the hosts are ahead of one another.                *)

Leader == "REPLICATION_LEADER"

Disk == [ver : VersionFile, file : Content]

\* The version beside e has its gid, and is empty only if it was torn.
Readable(e, L) == e.ver.gid = 0 /\ (e.ver = Empty => "torn" \in L)

\* r is the daemon of a host, d its disk, p the updates it has not counted, h
\* whether its HAD leads, and L what has gone wrong.
HostOK(r, d, p, h, L) ==
    /\ r \in Daemon /\ d \in Disk /\ p \in Content /\ h \in BOOLEAN
    /\ r.requesting <=> r.state = "VERSION_REQUESTING"
    /\ r.downloading <=> r.state = "VERSION_DOWNLOADING"
    /\ r.ver.gid = 0 /\ Readable(d, L) /\ \A t \in r.list : t.ver.gid = 0
    /\ r.state \in {"BACKUP", Leader} => r.list = {}
    /\ r.state = "VERSION_REQUESTING" => r.pid = 0
    /\ r.state # "DOWN" /\ L \cap {"partial", "torn"} = {} => r.ver = d.ver
    /\ r.state = "DOWN" => r.behind = FALSE
    /\ r.state = Leader /\ "unheard" \notin L => h = TRUE
    /\ p # {} => r.behind \/ L \cap {"second", "forgotten"} # {}
    /\ "single" \notin r.failed
    /\ "synchronized" \in r.failed => L \cap {"partial", "torn"} # {}
    /\ "elected" \in r.failed => "unheard" \in L

Hosts ==
    /\ rep \in [Node -> Daemon] /\ disk \in [Node -> Disk]
    /\ pending \in [Node -> Content] /\ had \in [Node -> BOOLEAN]
    /\ \A n \in Node : HostOK(rep[n], disk[n], pending[n], had[n], lapses)

\* There is a number that they do not exceed.
Few(S) == \E k \in Nat : \E f : \A x \in S : \E i \in 1 .. k : x = f[i]

Transfers ==
    /\ transfers \subseteq Transfer /\ Few(transfers)
    /\ \A x \in transfers : Readable(x, lapses)
    /\ \A x \in transfers : rep[x.to].state = Leader => x.led

Messages ==
    /\ msgs \subseteq Message
    /\ \A m \in msgs : m.told.ver.gid = 0

Numbers ==
    /\ updates \in 0 .. MaxUpdates /\ elections \in 0 .. MaxElections
    /\ faults \in 0 .. MaxFaults

History ==
    /\ labels \subseteq [clock : 0 .. INT_MAX, file : Content]
    /\ lapses \subseteq LapseKinds

Clock(n) == disk[n].ver.clock

\* Every clock up to c was given to a file all of whose updates are in f,
\* according to the labels L.
Labelled(L, c, f) == \A k \in 0 .. c : \E l \in L : l.clock = k /\ l.file \subseteq f

Live(x) == x.phase # "failed"

\* What x brings, or is going to bring, is newer than what its host has.
Brings(x) ==
    /\ x.phase \in {"connecting", "uploading"} /\ ~x.led => Clock(x.from) > Clock(x.to)
    /\ x.phase \in {"copied", "done"} /\ ~x.led => x.ver.clock > Clock(x.to)
    /\ x.phase = "copied" => x.ver.clock <= Clock(x.from)
    /\ x.phase = "done" => Labelled(labels, x.ver.clock, x.file)

Bounded(t) == t.ver.clock <= Clock(t.from)

Ordered ==
    /\ \A n \in Node : Labelled(labels, Clock(n), disk[n].file)
    /\ \A m \in msgs : Bounded(m.told)
    /\ \A n \in Node : \A t \in rep[n].list : Bounded(t)
    /\ \A x \in transfers : Live(x) => Brings(x)
    /\ \A x, y \in transfers : x.to = y.to /\ Live(x) /\ Live(y) => x = y

\* The inductive invariant.
RepInv ==
    /\ Hosts /\ Transfers /\ Messages /\ Numbers /\ History
    /\ Clean => Ordered

\* The invariant implies the types, ...
LEMMA InvTypes == RepInv => TypeOK
<1> SUFFICES ASSUME RepInv
             PROVE  TypeOK
  OBVIOUS
<1>1. \A n \in Node : /\ rep[n].requesting <=> rep[n].state = "VERSION_REQUESTING"
                      /\ rep[n].downloading <=> rep[n].state = "VERSION_DOWNLOADING"
  BY DEF RepInv, Hosts, HostOK
<1> QED
  BY <1>1 DEF TypeOK, RepInv, Hosts, Disk, Transfers, Messages, Numbers, History

\* ... that no gid is selected, ...
LEMMA InvNoGid == RepInv => NoGidSelected
BY DEF RepInv, Hosts, HostOK, Readable, NoGidSelected, Leader

\* ... the assertions, ...
LEMMA InvAssertions == RepInv => AssertionsHold
BY DEF RepInv, Hosts, HostOK, AssertionsHold

\* ... that updates are counted, ...
LEMMA InvUpdates == RepInv => UpdateWillBeCounted
BY DEF RepInv, Hosts, HostOK, UpdateWillBeCounted

\* ... and that clocks are honest.
LEMMA InvClocks == RepInv => ClockNeverOverstates
<1> SUFFICES ASSUME RepInv, Clean, NEW n \in Node
             PROVE  \E l \in labels : /\ l.clock = disk[n].ver.clock
                                      /\ l.file \subseteq disk[n].file
  BY DEF ClockNeverOverstates
<1>0. disk[n] \in Disk /\ disk[n].ver # Empty
  BY DEF RepInv, Hosts, HostOK, Readable, Clean
<1>1. Labelled(labels, Clock(n), disk[n].file) /\ Clock(n) \in Nat
  BY SMTT(30), <1>0 DEF RepInv, Ordered, Disk, VersionFile, Version, Clock
<1>2. Clock(n) \in 0 .. Clock(n)
  BY SMTT(30), <1>1
<1> QED
  BY <1>1, <1>2 DEF Labelled, Clock

----------------------------------------------------------------------------
(* One host.                                                               *)

\* A clock is a number, and that of a version is not the one of an empty file.
LEMMA ClockIsInt == \A v \in VersionFile : v.clock \in Int
BY SMTT(30), ReplicatorAssumption DEF VersionFile, Version, Empty

LEMMA NotEmpty == Empty \notin Version
BY SMTT(30), ReplicatorAssumption DEF Version, Empty

\* What has gone wrong only adds excuses.
LEMMA HostGrows ==
    ASSUME NEW r, NEW d, NEW p, NEW h, NEW L, NEW M, L \subseteq M,
           HostOK(r, d, p, h, L)
    PROVE  HostOK(r, d, p, h, M)
<1>1. Readable(d, L) => Readable(d, M)
  BY DEF Readable
<1>2. /\ L \cap {"partial", "torn"} # {} => M \cap {"partial", "torn"} # {}
      /\ L \cap {"second", "forgotten"} # {} => M \cap {"second", "forgotten"} # {}
  OBVIOUS
<1> QED
  BY <1>1, <1>2 DEF HostOK

\* A step at one host keeps Hosts when it does so for that host.
LEMMA OneHost ==
    ASSUME Hosts, NEW n \in Node, NEW r, NEW d, NEW p, NEW h,
           rep' = [rep EXCEPT ![n] = r], disk' = [disk EXCEPT ![n] = d],
           pending' = [pending EXCEPT ![n] = p], had' = [had EXCEPT ![n] = h],
           lapses \subseteq lapses', HostOK(r, d, p, h, lapses')
    PROVE  Hosts'
<1>1. r \in Daemon /\ d \in Disk /\ p \in Content /\ h \in BOOLEAN
  BY DEF HostOK
<1>2. /\ rep' \in [Node -> Daemon] /\ disk' \in [Node -> Disk]
      /\ pending' \in [Node -> Content] /\ had' \in [Node -> BOOLEAN]
  BY <1>1 DEF Hosts
<1>3. ASSUME NEW k \in Node
      PROVE  HostOK(rep'[k], disk'[k], pending'[k], had'[k], lapses')
  <2>1. CASE k = n
    BY <2>1 DEF Hosts
  <2>2. CASE k # n
    <3>1. HostOK(rep[k], disk[k], pending[k], had[k], lapses)
      BY DEF Hosts
    <3>2. /\ rep'[k] = rep[k] /\ disk'[k] = disk[k] /\ pending'[k] = pending[k]
          /\ had'[k] = had[k]
      BY <2>2 DEF Hosts
    <3> QED
      BY <3>1, <3>2, HostGrows
  <2> QED
    BY <2>1, <2>2
<1> QED
  BY <1>2, <1>3 DEF Hosts

\* What a step leaves alone it replaces by itself.
LEMMA SameHost ==
    ASSUME Hosts, NEW n \in Node
    PROVE  /\ rep = [rep EXCEPT ![n] = rep[n]] /\ disk = [disk EXCEPT ![n] = disk[n]]
           /\ pending = [pending EXCEPT ![n] = pending[n]]
           /\ had = [had EXCEPT ![n] = had[n]]
           /\ HostOK(rep[n], disk[n], pending[n], had[n], lapses)
           /\ rep[n] \in Daemon /\ disk[n] \in Disk
BY DEF Hosts

\* The daemon r ends, leaves e on its disk, and M are the lapses then.
Leaves(r, d, p, h, L, e, M) ==
    /\ HostOK(r, d, p, h, L) /\ L \subseteq M
    /\ e \in Disk /\ Readable(e, M)
    /\ p # {} => "forgotten" \in M

\* A daemon that has ended, whatever it left on its disk.
LEMMA StoppedOK ==
    ASSUME NEW n \in Node, NEW d, NEW p, NEW h, NEW g \in BOOLEAN, NEW L, NEW e, NEW M,
           Leaves(rep[n], d, p, h, L, e, M)
    PROVE  /\ HostOK(Stopped(n), e, p, g, M)
           /\ Stopped(n) \in Daemon /\ Stopped(n).list = {}
           /\ Stopped(n).state = "DOWN" /\ Stopped(n).failed = rep[n].failed
<1> DEFINE s == Stopped(n)
<1>0. rep[n] \in Daemon /\ 0 \in Nat /\ Fresh \in Version /\ p \in Content
  BY SMTT(30), ReplicatorAssumption DEF Leaves, HostOK, Fresh, Version
<1>1. s \in Daemon
  BY <1>0 DEF Daemon, Stopped, States
<1>2. /\ s.state = "DOWN" /\ s.ver = Fresh /\ s.list = {} /\ s.requesting = FALSE
      /\ s.downloading = FALSE /\ s.pid = 0 /\ s.failed = rep[n].failed /\ s.behind = FALSE
  BY <1>0 DEF Daemon, Stopped
<1> HIDE DEF s
<1>3. /\ "single" \notin s.failed
      /\ "synchronized" \in s.failed => M \cap {"partial", "torn"} # {}
      /\ "elected" \in s.failed => "unheard" \in M
      /\ p # {} => M \cap {"second", "forgotten"} # {}
  BY <1>2 DEF Leaves, HostOK
<1>4. /\ s.ver.gid = 0 /\ e \in Disk /\ Readable(e, M) /\ "DOWN" # Leader
      /\ \A t \in s.list : t.ver.gid = 0
  <2>1. Fresh.gid = 0 /\ "DOWN" # Leader
    BY DEF Fresh, Leader
  <2>2. e \in Disk /\ Readable(e, M)
    BY DEF Leaves
  <2> QED
    BY <1>2, <2>1, <2>2
<1>5. /\ s.requesting <=> s.state = "VERSION_REQUESTING"
      /\ s.downloading <=> s.state = "VERSION_DOWNLOADING"
      /\ s.state # "VERSION_REQUESTING" /\ s.state \notin {"BACKUP", Leader}
  BY <1>2, <1>4
<1>6. HostOK(s, e, p, g, M)
  BY <1>0, <1>1, <1>2, <1>3, <1>4, <1>5 DEF HostOK
<1> QED
  BY <1>1, <1>2, <1>6 DEF s

\* What a daemon may end itself for, when these are the lapses.
Excused(why, L) ==
    /\ why \in {"synchronized", "elected", "clock"}
    /\ why = "synchronized" => L \cap {"partial", "torn"} # {}
    /\ why = "elected" => "unheard" \in L

Ended(n, why) == [Stopped(n) EXCEPT !.failed = @ \cup {why}]

\* A daemon that ends itself for a good reason.
LEMMA EndedOK ==
    ASSUME NEW n \in Node, NEW g \in BOOLEAN, NEW e, NEW M,
           Leaves(rep[n], disk[n], pending[n], had[n], lapses, e, M),
           NEW why, Excused(why, lapses)
    PROVE  /\ HostOK(Ended(n, why), e, pending[n], g, M)
           /\ Ended(n, why).list = {} /\ Ended(n, why).state = "DOWN"
<1> DEFINE p == pending[n]
           s == Stopped(n)
           r == [s EXCEPT !.failed = s.failed \cup {why}]
<1>1. /\ HostOK(s, e, p, g, M) /\ s \in Daemon /\ s.list = {}
      /\ s.state = "DOWN" /\ s.failed = rep[n].failed
  BY StoppedOK
<1> HIDE DEF s
<1>2. r \in Daemon
  BY <1>1 DEF Daemon, Asserts, Excused
<1>3. /\ r.state = s.state /\ r.ver = s.ver /\ r.list = s.list
      /\ r.requesting = s.requesting /\ r.downloading = s.downloading
      /\ r.pid = s.pid /\ r.failed = s.failed \cup {why} /\ r.behind = s.behind
  BY <1>1 DEF Daemon
<1> HIDE DEF r
<1>4. /\ why = "synchronized" => M \cap {"partial", "torn"} # {}
      /\ why = "elected" => "unheard" \in M
      /\ why # "single"
  BY DEF Leaves, Excused
<1>5. HostOK(r, e, p, g, M)
  BY <1>1, <1>2, <1>3, <1>4 DEF HostOK
<1> QED
  BY <1>1, <1>3, <1>5 DEF r, s, Ended

\* The version that a daemon starts with.
LEMMA RereadOK ==
    ASSUME NEW n \in Node, NEW p, NEW h, NEW L, HostOK(rep[n], disk[n], p, h, L)
    PROVE  LET e == [disk[n] EXCEPT !.ver = Reread(n)] IN
           /\ Reread(n) \in Version /\ Reread(n).gid = 0 /\ Reread(n) # Empty
           /\ e \in Disk /\ e.ver = Reread(n) /\ e.file = disk[n].file
           /\ "torn" \notin L => Reread(n) = disk[n].ver
<1>1. /\ rep[n].ver \in Version /\ rep[n].ver.gid = 0 /\ disk[n] \in Disk
      /\ Readable(disk[n], L)
  BY DEF HostOK, Daemon
<1>2. Reread(n) \in Version /\ Reread(n).gid = 0
  BY <1>1 DEF Reread, Disk, VersionFile, Readable
<1>3. "torn" \notin L => Reread(n) = disk[n].ver
  BY <1>1 DEF Reread, Readable
<1>4. Reread(n) # Empty
  BY <1>2, NotEmpty
<1> QED
  BY <1>1, <1>2, <1>3, <1>4 DEF Disk, VersionFile

\* A daemon that (re)initializes itself has read its version file.
LEMMA ReinitializedOK ==
    ASSUME NEW n \in Node, NEW p, NEW h, NEW L, HostOK(rep[n], disk[n], p, h, L),
           NEW M, L \subseteq M, p # {} => M \cap {"second", "forgotten"} # {}
    PROVE  LET r == Reinitialized(n)
               e == [disk[n] EXCEPT !.ver = Reread(n)] IN
           /\ HostOK(r, e, p, h, M)
           /\ r.ver = e.ver /\ r.list = rep[n].list
           /\ r.state = "VERSION_REQUESTING"
<1> DEFINE r == Reinitialized(n)
           v == Reread(n)
           e == [disk[n] EXCEPT !.ver = v]
<1>0. rep[n] \in Daemon /\ 0 \in Nat /\ p \in Content /\ h \in BOOLEAN
  BY DEF HostOK
<1>1. v \in Version /\ v.gid = 0 /\ v # Empty /\ e \in Disk /\ e.ver = v
  BY RereadOK
<1> HIDE DEF e
<1>2. r = [rep[n] EXCEPT !.ver = v, !.behind = FALSE, !.state = "VERSION_REQUESTING",
                         !.requesting = TRUE, !.downloading = FALSE, !.pid = 0]
  BY <1>0, <1>1 DEF Reinitialized, Loaded, Daemon
<1> HIDE DEF v
<1>3. r \in Daemon
  BY <1>0, <1>1, <1>2 DEF Daemon, States
<1>4. /\ r.state = "VERSION_REQUESTING" /\ r.ver = v /\ r.list = rep[n].list
      /\ r.requesting = TRUE /\ r.downloading = FALSE /\ r.pid = 0
      /\ r.failed = rep[n].failed
  BY <1>0, <1>2 DEF Daemon
<1> HIDE DEF r
<1>5. /\ "single" \notin r.failed
      /\ "synchronized" \in r.failed => M \cap {"partial", "torn"} # {}
      /\ "elected" \in r.failed => "unheard" \in M
      /\ \A t \in r.list : t.ver.gid = 0
  BY <1>4 DEF HostOK
<1>6. Readable(e, M)
  BY <1>1 DEF Readable
<1>7. HostOK(r, e, p, h, M)
  BY <1>0, <1>1, <1>3, <1>4, <1>5, <1>6 DEF HostOK, Leader
<1> QED
  BY <1>1, <1>4, <1>7 DEF r, e, v

\* s is the daemon r when it has stopped asking for versions.
Asked(r, s) ==
    /\ s \in Daemon /\ s.requesting = FALSE /\ s.ver = r.ver /\ s.failed = r.failed
    /\ s.behind = r.behind /\ r.state \in {"VERSION_REQUESTING", "VERSION_DOWNLOADING"}

\* A daemon that has joined.
LEMMA JoinedOK ==
    ASSUME NEW r, NEW d, NEW p, NEW h, NEW L, HostOK(r, d, p, h, L),
           NEW s, Asked(r, s)
    PROVE  HostOK(Joined(s), d, p, h, L) /\ Joined(s).list = {} /\ Joined(s).state = "BACKUP"
<1> DEFINE j == Joined(s)
<1>1. /\ s \in Daemon /\ s.requesting = FALSE /\ s.ver = r.ver /\ s.failed = r.failed
      /\ s.behind = r.behind /\ r.state \in {"VERSION_REQUESTING", "VERSION_DOWNLOADING"}
  BY DEF Asked
<1>2. j \in Daemon
  BY <1>1 DEF Daemon, Joined, States
<1>3. /\ j.state = "BACKUP" /\ j.ver = s.ver /\ j.list = {} /\ j.requesting = FALSE
      /\ j.downloading = FALSE /\ j.failed = s.failed /\ j.behind = s.behind
  BY <1>1 DEF Daemon, Joined
<1> HIDE DEF j
<1>4. HostOK(j, d, p, h, L)
  BY <1>1, <1>2, <1>3 DEF HostOK, Leader
<1> QED
  BY <1>3, <1>4 DEF j

\* The pid that is remembered matters only where a download starts.
LEMMA PidOK ==
    ASSUME NEW r, NEW d, NEW p, NEW h, NEW L, HostOK(r, d, p, h, L),
           NEW k \in Nat, r.state = "VERSION_REQUESTING" => k = 0
    PROVE  LET q == [r EXCEPT !.pid = k] IN
           /\ HostOK(q, d, p, h, L) /\ q.list = r.list /\ q.state = r.state
           /\ q.ver = r.ver /\ q.behind = r.behind
<1> DEFINE q == [r EXCEPT !.pid = k]
<1>0. r \in Daemon
  BY DEF HostOK
<1>1. q \in Daemon
  BY <1>0 DEF Daemon
<1>2. /\ q.state = r.state /\ q.ver = r.ver /\ q.list = r.list /\ q.behind = r.behind
      /\ q.requesting = r.requesting /\ q.downloading = r.downloading
      /\ q.failed = r.failed /\ q.pid = k
  BY <1>0 DEF Daemon
<1> HIDE DEF q
<1>3. HostOK(q, d, p, h, L)
  BY <1>1, <1>2 DEF HostOK
<1> QED
  BY <1>2, <1>3 DEF q

\* No versions are listed where a gid might be selected, so none is.
LEMMA NoGid ==
    ASSUME Hosts, NEW n \in Node, rep[n].state \in {"BACKUP", Leader},
           SelectGid(n, Leader)
    PROVE  /\ rep' = [rep EXCEPT ![n] = [rep[n] EXCEPT !.state = Leader]]
           /\ disk' = disk
<1>1. rep[n] \in Daemon /\ rep[n].list = {} /\ rep \in [Node -> Daemon]
  BY DEF Hosts, HostOK
<1>2. gidSelection(rep[n]) = {rep[n].ver.gid}
  BY <1>1 DEF gidSelection
<1> DEFINE v == [rep[n].ver EXCEPT !.gid = rep[n].ver.gid]
<1>3. v = rep[n].ver
  BY <1>1 DEF Daemon, Version
<1>4. /\ rep' = [rep EXCEPT ![n].state = Leader, ![n].ver = v]
      /\ disk' = IF v = rep[n].ver THEN disk ELSE [disk EXCEPT ![n].ver = v]
  BY <1>2 DEF SelectGid
<1> HIDE DEF v
<1>5. rep' = [rep EXCEPT ![n].state = Leader, ![n].ver = rep[n].ver]
  BY <1>3, <1>4
<1>6. [[rep[n] EXCEPT !.state = Leader] EXCEPT !.ver = rep[n].ver]
          = [rep[n] EXCEPT !.state = Leader]
  BY <1>1 DEF Daemon
<1>7. rep' = [rep EXCEPT ![n] = [[rep[n] EXCEPT !.state = Leader] EXCEPT !.ver = rep[n].ver]]
  BY <1>1, <1>5
<1> QED
  BY <1>3, <1>4, <1>6, <1>7

\* A backup that becomes leader.
LEMMA LeaderOK ==
    ASSUME NEW r, NEW d, NEW p, NEW h, NEW L, HostOK(r, d, p, h, L), r.state = "BACKUP"
    PROVE  LET q == [r EXCEPT !.state = Leader] IN
           HostOK(q, d, p, TRUE, L) /\ q.list = r.list
<1> DEFINE q == [r EXCEPT !.state = Leader]
<1>0. r \in Daemon
  BY DEF HostOK
<1>1. q \in Daemon
  BY <1>0 DEF Daemon, States, Leader
<1>2. /\ q.state = Leader /\ q.ver = r.ver /\ q.list = r.list /\ q.behind = r.behind
      /\ q.requesting = r.requesting /\ q.downloading = r.downloading
      /\ q.failed = r.failed
  BY <1>0 DEF Daemon
<1> HIDE DEF q
<1>3. HostOK(q, d, p, TRUE, L)
  BY <1>1, <1>2 DEF HostOK, Leader
<1> QED
  BY <1>2, <1>3 DEF q

\* A leader that steps down.
LEMMA BackupOK ==
    ASSUME NEW r, NEW d, NEW p, NEW h, NEW g \in BOOLEAN, NEW L, HostOK(r, d, p, h, L),
           r.state \in {"BACKUP", Leader}
    PROVE  LET q == [r EXCEPT !.state = "BACKUP"] IN
           HostOK(q, d, p, g, L) /\ q.list = r.list
<1> DEFINE q == [r EXCEPT !.state = "BACKUP"]
<1>0. r \in Daemon
  BY DEF HostOK
<1>1. q \in Daemon
  BY <1>0 DEF Daemon, States
<1>2. /\ q.state = "BACKUP" /\ q.ver = r.ver /\ q.list = r.list /\ q.behind = r.behind
      /\ q.requesting = r.requesting /\ q.downloading = r.downloading
      /\ q.failed = r.failed
  BY <1>0 DEF Daemon
<1> HIDE DEF q
<1>3. HostOK(q, d, p, g, L)
  BY <1>1, <1>2 DEF HostOK, Leader
<1> QED
  BY <1>2, <1>3 DEF q

----------------------------------------------------------------------------
(* The transferers.                                                        *)

\* What a signal, an election or an answer makes of a transferer x.
Tame(x, y) ==
    /\ y.to = x.to /\ y.from = x.from /\ y.ver = x.ver /\ y.file = x.file
    /\ x.led => y.led
    /\ \/ y.phase \in {x.phase, "failed"}
       \/ x.phase = "connecting" /\ y.phase = "uploading"

\* Each transferer of T was one of S.
Tamer(S, T) ==
    \E g \in [S -> Transfer] : /\ \A x \in S : Tame(x, g[x])
                               /\ T \subseteq {g[x] : x \in S}

\* Removing transferers is tame.
LEMMA TamerSubset ==
    ASSUME NEW S, NEW T, NEW U, Tamer(S, T), U \subseteq T
    PROVE  Tamer(S, U)
BY DEF Tamer

\* Doing nothing is tame.
LEMMA TamerSame ==
    ASSUME NEW S, S \subseteq Transfer
    PROVE  Tamer(S, S)
<1> DEFINE g == [x \in S |-> x]
<1>1. g \in [S -> Transfer] /\ \A x \in S : g[x] = x
  OBVIOUS
<1> HIDE DEF g
<1>2. \A x \in S : Tame(x, g[x])
  BY <1>1 DEF Tame
<1>3. S \subseteq {g[x] : x \in S}
  BY <1>1
<1> QED
  BY <1>1, <1>2, <1>3 DEF Tamer

\* Killing transferers is tame.
LEMMA TamerKill ==
    ASSUME transfers \subseteq Transfer, NEW V \in SUBSET transfers
    PROVE  Tamer(transfers, Kill(V))
<1> DEFINE g == [x \in transfers |-> IF x \in V THEN Killed(x) ELSE x]
<1>1. \A x \in transfers : Killed(x) \in Transfer /\ Tame(x, Killed(x))
  BY DEF Killed, Transfer, Phases, Tame
<1>2. g \in [transfers -> Transfer] /\ \A x \in transfers : Tame(x, g[x])
  BY <1>1 DEF Tame
<1>3. ASSUME NEW y \in Kill(V)
      PROVE  \E x \in transfers : y = g[x]
  BY DEF Kill
<1> HIDE DEF g
<1> QED
  BY <1>2, <1>3 DEF Tamer

\* An election of their host is tame.
LEMMA TamerLed ==
    ASSUME transfers \subseteq Transfer, NEW n \in Node
    PROVE  Tamer(transfers, {IF x.to = n THEN [x EXCEPT !.led = TRUE] ELSE x :
                                x \in transfers})
<1> DEFINE l(x) == IF x.to = n THEN [x EXCEPT !.led = TRUE] ELSE x
           g == [x \in transfers |-> l(x)]
<1>1. \A x \in transfers : l(x) \in Transfer /\ Tame(x, l(x))
  BY DEF Transfer, Tame
<1>2. g \in [transfers -> Transfer] /\ \A x \in transfers : Tame(x, g[x])
  BY <1>1
<1>3. {l(x) : x \in transfers} = {g[x] : x \in transfers}
  OBVIOUS
<1> HIDE DEF g
<1> QED
  BY <1>2, <1>3 DEF Tamer

\* One step of a transferer may be tame.
LEMMA TamerBecomes ==
    ASSUME transfers \subseteq Transfer, NEW x \in transfers, NEW y \in Transfer, Tame(x, y)
    PROVE  Tamer(transfers, (transfers \ {x}) \cup {y})
<1> DEFINE g == [z \in transfers |-> IF z = x THEN y ELSE z]
<1>1. g \in [transfers -> Transfer] /\ \A z \in transfers : Tame(z, g[z])
  BY DEF Tame
<1>2. (transfers \ {x}) \cup {y} \subseteq {g[z] : z \in transfers}
  OBVIOUS
<1> HIDE DEF g
<1> QED
  BY <1>1, <1>2 DEF Tamer

\* What a function makes of a few things are a few.
LEMMA FewOfFew ==
    ASSUME NEW S, NEW T, Few(S), NEW g, T \subseteq {g[x] : x \in S}
    PROVE  Few(T)
<1>1. PICK k \in Nat : \E f : \A x \in S : \E i \in 1 .. k : x = f[i]
  BY DEF Few
<1>2. PICK f : \A x \in S : \E i \in 1 .. k : x = f[i]
  BY <1>1
<1> DEFINE h == [i \in 1 .. k |-> g[f[i]]]
<1>3. \A y \in T : \E i \in 1 .. k : y = h[i]
  BY SMTT(30), <1>2
<1>4. \E f1 : \A y \in T : \E i \in 1 .. k : y = f1[i]
  <2> HIDE DEF h
  <2> WITNESS h
  <2> QED
    BY <1>3
<1> QED
  BY <1>4 DEF Few

\* One more, and they still are.
LEMMA FewAndOne ==
    ASSUME NEW S, NEW T, Few(S), NEW x, T \subseteq S \cup {x}
    PROVE  Few(T)
<1>1. PICK k \in Nat : \E f : \A y \in S : \E i \in 1 .. k : y = f[i]
  BY DEF Few
<1>2. PICK f : \A y \in S : \E i \in 1 .. k : y = f[i]
  BY <1>1
<1> DEFINE h == [i \in 1 .. k + 1 |-> IF i = k + 1 THEN x ELSE f[i]]
<1>3. ASSUME NEW y \in T
      PROVE  \E i \in 1 .. k + 1 : y = h[i]
  <2>1. CASE y = x
    <3>1. k + 1 \in 1 .. k + 1 /\ h[k + 1] = y
      BY SMTT(30), <2>1
    <3> QED
      BY <3>1
  <2>2. CASE y \in S
    <3>1. PICK i \in 1 .. k : y = f[i]
      BY <1>2, <2>2
    <3>2. i \in 1 .. k + 1 /\ i # k + 1
      BY SMTT(30)
    <3> QED
      BY <3>1, <3>2
  <2> QED
    BY <2>1, <2>2
<1>4. k + 1 \in Nat
  BY SMTT(30)
<1>5. \E f1 : \A y \in T : \E i \in 1 .. k + 1 : y = f1[i]
  <2> HIDE DEF h
  <2> WITNESS h
  <2> QED
    BY <1>3
<1> QED
  BY <1>4, <1>5 DEF Few

\* Tame steps keep Transfers, if the transferers of a host that is elected are
\* told so.
LEMMA TransfersTamed ==
    ASSUME Transfers, Tamer(transfers, transfers'), lapses \subseteq lapses',
           \A y \in transfers' : rep'[y.to].state = Leader =>
                                     rep[y.to].state = Leader \/ y.led
    PROVE  Transfers'
<1>1. PICK g \in [transfers -> Transfer] :
          /\ \A x \in transfers : Tame(x, g[x])
          /\ transfers' \subseteq {g[x] : x \in transfers}
  BY DEF Tamer
<1>2. transfers' \subseteq Transfer
  BY <1>1
<1>3. Few(transfers')
  BY <1>1, FewOfFew DEF Transfers
<1>4. ASSUME NEW y \in transfers'
      PROVE  Readable(y, lapses') /\ (rep'[y.to].state = Leader => y.led)
  <2>1. PICK x \in transfers : y = g[x]
    BY <1>1
  <2>2. Tame(x, y) /\ Readable(x, lapses) /\ (rep[x.to].state = Leader => x.led)
    BY <1>1, <2>1 DEF Transfers
  <2> QED
    BY <2>2 DEF Tame, Readable
<1> QED
  BY <1>2, <1>3, <1>4 DEF Transfers

----------------------------------------------------------------------------
(* The order of the versions.                                              *)

\* More labels, a larger file and a smaller clock are all labelled.
LEMMA LabelledGrows ==
    ASSUME NEW b \in Int, NEW c \in Int, NEW f, NEW g, Labelled(labels, c, f), b <= c,
           f \subseteq g, labels \subseteq labels'
    PROVE  Labelled(labels', b, g)
<1> SUFFICES ASSUME NEW k \in 0 .. b
             PROVE  \E l \in labels' : l.clock = k /\ l.file \subseteq g
  BY DEF Labelled
<1>1. k \in 0 .. c
  BY SMTT(30)
<1>2. PICK l \in labels : l.clock = k /\ l.file \subseteq f
  BY <1>1 DEF Labelled
<1> QED
  BY <1>2

\* A step keeps the order when every clock grows, but not the clock of a host
\* that is being brought something new.
LEMMA OrderedGrows ==
    ASSUME Ordered, transfers \subseteq Transfer, Tamer(transfers, transfers'),
           labels \subseteq labels',
           \A n \in Node : /\ Clock(n) \in Int /\ Clock(n)' \in Int
                           /\ Clock(n) <= Clock(n)'
                           /\ Labelled(labels, Clock(n), disk[n].file)',
           \A y \in transfers' : Live(y) /\ ~y.led => Clock(y.to)' = Clock(y.to),
           \A m \in msgs' : Bounded(m.told)',
           \A n \in Node : \A t \in rep'[n].list : Bounded(t)'
    PROVE  Ordered'
<1>1. PICK g \in [transfers -> Transfer] :
          /\ \A x \in transfers : Tame(x, g[x])
          /\ transfers' \subseteq {g[x] : x \in transfers}
  BY DEF Tamer
<1>2. ASSUME NEW y \in transfers', Live(y)
      PROVE  Brings(y)'
  <2>1. PICK x \in transfers : y = g[x]
    BY <1>1
  <2>2. Tame(x, y) /\ x \in Transfer /\ y \in Transfer
    BY <1>1, <2>1
  <2>3. Live(x)
    BY <1>2, <2>2 DEF Tame, Live
  <2>4. Brings(x)
    BY <2>3 DEF Ordered
  <2>5. x.to \in Node /\ x.from \in Node /\ x.ver.clock \in Int
    BY <2>2, ClockIsInt DEF Transfer
  <2>6. /\ y.to = x.to /\ y.from = x.from /\ y.ver = x.ver /\ y.file = x.file
        /\ ~y.led => ~x.led
        /\ \/ y.phase = x.phase
           \/ x.phase = "connecting" /\ y.phase = "uploading"
    BY <1>2, <2>2 DEF Tame, Live
  <2>7. y.phase = "done" => Labelled(labels, y.ver.clock, y.file)'
    BY SMTT(30), <2>4, <2>5, <2>6, LabelledGrows DEF Brings
  <2>8. ~y.led => Clock(y.to)' = Clock(y.to)
    BY <1>2
  <2>9. Clock(y.from) <= Clock(y.from)' /\ Clock(y.from) \in Int /\ Clock(y.from)' \in Int
    BY <2>5, <2>6
  <2>10. /\ y.phase \in {"connecting", "uploading"} /\ ~y.led => Clock(y.from)' > Clock(y.to)'
         /\ y.phase \in {"copied", "done"} /\ ~y.led => y.ver.clock > Clock(y.to)'
         /\ y.phase = "copied" => y.ver.clock <= Clock(y.from)'
    BY SMTT(30), <2>4, <2>5, <2>6, <2>8, <2>9 DEF Brings
  <2> QED
    BY <2>7, <2>10 DEF Brings
<1>3. ASSUME NEW y \in transfers', NEW z \in transfers', y.to = z.to, Live(y), Live(z)
      PROVE  y = z
  <2>1. PICK u \in transfers, v \in transfers : y = g[u] /\ z = g[v]
    BY <1>1
  <2>2. Tame(u, y) /\ Tame(v, z)
    BY <1>1, <2>1
  <2>3. u.to = v.to /\ Live(u) /\ Live(v)
    BY <1>3, <2>2 DEF Tame, Live
  <2> QED
    BY <2>1, <2>3 DEF Ordered
<1> QED
  BY <1>2, <1>3 DEF Ordered, Live

\* A step at one host that may install something newer there.
LEMMA HostStep ==
    ASSUME RepInv, Numbers', NEW n \in Node, NEW r, NEW d, NEW p, NEW h,
           rep' = [rep EXCEPT ![n] = r], disk' = [disk EXCEPT ![n] = d],
           pending' = [pending EXCEPT ![n] = p], had' = [had EXCEPT ![n] = h],
           labels \subseteq labels', lapses \subseteq lapses', History',
           HostOK(r, d, p, h, lapses'), Tamer(transfers, transfers'),
           r.state = Leader => \/ rep[n].state = Leader
                               \/ \A y \in transfers' : y.to = n => y.led,
           \A m \in msgs' \ msgs : m \in Message /\ m.told.ver.gid = 0,
           Clean' =>
               /\ d.ver.clock >= Clock(n)
               /\ Labelled(labels', d.ver.clock, d.file)
               /\ \A y \in transfers' : y.to = n /\ Live(y) /\ ~y.led =>
                                            d.ver.clock = Clock(n)
               /\ \A m \in msgs' \ msgs : Bounded(m.told)'
               /\ \A t \in r.list \ rep[n].list : Bounded(t)'
    PROVE  RepInv'
<1>1. Hosts'
  BY OneHost DEF RepInv
<1>2. rep \in [Node -> Daemon] /\ disk \in [Node -> Disk] /\ transfers \subseteq Transfer
  BY DEF RepInv, Hosts, Transfers
<1>3. transfers' \subseteq Transfer
  BY DEF Tamer
<1>4. Transfers'
  <2>1. ASSUME NEW y \in transfers', rep'[y.to].state = Leader
        PROVE  rep[y.to].state = Leader \/ y.led
    <3>1. y.to \in Node
      BY <1>3 DEF Transfer
    <3> QED
      BY <1>2, <2>1, <3>1
  <2> QED
    BY <2>1, TransfersTamed DEF RepInv
<1>5. Messages'
  BY DEF RepInv, Messages
<1>6. ASSUME Clean'
      PROVE  Ordered'
  <2>1. Clean /\ Ordered
    BY <1>6 DEF Clean, RepInv
  <2>2. d \in Disk /\ \A k \in Node : disk'[k] = IF k = n THEN d ELSE disk[k]
    BY <1>2 DEF HostOK
  <2>3. \A k \in Node : Clock(k)' = IF k = n THEN d.ver.clock ELSE Clock(k)
    BY SMTT(30), <2>2 DEF Clock
  <2>4. \A k \in Node : Clock(k) \in Int /\ Clock(k)' \in Int /\ Clock(k) <= Clock(k)'
    <3>1. d.ver.clock \in Int /\ \A k \in Node : Clock(k) \in Int
      BY <1>2, <2>2, ClockIsInt DEF Disk, Clock
    <3> QED
      BY SMTT(30), <1>6, <2>3, <3>1
  <2>5. ASSUME NEW k \in Node
        PROVE  Labelled(labels, Clock(k), disk[k].file)'
    <3>1. CASE k = n
      BY <1>6, <2>2, <2>3, <3>1
    <3>2. CASE k # n
      <4>1. Clock(k)' = Clock(k) /\ disk'[k].file = disk[k].file /\ Clock(k) \in Int
        BY <2>2, <2>3, <2>4, <3>2
      <4>2. Labelled(labels, Clock(k), disk[k].file)
        BY <2>1 DEF Ordered
      <4> QED
        BY SMTT(30), <4>1, <4>2, LabelledGrows DEF Labelled
    <3> QED
      BY <3>1, <3>2
  <2>6. ASSUME NEW y \in transfers', Live(y), ~y.led
        PROVE  Clock(y.to)' = Clock(y.to)
    <3>1. y.to \in Node
      BY <1>3 DEF Transfer
    <3> QED
      BY <1>6, <2>3, <2>6, <3>1
  <2>7. ASSUME NEW t \in Told, Bounded(t)
        PROVE  Bounded(t)'
    <3>1. t.from \in Node /\ t.ver.clock \in Nat
      BY SMTT(30) DEF Told, Version
    <3>2. Clock(t.from) \in Int /\ Clock(t.from)' \in Int /\ Clock(t.from) <= Clock(t.from)'
      BY <2>4, <3>1
    <3> QED
      BY SMTT(30), <2>7, <3>1, <3>2 DEF Bounded
  <2>8. ASSUME NEW m \in msgs'
        PROVE  Bounded(m.told)'
    <3>1. CASE m \in msgs
      BY <2>1, <2>7, <3>1 DEF Ordered, RepInv, Messages, Message
    <3> QED
      BY <1>6, <3>1
  <2>9. ASSUME NEW k \in Node, NEW t \in rep'[k].list
        PROVE  Bounded(t)'
    <3>1. rep'[k] = IF k = n THEN r ELSE rep[k]
      BY <1>2
    <3>2. CASE t \in rep[k].list
      BY <1>2, <2>1, <2>7, <3>2 DEF Ordered, Daemon
    <3> QED
      BY <1>6, <2>9, <3>1, <3>2
  <2> QED
    BY <1>2, <2>1, <2>4, <2>5, <2>6, <2>8, <2>9, OrderedGrows
<1> QED
  BY <1>1, <1>4, <1>5, <1>6 DEF RepInv

\* A step at one host that leaves the files alone.
LEMMA MemoryStep ==
    ASSUME RepInv, Numbers', NEW n \in Node, NEW r, NEW p, NEW h,
           rep' = [rep EXCEPT ![n] = r], disk' = disk,
           pending' = [pending EXCEPT ![n] = p], had' = [had EXCEPT ![n] = h],
           labels' = labels, lapses \subseteq lapses', lapses' \subseteq LapseKinds,
           HostOK(r, disk[n], p, h, lapses'), Tamer(transfers, transfers'),
           r.state = Leader => \/ rep[n].state = Leader
                               \/ \A y \in transfers' : y.to = n => y.led,
           \A m \in msgs' \ msgs : /\ m \in Message /\ m.told.ver.gid = 0
                                   /\ Clean => Bounded(m.told),
           Clean => \A t \in r.list \ rep[n].list : Bounded(t)
    PROVE  RepInv'
<1>1. disk' = [disk EXCEPT ![n] = disk[n]] /\ disk[n] \in Disk
  BY SameHost DEF RepInv
<1>2. History'
  BY DEF RepInv, History
<1>3. \A t : Bounded(t)' <=> Bounded(t)
  BY DEF Bounded, Clock
<1>4. ASSUME Clean'
      PROVE  /\ disk[n].ver.clock >= Clock(n) /\ disk[n].ver.clock = Clock(n)
             /\ Labelled(labels, disk[n].ver.clock, disk[n].file)'
             /\ \A m \in msgs' \ msgs : Bounded(m.told)'
             /\ \A t \in r.list \ rep[n].list : Bounded(t)'
  <2>1. Clean /\ Ordered
    BY <1>4 DEF Clean, RepInv
  <2>2. Clock(n) = disk[n].ver.clock /\ Clock(n) \in Int
    BY <1>1, ClockIsInt DEF Clock, Disk
  <2>3. Labelled(labels, disk[n].ver.clock, disk[n].file)'
    BY SMTT(30), <1>1, <2>1, <2>2 DEF Ordered, Labelled, Clock
  <2> QED
    BY SMTT(30), <1>3, <2>1, <2>2, <2>3
<1> QED
  BY <1>1, <1>2, <1>4, HostStep

\* A step that changes the memory of the daemon of n to r, its transferers and
\* little else.
Quietly(n, r, p, h) ==
    /\ rep' = [rep EXCEPT ![n] = r] /\ pending' = [pending EXCEPT ![n] = p]
    /\ had' = [had EXCEPT ![n] = h] /\ msgs' \subseteq msgs
    /\ UNCHANGED <<disk, labels, lapses>>
    /\ Tamer(transfers, transfers')
    /\ Numbers'

\* A daemon that does not become leader and learns of no version.
LEMMA QuietStep ==
    ASSUME RepInv, NEW n \in Node, NEW r, NEW p, NEW h, Quietly(n, r, p, h),
           HostOK(r, disk[n], p, h, lapses), r.list \subseteq rep[n].list,
           r.state # Leader \/ r.state = rep[n].state
    PROVE  RepInv'
<1>1. /\ rep' = [rep EXCEPT ![n] = r] /\ pending' = [pending EXCEPT ![n] = p]
      /\ had' = [had EXCEPT ![n] = h] /\ msgs' \subseteq msgs
      /\ UNCHANGED <<disk, labels, lapses>>
      /\ Tamer(transfers, transfers')
      /\ Numbers'
  BY DEF Quietly
<1>2. lapses' \subseteq LapseKinds
  BY <1>1 DEF RepInv, History
<1> QED
  BY <1>1, <1>2, MemoryStep

----------------------------------------------------------------------------
(* What the handlers share.                                                *)

\* A daemon tells others its version and its address.
LEMMA BroadcastOK ==
    ASSUME NEW n \in Node, NEW cmd \in Commands, NEW r, r.ver \in Version, r.ver.gid = 0,
           NEW m \in Broadcast(n, cmd, r)
    PROVE  /\ m \in Message /\ m.told.ver.gid = 0
           /\ m.told.from = n /\ m.told.ver = r.ver
<1> DEFINE t == [from |-> n, ver |-> r.ver, leads |-> r.state = "REPLICATION_LEADER"]
<1>1. PICK k \in Node : m = [cmd |-> cmd, to |-> k, told |-> t]
  BY DEF Broadcast
<1>2. t \in Told /\ t.from = n /\ t.ver = r.ver
  BY DEF Told
<1> HIDE DEF t
<1> QED
  BY <1>1, <1>2 DEF Message

\* A host that ends leaves no transferer that was not there.
LEMMA TamerWithout ==
    ASSUME Transfers, NEW n \in Node
    PROVE  Tamer(transfers, WithoutHost(n))
<1>1. Uploads(n) \in SUBSET transfers /\ transfers \subseteq Transfer
  BY DEF Uploads, Transfers
<1>2. Tamer(transfers, Kill(Uploads(n)))
  BY <1>1, TamerKill
<1>3. WithoutHost(n) \subseteq Kill(Uploads(n))
  BY DEF WithoutHost
<1> QED
  BY <1>2, <1>3, TamerSubset

\* A fault is counted.
LEMMA HappensCounted ==
    ASSUME Numbers, NEW kind, Happens(kind)
    PROVE  faults' \in 0 .. MaxFaults
BY SMTT(30), ReplicatorAssumption DEF Numbers, Happens

\* What a daemon forgets is a lapse.
LEMMA ForgottenOK ==
    ASSUME RepInv, NEW n \in Node, NEW L, lapses \cup Forgotten(n) \subseteq L,
           L \subseteq lapses \cup Forgotten(n) \cup {"torn", "partial", "leader"}
    PROVE  /\ lapses \subseteq L /\ L \subseteq LapseKinds
           /\ pending[n] # {} => "forgotten" \in L
BY DEF Forgotten, RepInv, History, LapseKinds

\* utilCrucialError keeps the invariant where an assertion may fail.
LEMMA CrucialErrorKeeps ==
    ASSUME RepInv, Numbers', NEW n \in Node, NEW g \in BOOLEAN,
           NEW why, Excused(why, lapses), CrucialError(n, why),
           had' = [had EXCEPT ![n] = g]
    PROVE  RepInv'
<1> DEFINE r == Ended(n, why)
           p == pending[n]
<1>1. /\ HostOK(rep[n], disk[n], p, had[n], lapses) /\ Transfers /\ disk[n] \in Disk
      /\ pending = [pending EXCEPT ![n] = p]
  BY SameHost DEF RepInv
<1>2. /\ lapses \subseteq lapses' /\ lapses' \subseteq LapseKinds
      /\ p # {} => "forgotten" \in lapses'
  BY ForgottenOK DEF CrucialError, Shutdown
<1>3. Leaves(rep[n], disk[n], p, had[n], lapses, disk[n], lapses')
  BY <1>1, <1>2 DEF Leaves, HostOK, Readable
<1>4. HostOK(r, disk[n], p, g, lapses') /\ r.list = {} /\ r.state = "DOWN"
  BY <1>3, EndedOK
<1>5. rep' = [rep EXCEPT ![n] = r] /\ pending' = [pending EXCEPT ![n] = p]
  BY <1>1 DEF CrucialError, Shutdown, Ended
<1>6. disk' = disk /\ labels' = labels
  BY DEF CrucialError, Shutdown
<1>7. Tamer(transfers, transfers')
  BY <1>1, TamerWithout DEF CrucialError, Shutdown
<1>8. msgs' \subseteq msgs /\ "DOWN" # Leader
  BY DEF CrucialError, Shutdown, MsgsWithout, Leader
<1> HIDE DEF r, p
<1> QED
  BY <1>2, <1>4, <1>5, <1>6, <1>7, <1>8, MemoryStep

\* BecomeLeader keeps the invariant when HAD leads.
LEMMA BecomeLeaderKeeps ==
    ASSUME RepInv, Numbers', NEW n \in Node, rep[n].state = "BACKUP", BecomeLeader(n),
           had' = [had EXCEPT ![n] = TRUE],
           UNCHANGED <<msgs, labels, pending, lapses>>
    PROVE  RepInv'
<1> DEFINE r == [rep[n] EXCEPT !.state = Leader]
           p == pending[n]
<1>1. HostOK(rep[n], disk[n], p, had[n], lapses) /\ Transfers
  BY SameHost DEF RepInv
<1>2. rep' = [rep EXCEPT ![n] = r] /\ disk' = disk
  BY NoGid DEF BecomeLeader, RepInv, Leader
<1>3. HostOK(r, disk[n], p, TRUE, lapses) /\ r.list = rep[n].list
  BY <1>1, LeaderOK
<1>4. Tamer(transfers, transfers')
  BY <1>1, TamerLed DEF BecomeLeader, Transfers
<1>5. \A y \in transfers' : y.to = n => y.led
  <2>1. transfers' = {IF x.to = n THEN [x EXCEPT !.led = TRUE] ELSE x : x \in transfers}
    BY DEF BecomeLeader
  <2> QED
    BY <1>1, <2>1 DEF Transfers, Transfer
<1>6. pending' = [pending EXCEPT ![n] = p] /\ lapses' \subseteq LapseKinds
  BY SameHost DEF RepInv, History
<1> HIDE DEF r, p
<1> QED
  BY <1>2, <1>3, <1>4, <1>5, <1>6, MemoryStep

----------------------------------------------------------------------------
(* Each action keeps the invariant.                                        *)

\* A daemon reads its version file, or writes it if it is empty, and asks the
\* others for theirs.
LEMMA ReinitializedKeeps ==
    ASSUME RepInv, Numbers', NEW n \in Node, rep' = [rep EXCEPT ![n] = Reinitialized(n)],
           msgs' = msgs \cup Broadcast(n, "SOLICIT_VERSION", Reinitialized(n)),
           disk' = [disk EXCEPT ![n].ver = Reread(n)], Tamer(transfers, transfers'),
           lapses \subseteq lapses', lapses' \subseteq LapseKinds,
           pending[n] # {} => lapses' \cap {"second", "forgotten"} # {},
           UNCHANGED <<had, labels, pending>>
    PROVE  RepInv'
<1> DEFINE r == Reinitialized(n)
           d == [disk[n] EXCEPT !.ver = Reread(n)]
           p == pending[n]
           h == had[n]
<1>1. /\ HostOK(rep[n], disk[n], p, h, lapses) /\ disk \in [Node -> Disk]
      /\ had' = [had EXCEPT ![n] = h] /\ pending' = [pending EXCEPT ![n] = p]
  BY SameHost DEF RepInv, Hosts
<1>2. /\ HostOK(r, d, p, h, lapses') /\ r.ver = d.ver
      /\ r.list = rep[n].list /\ r.state = "VERSION_REQUESTING"
  BY SMTT(30), <1>1, ReinitializedOK
<1>3. /\ d \in Disk /\ d.ver = Reread(n) /\ d.file = disk[n].file
      /\ d.ver \in Version /\ d.ver.gid = 0
      /\ "torn" \notin lapses => d.ver = disk[n].ver
  BY <1>1, RereadOK
<1>4. /\ disk' = [disk EXCEPT ![n] = d] /\ rep' = [rep EXCEPT ![n] = r]
      /\ msgs' = msgs \cup Broadcast(n, "SOLICIT_VERSION", r)
  BY <1>1
<1>5. /\ History' /\ labels \subseteq labels' /\ r.state # Leader
      /\ r.list \ rep[n].list = {}
  BY <1>2 DEF RepInv, History, Leader
<1> HIDE DEF r, d, p, h
<1>6. r.ver \in Version /\ r.ver.gid = 0 /\ "SOLICIT_VERSION" \in Commands
  BY <1>2, <1>3 DEF Commands
<1>7. Clock(n)' = d.ver.clock /\ d.ver.clock \in Int
  BY <1>1, <1>3, <1>4, ClockIsInt DEF Clock, Disk
<1>8. ASSUME NEW m \in msgs' \ msgs
      PROVE  m \in Message /\ m.told.ver.gid = 0 /\ Bounded(m.told)'
  <2>1. m \in Message /\ m.told.ver.gid = 0 /\ m.told.from = n /\ m.told.ver = r.ver
    BY SMTT(30), <1>4, <1>6, BroadcastOK
  <2>2. m.told.ver.clock = d.ver.clock /\ Clock(m.told.from)' = d.ver.clock
    BY <1>2, <1>7, <2>1
  <2>3. m.told.ver.clock <= Clock(m.told.from)'
    BY SMTT(30), <1>7, <2>2
  <2> QED
    BY <2>1, <2>3 DEF Bounded
<1>9. ASSUME Clean'
      PROVE  /\ d.ver.clock >= Clock(n) /\ d.ver.clock = Clock(n)
             /\ Labelled(labels', d.ver.clock, d.file)
  <2>1. Clean /\ Ordered /\ "torn" \notin lapses
    BY <1>9 DEF Clean, RepInv
  <2>2. d.ver.clock = Clock(n)
    BY <1>3, <2>1 DEF Clock
  <2>3. Labelled(labels, Clock(n), disk[n].file)
    BY <2>1 DEF Ordered
  <2>4. Labelled(labels', d.ver.clock, d.file)
    BY <1>3, <2>2, <2>3
  <2> QED
    BY SMTT(30), <1>7, <2>2, <2>4
<1> QED
  BY <1>1, <1>2, <1>4, <1>5, <1>8, <1>9, HostStep

\* A daemon starts.
LEMMA InitializeKeeps ==
    ASSUME RepInv, NEW n \in Node, Initialize(n)
    PROVE  RepInv'
<1>1. HostOK(rep[n], disk[n], pending[n], had[n], lapses)
  BY SameHost DEF RepInv
<1>2. pending[n] # {} => lapses' \cap {"second", "forgotten"} # {}
  BY <1>1 DEF HostOK, Initialize
<1>3. Numbers' /\ transfers \subseteq Transfer /\ lapses' = lapses /\ lapses' \subseteq LapseKinds
  BY DEF Initialize, RepInv, Numbers, Transfers, History
<1>4. Tamer(transfers, transfers')
  BY <1>3, TamerSame DEF Initialize
<1> QED
  BY <1>2, <1>3, <1>4, ReinitializedKeeps DEF Initialize

\* A daemon is told to reconfigure.
LEMMA ReinitializeKeeps ==
    ASSUME RepInv, NEW n \in Node, Reinitialize(n)
    PROVE  RepInv'
<1>1. Numbers' /\ transfers \subseteq Transfer
  BY HappensCounted DEF Reinitialize, RepInv, Numbers, Transfers
<1>2. Download(n) \cup Uploads(n) \in SUBSET transfers
  BY DEF Download, Uploads
<1>3. Tamer(transfers, transfers')
  BY <1>1, <1>2, TamerKill DEF Reinitialize
<1>4. /\ lapses \subseteq lapses' /\ lapses' \subseteq LapseKinds
      /\ pending[n] # {} => "forgotten" \in lapses'
  BY ForgottenOK DEF Reinitialize
<1>5. pending[n] # {} => lapses' \cap {"second", "forgotten"} # {}
  BY <1>4
<1> QED
  BY <1>1, <1>3, <1>4, <1>5, ReinitializedKeeps DEF Reinitialize

\* Half a version is one, or empty.
LEMMA TornOK ==
    ASSUME NEW n \in Node, disk[n].ver.gid = 0, NEW v \in Torn(n)
    PROVE  v \in VersionFile /\ v.gid = 0
BY SMTT(30), ReplicatorAssumption DEF Torn, VersionFile, Version, Empty

\* What the death of a daemon leaves on its disk.
LEMMA LeftOK ==
    ASSUME RepInv, NEW n \in Node, Left(n)
    PROVE  \E d \in Disk :
               /\ disk' = [disk EXCEPT ![n] = d] /\ Readable(d, lapses')
               /\ d = disk[n] \/ ~Clean'
<1>1. /\ HostOK(rep[n], disk[n], pending[n], had[n], lapses) /\ disk \in [Node -> Disk]
      /\ disk = [disk EXCEPT ![n] = disk[n]] /\ disk[n] \in Disk /\ Transfers
  BY SameHost DEF RepInv, Hosts
<1>2. lapses \subseteq lapses' /\ Readable(disk[n], lapses)
  BY <1>1 DEF Left, HostOK
<1>3. CASE disk' = disk
  BY <1>1, <1>2, <1>3 DEF Readable
<1>4. ASSUME NEW v \in VersionFile, disk' = [disk EXCEPT ![n].ver = v], v.gid = 0,
             v = Empty => "torn" \in lapses', ~Clean'
      PROVE  \E d \in Disk :
               /\ disk' = [disk EXCEPT ![n] = d] /\ Readable(d, lapses')
               /\ d = disk[n] \/ ~Clean'
  <2> DEFINE d == [disk[n] EXCEPT !.ver = v]
  <2>1. d \in Disk /\ d.ver = v /\ disk' = [disk EXCEPT ![n] = d]
    BY <1>1, <1>4 DEF Disk
  <2> HIDE DEF d
  <2> QED
    BY <1>4, <2>1 DEF Readable
<1>5. ASSUME NEW v \in Torn(n), disk' = [disk EXCEPT ![n].ver = v], "torn" \in lapses'
      PROVE  v \in VersionFile /\ v.gid = 0 /\ ~Clean'
  <2>1. v \in VersionFile /\ v.gid = 0
    BY <1>2, <1>5, TornOK DEF Readable
  <2> QED
    BY <1>5, <2>1 DEF Clean
<1>6. ASSUME NEW x \in transfers, disk' = [disk EXCEPT ![n].ver = x.ver], "partial" \in lapses'
      PROVE  /\ x.ver \in VersionFile /\ x.ver.gid = 0 /\ ~Clean'
             /\ x.ver = Empty => "torn" \in lapses'
  <2>1. x \in Transfer /\ Readable(x, lapses)
    BY <1>1 DEF Transfers
  <2> QED
    BY <1>2, <1>6, <2>1 DEF Transfer, Readable, Clean
<1> QED
  BY <1>3, <1>4, <1>5, <1>6 DEF Left

\* A daemon dies, and perhaps its HAD.
LEMMA CrashKeeps ==
    ASSUME RepInv, NEW n \in Node, Crash(n)
    PROVE  RepInv'
<1> DEFINE r == Stopped(n)
           p == pending[n]
<1>1. /\ HostOK(rep[n], disk[n], p, had[n], lapses) /\ Transfers
      /\ had = [had EXCEPT ![n] = had[n]] /\ had[n] \in BOOLEAN
      /\ pending = [pending EXCEPT ![n] = p] /\ disk[n] \in Disk
  BY SameHost DEF RepInv, Hosts
<1>2. PICK g \in BOOLEAN : had' = [had EXCEPT ![n] = g]
  BY <1>1 DEF Crash
<1>3. /\ lapses \subseteq lapses' /\ lapses' \subseteq LapseKinds
      /\ p # {} => "forgotten" \in lapses'
  BY ForgottenOK DEF Crash, Left
<1>4. PICK d \in Disk : /\ disk' = [disk EXCEPT ![n] = d] /\ Readable(d, lapses')
                        /\ d = disk[n] \/ ~Clean'
  BY LeftOK DEF Crash
<1>5. HostOK(r, d, p, g, lapses') /\ r.list = {} /\ r.state = "DOWN"
  <2>1. Leaves(rep[n], disk[n], p, had[n], lapses, d, lapses')
    BY <1>1, <1>3, <1>4 DEF Leaves
  <2> QED
    BY <2>1, StoppedOK
<1>6. rep' = [rep EXCEPT ![n] = r] /\ pending' = [pending EXCEPT ![n] = p] /\ labels' = labels
  BY <1>1 DEF Crash
<1>7. Numbers' /\ History' /\ "DOWN" # Leader
  BY <1>3, <1>6, HappensCounted DEF Crash, RepInv, Numbers, History, Leader
<1>8. Tamer(transfers, transfers')
  <2>1. transfers' \subseteq transfers \/ transfers' = WithoutHost(n)
    BY DEF Crash
  <2> QED
    BY <1>1, <2>1, TamerWithout, TamerSame, TamerSubset DEF Transfers
<1>9. msgs' \subseteq msgs
  BY DEF Crash, MsgsWithout
<1> HIDE DEF r, p
<1>10. ASSUME Clean'
       PROVE  /\ d.ver.clock >= Clock(n) /\ d.ver.clock = Clock(n)
              /\ Labelled(labels', d.ver.clock, d.file)
  <2>1. d.ver.clock = Clock(n) /\ d.ver.clock \in Int /\ d = disk[n]
    BY <1>4, <1>10, ClockIsInt DEF Clock, Disk
  <2>2. Ordered
    BY <1>3, <1>10 DEF Clean, RepInv
  <2>3. Labelled(labels, Clock(n), disk[n].file)
    BY <2>2 DEF Ordered
  <2>4. Labelled(labels', d.ver.clock, d.file)
    BY <1>6, <2>1, <2>3
  <2> QED
    BY SMTT(30), <2>1, <2>4
<1>11. /\ labels \subseteq labels' /\ r.state # Leader /\ r.list \ rep[n].list = {}
       /\ msgs' \ msgs = {}
  BY <1>5, <1>6, <1>7, <1>9
<1> QED
  BY <1>2, <1>3, <1>4, <1>5, <1>6, <1>7, <1>8, <1>10, <1>11, HostStep

\* Nothing but a counter, the transferers, the messages or HAD changes.
LEMMA OutsideStep ==
    ASSUME RepInv, Numbers', NEW n \in Node, NEW h \in BOOLEAN,
           had' = [had EXCEPT ![n] = h], lapses \subseteq lapses', lapses' \subseteq LapseKinds,
           rep[n].state = Leader /\ "unheard" \notin lapses' => h = TRUE \/ h = had[n],
           Tamer(transfers, transfers'), UNCHANGED <<rep, disk, labels, pending>>,
           \A m \in msgs' \ msgs : /\ m \in Message /\ m.told.ver.gid = 0
                                   /\ Clean => Bounded(m.told)
    PROVE  RepInv'
<1> DEFINE r == rep[n]
           p == pending[n]
<1>1. /\ rep' = [rep EXCEPT ![n] = r] /\ pending' = [pending EXCEPT ![n] = p]
      /\ HostOK(r, disk[n], p, had[n], lapses)
  BY SameHost DEF RepInv
<1>2. HostOK(r, disk[n], p, had[n], lapses')
  BY <1>1, HostGrows
<1> HIDE DEF p
<1>3. HostOK(r, disk[n], p, h, lapses')
  BY <1>2 DEF HostOK
<1> QED
  BY <1>1, <1>3, MemoryStep

\* HAD is elected.
LEMMA AfterElectionKeeps ==
    ASSUME RepInv, NEW n \in Node, AfterElection(n)
    PROVE  RepInv'
<1>1. had' = [had EXCEPT ![n] = TRUE] /\ ~had[n] /\ Transfers
  BY DEF AfterElection, Elected, RepInv
<1>2. faults' \in 0 .. MaxFaults
  BY HappensCounted DEF AfterElection, RepInv, Numbers
<1>3. Numbers'
  BY SMTT(30), <1>2, ReplicatorAssumption DEF AfterElection, Elected, RepInv, Numbers
<1>4. CASE rep[n].state = Leader
  <2>1. CrucialError(n, "elected")
    BY <1>4 DEF AfterElection, Leader
  <2>2. Excused("elected", lapses)
    BY <1>1, <1>4, SameHost DEF RepInv, HostOK, Excused
  <2> QED
    BY <1>1, <1>3, <2>1, <2>2, CrucialErrorKeeps
<1>5. CASE rep[n].state = "BACKUP"
  <2>1. BecomeLeader(n) /\ UNCHANGED <<msgs, labels, pending, lapses>>
    BY <1>5 DEF AfterElection
  <2> QED
    BY <1>1, <1>3, <1>5, <2>1, BecomeLeaderKeeps
<1>6. CASE rep[n].state \notin {"BACKUP", Leader}
  <2>1. UNCHANGED <<rep, disk, transfers, msgs, labels, pending, lapses>>
    BY <1>6 DEF AfterElection, Leader
  <2>2. Tamer(transfers, transfers') /\ lapses' \subseteq LapseKinds
    BY <1>1, <2>1, TamerSame DEF Transfers, RepInv, History
  <2> QED
    BY <1>1, <1>3, <2>1, <2>2, OutsideStep
<1> QED
  BY <1>4, <1>5, <1>6

\* HAD leads.
LEMMA InLeaderKeeps ==
    ASSUME RepInv, NEW n \in Node, InLeader(n)
    PROVE  RepInv'
<1>1. had = [had EXCEPT ![n] = had[n]] /\ had[n] \in BOOLEAN
  BY SameHost DEF RepInv, Hosts
<1>2. had' = [had EXCEPT ![n] = TRUE]
  BY <1>1 DEF InLeader
<1>3. Numbers'
  BY DEF InLeader, RepInv, Numbers
<1> QED
  BY <1>2, <1>3, BecomeLeaderKeeps DEF InLeader

\* HAD is elected, and its daemon is not told.
LEMMA AfterElectionLostKeeps ==
    ASSUME RepInv, NEW n \in Node, AfterElectionLost(n)
    PROVE  RepInv'
<1>1. faults' \in 0 .. MaxFaults
  BY HappensCounted DEF AfterElectionLost, RepInv
<1>2. Numbers'
  BY SMTT(30), <1>1, ReplicatorAssumption DEF AfterElectionLost, Elected, RepInv, Numbers
<1>3. /\ had' = [had EXCEPT ![n] = TRUE] /\ lapses' \subseteq LapseKinds
      /\ transfers \subseteq Transfer
  BY DEF AfterElectionLost, Elected, RepInv, History, Transfers
<1>4. Tamer(transfers, transfers')
  BY <1>3, TamerSame DEF AfterElectionLost
<1> QED
  BY <1>2, <1>3, <1>4, OutsideStep DEF AfterElectionLost

\* HAD leads no more, and its daemon is not told.
LEMMA AfterLeaderLostKeeps ==
    ASSUME RepInv, NEW n \in Node, AfterLeaderLost(n)
    PROVE  RepInv'
<1>1. Numbers' /\ transfers \subseteq Transfer
  BY HappensCounted DEF AfterLeaderLost, RepInv, Numbers, Transfers
<1>2. lapses \subseteq lapses' /\ lapses' \subseteq LapseKinds /\ "unheard" \in lapses'
  BY DEF AfterLeaderLost, RepInv, History, LapseKinds
<1>3. Tamer(transfers, transfers')
  BY <1>1, TamerSame DEF AfterLeaderLost
<1> QED
  BY <1>1, <1>2, <1>3, OutsideStep DEF AfterLeaderLost

\* HAD leads no more, and the daemon gives up its version.
LEMMA AfterLeaderKeeps ==
    ASSUME RepInv, NEW n \in Node, AfterLeader(n)
    PROVE  RepInv'
<1>1. Numbers' /\ transfers \subseteq Transfer
  BY DEF AfterLeader, RepInv, Numbers, Transfers
<1>2. Tamer(transfers, transfers')
  BY <1>1, TamerSame DEF AfterLeader
<1>3. /\ had' = [had EXCEPT ![n] = FALSE] /\ disk' = disk /\ labels' = labels
      /\ lapses' = lapses /\ lapses' \subseteq LapseKinds
  BY DEF AfterLeader, RepInv, History
<1>4. CASE rep[n].state = Leader
  <2> DEFINE r == [rep[n] EXCEPT !.state = "BACKUP"]
             p == pending[n]
  <2>1. /\ rep' = [rep EXCEPT ![n] = r] /\ pending' = pending
        /\ msgs' = msgs \cup Broadcast(n, "GIVING_UP_VERSION", rep[n])
    BY <1>4 DEF AfterLeader, Leader
  <2>2. /\ HostOK(rep[n], disk[n], p, had[n], lapses)
        /\ rep[n] \in Daemon /\ disk[n] \in Disk /\ pending = [pending EXCEPT ![n] = p]
    BY SameHost DEF RepInv
  <2>3. HostOK(r, disk[n], p, FALSE, lapses) /\ r.list = rep[n].list
    BY <1>4, <2>2, BackupOK
  <2>4. r.state # Leader
    BY <2>2 DEF Daemon, Leader
  <2> HIDE DEF r, p
  <2>5. /\ rep[n].ver \in Version /\ rep[n].ver.gid = 0
        /\ "GIVING_UP_VERSION" \in Commands
        /\ Clean => rep[n].ver = disk[n].ver
    BY <1>4, <2>2 DEF HostOK, Daemon, Commands, Clean, Leader
  <2>6. ASSUME NEW m \in msgs' \ msgs
        PROVE  m \in Message /\ m.told.ver.gid = 0 /\ (Clean => Bounded(m.told))
    <3>1. /\ m \in Message /\ m.told.ver.gid = 0 /\ m.told.from = n
          /\ m.told.ver = rep[n].ver
      BY SMTT(30), <2>1, <2>5, BroadcastOK
    <3> QED
      BY <2>2, <2>5, <3>1, SMTT(30) DEF Bounded, Clock, Version
  <2> QED
    BY <1>1, <1>2, <1>3, <2>1, <2>2, <2>3, <2>4, <2>6, MemoryStep
<1>5. CASE rep[n].state # Leader
  <2>1. UNCHANGED <<rep, msgs, pending>>
    BY <1>5 DEF AfterLeader, Leader
  <2> QED
    BY <1>1, <1>2, <1>3, <1>5, <2>1, OutsideStep
<1> QED
  BY <1>4, <1>5

\* A daemon that has joined tells its version.
LEMMA OnSolicitVersionKeeps ==
    ASSUME RepInv, NEW m \in msgs, OnSolicitVersion(m)
    PROVE  RepInv'
<1> DEFINE n == m.to
           t == [from |-> n, ver |-> rep[n].ver, leads |-> rep[n].state = Leader]
           reply == [cmd |-> "SOLICIT_VERSION_REPLY", to |-> m.told.from, told |-> t]
<1>1. n \in Node /\ m.told.from \in Node
  BY DEF RepInv, Messages, Message, Told
<1>2. /\ HostOK(rep[n], disk[n], pending[n], had[n], lapses)
      /\ rep[n] \in Daemon /\ disk[n] \in Disk /\ had = [had EXCEPT ![n] = had[n]]
      /\ had[n] \in BOOLEAN
  BY <1>1, SameHost DEF RepInv, Hosts
<1>3. t \in Told /\ t.ver = rep[n].ver /\ t.from = n
  BY <1>1, <1>2 DEF Told, Daemon
<1> HIDE DEF t
<1>4. reply \in Message /\ reply.told = t
  BY <1>1, <1>3 DEF Message, Commands
<1>5. ASSUME NEW x \in msgs' \ msgs
      PROVE  /\ x \in Message /\ x.told.ver.gid = 0
             /\ Clean => Bounded(x.told)
  <2>1. x = reply /\ rep[n].state \in {"BACKUP", Leader}
    BY DEF OnSolicitVersion, t, Leader
  <2>2. rep[n].ver.gid = 0 /\ (Clean => rep[n].ver = disk[n].ver)
    BY <1>2, <2>1 DEF HostOK, Clean, Leader
  <2>3. x \in Message /\ x.told = t
    BY <1>4, <2>1
  <2> QED
    BY SMTT(30), <1>2, <1>3, <2>2, <2>3 DEF Bounded, Clock, Daemon, Version
<1>6. /\ UNCHANGED <<rep, disk, transfers, had, labels, pending, lapses>> /\ Numbers'
      /\ transfers \subseteq Transfer /\ lapses' \subseteq LapseKinds
  BY DEF OnSolicitVersion, RepInv, Numbers, Transfers, History
<1>7. Tamer(transfers, transfers')
  BY <1>6, TamerSame
<1> HIDE DEF n
<1> QED
  BY <1>1, <1>2, <1>5, <1>6, <1>7, OutsideStep

\* A daemon that is joining remembers the version it is told.
LEMMA OnSolicitVersionReplyKeeps ==
    ASSUME RepInv, NEW m \in msgs, OnSolicitVersionReply(m)
    PROVE  RepInv'
<1> DEFINE n == m.to
           q == rep[n]
           l == {t \in q.list : t.from # m.told.from} \cup {m.told}
           r == [q EXCEPT !.list = l]
<1>1. n \in Node /\ m.told \in Told /\ m.told.ver.gid = 0 /\ (Clean => Bounded(m.told))
  BY DEF RepInv, Messages, Message, Ordered
<1>2. /\ HostOK(q, disk[n], pending[n], had[n], lapses) /\ q \in Daemon
      /\ had = [had EXCEPT ![n] = had[n]] /\ had[n] \in BOOLEAN
      /\ pending = [pending EXCEPT ![n] = pending[n]] /\ rep \in [Node -> Daemon]
  BY <1>1, SameHost DEF RepInv, Hosts
<1>3. /\ UNCHANGED <<disk, transfers, had, labels, pending, lapses>> /\ Numbers'
      /\ transfers \subseteq Transfer /\ lapses' \subseteq LapseKinds /\ msgs' \subseteq msgs
  BY DEF OnSolicitVersionReply, RepInv, Numbers, Transfers, History
<1>4. Tamer(transfers, transfers')
  BY <1>3, TamerSame
<1>5. CASE q.state = "VERSION_REQUESTING"
  <2>1. rep' = [rep EXCEPT ![n] = r]
    BY <1>1, <1>2, <1>5 DEF OnSolicitVersionReply
  <2>2. l \subseteq Told /\ (\A t \in l : t.ver.gid = 0) /\ l \ q.list \subseteq {m.told}
    BY <1>1, <1>2 DEF Daemon, HostOK
  <2> HIDE DEF l
  <2>3. r \in Daemon
    BY <1>2, <2>2 DEF Daemon
  <2>4. /\ r.state = q.state /\ r.ver = q.ver /\ r.list = l /\ r.behind = q.behind
        /\ r.requesting = q.requesting /\ r.downloading = q.downloading
        /\ r.failed = q.failed /\ r.pid = q.pid
    BY <1>2 DEF Daemon
  <2> HIDE DEF r
  <2>5. HostOK(r, disk[n], pending[n], had[n], lapses')
    BY <1>2, <1>3, <1>5, <2>2, <2>3, <2>4 DEF HostOK, Leader
  <2>6. r.state # Leader /\ (Clean => \A t \in r.list \ rep[n].list : Bounded(t))
    BY <1>1, <1>5, <2>2, <2>4 DEF Leader
  <2> DEFINE p == pending[n]
             h == had[n]
  <2>7. HostOK(r, disk[n], p, h, lapses') /\ pending' = [pending EXCEPT ![n] = p]
        /\ had' = [had EXCEPT ![n] = h]
    BY <1>2, <1>3, <2>5
  <2> HIDE DEF p, h, n
  <2> QED
    BY <1>1, <1>3, <1>4, <2>1, <2>6, <2>7, MemoryStep
<1>6. CASE q.state # "VERSION_REQUESTING"
  <2>1. rep' = rep
    BY <1>6 DEF OnSolicitVersionReply
  <2> HIDE DEF n
  <2> QED
    BY <1>1, <1>2, <1>3, <1>4, <2>1, OutsideStep
<1> QED
  BY <1>5, <1>6

\* A leader hears that another one gives up: no gid is selected.
LEMMA OnGivingUpVersionKeeps ==
    ASSUME RepInv, NEW m \in msgs, OnGivingUpVersion(m)
    PROVE  RepInv'
<1> DEFINE n == m.to
<1>1. n \in Node
  BY DEF RepInv, Messages, Message
<1>2. /\ rep = [rep EXCEPT ![n] = rep[n]] /\ rep[n] \in Daemon
      /\ had = [had EXCEPT ![n] = had[n]] /\ had[n] \in BOOLEAN
  BY <1>1, SameHost DEF RepInv, Hosts
<1>3. /\ UNCHANGED <<transfers, had, labels, pending, lapses>> /\ Numbers'
      /\ transfers \subseteq Transfer /\ lapses' \subseteq LapseKinds /\ msgs' \subseteq msgs
  BY DEF OnGivingUpVersion, RepInv, Numbers, Transfers, History
<1>4. Tamer(transfers, transfers')
  BY <1>3, TamerSame
<1>5. rep' = rep /\ disk' = disk
  <2>1. CASE rep[n].state = Leader
    <3>1. rep' = [rep EXCEPT ![n] = [rep[n] EXCEPT !.state = Leader]] /\ disk' = disk
      BY <1>1, <2>1, NoGid DEF OnGivingUpVersion, RepInv, Leader
    <3>2. [rep[n] EXCEPT !.state = Leader] = rep[n]
      BY <1>2, <2>1 DEF Daemon
    <3> QED
      BY <1>2, <3>1, <3>2
  <2>2. CASE rep[n].state # Leader
    BY <2>2 DEF OnGivingUpVersion, Leader
  <2> QED
    BY <2>1, <2>2
<1> HIDE DEF n
<1> QED
  BY <1>1, <1>2, <1>3, <1>4, <1>5, OutsideStep

\* A command is lost.
LEMMA LoseKeeps ==
    ASSUME RepInv, NEW m \in msgs, Lose(m)
    PROVE  RepInv'
<1> DEFINE n == m.to
<1>1. n \in Node
  BY DEF RepInv, Messages, Message
<1>2. had = [had EXCEPT ![n] = had[n]] /\ had[n] \in BOOLEAN
  BY <1>1, SameHost DEF RepInv, Hosts
<1>3. Numbers' /\ transfers \subseteq Transfer /\ lapses' \subseteq LapseKinds
  BY HappensCounted DEF Lose, RepInv, Numbers, Transfers, History
<1>4. Tamer(transfers, transfers')
  BY <1>3, TamerSame DEF Lose
<1> HIDE DEF n
<1> QED
  BY <1>1, <1>2, <1>3, <1>4, OutsideStep DEF Lose

\* A transferer takes a step that changes nothing else.
LEMMA TameKeeps ==
    ASSUME RepInv, Numbers', NEW x \in transfers, Tamer(transfers, transfers'),
           UNCHANGED <<rep, disk, msgs, had, labels, pending, lapses>>
    PROVE  RepInv'
<1> DEFINE n == x.to
<1>1. n \in Node
  BY DEF RepInv, Transfers, Transfer
<1>2. had = [had EXCEPT ![n] = had[n]] /\ had[n] \in BOOLEAN
  BY <1>1, SameHost DEF RepInv, Hosts
<1>3. lapses' \subseteq LapseKinds
  BY DEF RepInv, History
<1> HIDE DEF n
<1> QED
  BY <1>1, <1>2, <1>3, OutsideStep

\* The transferer is connected to, or to nobody.
LEMMA TransferFileKeeps ==
    ASSUME RepInv, NEW x \in transfers, TransferFile(x)
    PROVE  RepInv'
<1>1. PICK phase \in {"uploading", "failed"} :
          Becomes(x, [x EXCEPT !.phase = phase])
  BY DEF TransferFile
<1> DEFINE y == [x EXCEPT !.phase = phase]
<1>2. transfers \subseteq Transfer /\ x.phase = "connecting" /\ Numbers'
  BY DEF TransferFile, RepInv, Transfers, Numbers
<1>3. y \in Transfer /\ Tame(x, y)
  BY <1>2 DEF Transfer, Phases, Tame
<1>4. transfers' = (transfers \ {x}) \cup {y}
  BY <1>1 DEF Becomes
<1> HIDE DEF y
<1>5. Tamer(transfers, transfers')
  BY <1>2, <1>3, <1>4, TamerBecomes
<1> QED
  BY <1>2, <1>5, TameKeeps DEF TransferFile

\* The transferer fails.
LEMMA TransferFailsKeeps ==
    ASSUME RepInv, NEW x \in transfers, TransferFails(x)
    PROVE  RepInv'
<1> DEFINE y == [x EXCEPT !.phase = "failed"]
<1>1. transfers \subseteq Transfer /\ Numbers'
  BY HappensCounted DEF TransferFails, RepInv, Transfers, Numbers
<1>2. y \in Transfer /\ Tame(x, y)
  BY <1>1 DEF Transfer, Phases, Tame
<1>3. transfers' = (transfers \ {x}) \cup {y}
  BY DEF TransferFails, Becomes
<1> HIDE DEF y
<1>4. Tamer(transfers, transfers')
  BY <1>1, <1>2, <1>3, TamerBecomes
<1> QED
  BY <1>1, <1>4, TameKeeps DEF TransferFails

\* A transferer that has failed is reaped.
LEMMA ReapFailedKeeps ==
    ASSUME RepInv, NEW x \in transfers, ReapFailed(x)
    PROVE  RepInv'
<1> DEFINE n == x.to
           q == rep[n]
           r == [q EXCEPT !.pid = 0]
           p == pending[n]
           h == had[n]
<1>1. n \in Node /\ transfers \subseteq Transfer
  BY DEF RepInv, Transfers, Transfer
<1>2. /\ HostOK(q, disk[n], p, h, lapses)
      /\ had = [had EXCEPT ![n] = h] /\ pending = [pending EXCEPT ![n] = p]
      /\ rep \in [Node -> Daemon]
  BY <1>1, SameHost DEF RepInv, Hosts
<1>3. /\ UNCHANGED <<disk, msgs, had, labels, pending, lapses>> /\ Numbers'
      /\ lapses' \subseteq LapseKinds
  BY DEF ReapFailed, RepInv, Numbers, History
<1>4. rep' = [rep EXCEPT ![n] = r] /\ transfers' \subseteq transfers
  BY <1>1, <1>2 DEF ReapFailed
<1>5. Tamer(transfers, transfers')
  BY <1>1, <1>4, TamerSame, TamerSubset
<1>6. HostOK(r, disk[n], p, h, lapses) /\ r.list = q.list /\ r.state = q.state
  BY SMTT(30), <1>2, PidOK
<1>7. /\ HostOK(r, disk[n], p, h, lapses') /\ r.list \subseteq rep[n].list
      /\ had' = [had EXCEPT ![n] = h] /\ pending' = [pending EXCEPT ![n] = p]
      /\ r.state = rep[n].state
  BY <1>2, <1>3, <1>6
<1> HIDE DEF r, p, h, n
<1> QED
  BY <1>1, <1>3, <1>4, <1>5, <1>7, MemoryStep

\* A daemon that is not synchronized has failed to rename its state file, or got
\* half of a version file.
LEMMA Unsynchronized ==
    ASSUME RepInv, NEW n \in Node, rep[n].state # "DOWN", ~Synchronized(n)
    PROVE  lapses \cap {"partial", "torn"} # {}
BY SameHost DEF RepInv, HostOK, Synchronized

\* An assertion about the version fails.
LEMMA UnsynchronizedKeeps ==
    ASSUME RepInv, Numbers', NEW n \in Node, rep[n].state # "DOWN", ~Synchronized(n),
           CrucialError(n, "synchronized"), had' = had
    PROVE  RepInv'
<1>1. had = [had EXCEPT ![n] = had[n]] /\ had[n] \in BOOLEAN
  BY SameHost DEF RepInv, Hosts
<1>2. Excused("synchronized", lapses)
  BY Unsynchronized DEF Excused
<1> QED
  BY <1>1, <1>2, CrucialErrorKeeps

\* A daemon has joined.
LEMMA JoinedKeeps ==
    ASSUME RepInv, Numbers', NEW n \in Node,
           NEW s, Asked(rep[n], s), rep' = [rep EXCEPT ![n] = Joined(s)],
           UNCHANGED <<disk, transfers, msgs, had, labels, pending, lapses>>
    PROVE  RepInv'
<1> DEFINE r == Joined(s)
           p == pending[n]
           h == had[n]
<1>1. /\ HostOK(rep[n], disk[n], p, h, lapses) /\ pending' = [pending EXCEPT ![n] = p]
      /\ had' = [had EXCEPT ![n] = h]
  BY SameHost DEF RepInv
<1>2. HostOK(r, disk[n], p, h, lapses) /\ r.list = {} /\ r.state = "BACKUP"
  BY <1>1, JoinedOK
<1>3. Tamer(transfers, transfers')
  BY TamerSame DEF RepInv, Transfers
<1>4. Quietly(n, r, p, h)
  BY <1>1, <1>3 DEF Quietly
<1>5. r.list \subseteq rep[n].list /\ r.state # Leader
  BY <1>2 DEF Leader
<1> HIDE DEF r, p, h
<1> QED
  BY <1>2, <1>4, <1>5, QuietStep

\* Joining has taken long enough.
LEMMA VersionDownloadingTimerKeeps ==
    ASSUME RepInv, NEW n \in Node, VersionDownloadingTimer(n)
    PROVE  RepInv'
<1>1. Numbers' /\ had' = had
  BY DEF VersionDownloadingTimer, RepInv, Numbers
<1>2. Asked(rep[n], rep[n]) /\ rep[n].state # "DOWN"
  <2>1. HostOK(rep[n], disk[n], pending[n], had[n], lapses) /\ rep[n].downloading
    BY SameHost DEF VersionDownloadingTimer, RepInv
  <2>2. rep[n].state = "VERSION_DOWNLOADING" /\ rep[n].requesting \in BOOLEAN
    BY <2>1 DEF HostOK, Daemon
  <2>3. rep[n].requesting = FALSE /\ rep[n] \in Daemon
    BY <2>1, <2>2 DEF HostOK
  <2> QED
    BY <2>2, <2>3 DEF Asked
<1>3. CASE Synchronized(n)
  <2>1. /\ rep' = [rep EXCEPT ![n] = Joined(rep[n])]
        /\ UNCHANGED <<disk, transfers, msgs, labels, pending, lapses>>
    BY <1>3 DEF VersionDownloadingTimer
  <2> QED
    BY <1>1, <1>2, <2>1, JoinedKeeps
<1>4. CASE ~Synchronized(n)
  <2>1. CrucialError(n, "synchronized")
    BY <1>4 DEF VersionDownloadingTimer
  <2> QED
    BY <1>1, <1>2, <1>4, <2>1, UnsynchronizedKeeps
<1> QED
  BY <1>3, <1>4

\* Stuck transferers are killed and the download forgotten.
LEMMA KillKeeps ==
    ASSUME RepInv, Numbers', NEW n \in Node, NEW V \in SUBSET Stuck(n),
           transfers' = Kill(V), rep' = [rep EXCEPT ![n] = Forgetting(n, V)],
           UNCHANGED <<disk, msgs, had, labels, pending, lapses>>
    PROVE  RepInv'
<1> DEFINE r == Forgetting(n, V)
           p == pending[n]
           h == had[n]
<1>1. /\ HostOK(rep[n], disk[n], p, h, lapses) /\ pending' = [pending EXCEPT ![n] = p]
      /\ had' = [had EXCEPT ![n] = h]
  BY SameHost DEF RepInv
<1>2. HostOK(r, disk[n], p, h, lapses) /\ r.list = rep[n].list /\ r.state = rep[n].state
  <2>1. LET q == [rep[n] EXCEPT !.pid = 0] IN
        HostOK(q, disk[n], p, h, lapses) /\ q.list = rep[n].list /\ q.state = rep[n].state
    BY SMTT(30), <1>1, PidOK
  <2> QED
    BY <1>1, <2>1 DEF Forgetting
<1>3. V \in SUBSET transfers /\ transfers \subseteq Transfer
  BY DEF Stuck, Download, Uploads, RepInv, Transfers
<1>4. Tamer(transfers, transfers')
  BY <1>3, TamerKill
<1>5. Quietly(n, r, p, h)
  BY <1>1, <1>4 DEF Quietly
<1> HIDE DEF r, p, h
<1> QED
  BY <1>2, <1>5, QuietStep

\* The timer of a daemon that is joining.
LEMMA JoiningTimerKeeps ==
    ASSUME RepInv, NEW n \in Node, JoiningTimer(n)
    PROVE  RepInv'
<1>1. PICK V \in SUBSET Stuck(n) :
          /\ Victims(n, V) /\ transfers' = Kill(V)
          /\ rep' = [rep EXCEPT ![n] = Forgetting(n, V)]
  BY DEF JoiningTimer
<1>2. Numbers'
  BY <1>1, HappensCounted DEF JoiningTimer, Victims, RepInv, Numbers
<1>3. UNCHANGED <<disk, msgs, had, labels, pending, lapses>>
  BY DEF JoiningTimer
<1> QED
  BY <1>1, <1>2, <1>3, KillKeeps

\* The timer of a backup.
LEMMA BackupTimerKeeps ==
    ASSUME RepInv, NEW n \in Node, BackupTimer(n)
    PROVE  RepInv'
<1>1. PICK V \in SUBSET Stuck(n) :
          /\ Victims(n, V)
          /\ IF Synchronized(n)
             THEN /\ transfers' = Kill(V)
                  /\ rep' = [rep EXCEPT ![n] = Forgetting(n, V)]
                  /\ UNCHANGED <<disk, msgs, labels, pending, lapses>>
             ELSE CrucialError(n, "synchronized")
  BY DEF BackupTimer
<1>2. Numbers' /\ had' = had /\ rep[n].state # "DOWN"
  BY <1>1, HappensCounted DEF BackupTimer, Victims, RepInv, Numbers
<1>3. CASE Synchronized(n)
  BY <1>1, <1>2, <1>3, KillKeeps
<1>4. CASE ~Synchronized(n)
  BY <1>1, <1>2, <1>4, UnsynchronizedKeeps
<1> QED
  BY <1>3, <1>4

\* There is a pid for the next transferer of every host.
PidsLeft == \A n \in Node : NextPid(n) \in Nat \ {0}

\* A download of what is newer starts.
LEMMA StartDownloadKeeps ==
    ASSUME RepInv, Numbers', NEW n \in Node, NEW r, NEW source \in Node,
           StartDownload(n, r, source), r.pid = 0, NextPid(n) \in Nat \ {0},
           HostOK(r, disk[n], pending[n], had[n], lapses),
           r.state \notin {Leader, "VERSION_REQUESTING"}, r.list \subseteq rep[n].list,
           Clean => Clock(source) > Clock(n),
           msgs' \subseteq msgs, UNCHANGED <<disk, labels, pending, had>>
    PROVE  RepInv'
<1> DEFINE x == [pid |-> NextPid(n), to |-> n, from |-> source,
                 phase |-> "connecting", ver |-> Fresh, file |-> {},
                 unlinked |-> FALSE, led |-> FALSE]
           q == [r EXCEPT !.pid = NextPid(n)]
<1>1. /\ transfers \subseteq Transfer /\ Few(transfers) /\ Transfers
      /\ rep \in [Node -> Daemon] /\ r \in Daemon
  BY DEF RepInv, Transfers, Hosts, HostOK
<1>2. NextPid(n) \in Nat \ {0}
  OBVIOUS
<1>3. x \in Transfer
  BY <1>2, ReplicatorAssumption, SMTT(30)
  DEF Transfer, Phases, Fresh, Version, VersionFile, Content
<1>4. /\ x.to = n /\ x.from = source /\ x.phase = "connecting" /\ x.led = FALSE
      /\ Readable(x, lapses)
  <2>1. Fresh.gid = 0 /\ Fresh # Empty
    BY SMTT(30) DEF Fresh, Empty
  <2> QED
    BY <2>1 DEF Readable
<1>5. transfers' = transfers \cup {x}
  BY DEF StartDownload
<1>6. rep' = [rep EXCEPT ![n] = q]
  <2>1. [r EXCEPT !.pid = NextPid(n), !.failed = r.failed] = q
    BY <1>1 DEF Daemon
  <2> QED
    BY <2>1 DEF StartDownload
<1>7. HostOK(q, disk[n], pending[n], had[n], lapses) /\ q.list = r.list /\ q.state = r.state
  BY SMTT(30), <1>2, PidOK
<1>8. /\ lapses \subseteq lapses' /\ History'
      /\ "overlap" \notin lapses' => Unreaped(n) = {}
  BY DEF StartDownload, RepInv, History, LapseKinds
<1> HIDE DEF x, q
<1>9. Hosts'
  <2> DEFINE p == pending[n]
             h == had[n]
             d == disk[n]
  <2>1. /\ disk' = [disk EXCEPT ![n] = d] /\ pending' = [pending EXCEPT ![n] = p]
        /\ had' = [had EXCEPT ![n] = h] /\ Hosts
    BY SameHost DEF RepInv
  <2>2. HostOK(q, d, p, h, lapses')
    BY <1>7, <1>8, HostGrows
  <2> HIDE DEF p, h, d
  <2> QED
    BY <1>6, <1>8, <2>1, <2>2, OneHost
<1>10. Transfers'
  <2>1. Few(transfers')
    BY <1>1, <1>5, FewAndOne
  <2>2. ASSUME NEW y \in transfers', rep'[y.to].state = Leader
        PROVE  y.led
    <3>1. y \in Transfer /\ y.to \in Node
      BY <1>1, <1>3, <1>5 DEF Transfer
    <3>2. y.to # n
      BY <1>1, <1>6, <1>7, <2>2
    <3>3. y \in transfers /\ rep'[y.to] = rep[y.to]
      BY <1>1, <1>4, <1>5, <1>6, <3>1, <3>2
    <3> QED
      BY <1>1, <2>2, <3>3 DEF Transfers
  <2>3. \A y \in transfers' : y \in Transfer /\ Readable(y, lapses')
    BY <1>1, <1>3, <1>4, <1>5, <1>8 DEF Transfers, Readable
  <2> QED
    BY <2>1, <2>2, <2>3 DEF Transfers
<1>11. Messages'
  BY DEF RepInv, Messages
<1>12. ASSUME Clean'
       PROVE  Ordered'
  <2>1. Clean /\ Ordered /\ Unreaped(n) = {}
    BY <1>8, <1>12 DEF Clean, RepInv
  <2>2. /\ \A k \in Node : Clock(k)' = Clock(k)
        /\ \A c, f : Labelled(labels, c, f)' <=> Labelled(labels, c, f)
        /\ \A t : Bounded(t)' <=> Bounded(t)
        /\ \A y : Brings(y)' <=> Brings(y)
    BY DEF Clock, Labelled, Bounded, Brings
  <2>3. \A k \in Node : Labelled(labels, Clock(k), disk[k].file)'
    BY SMTT(30), <2>1 DEF Ordered, Clock, Labelled
  <2>4. \A k \in Node : rep'[k].list \subseteq rep[k].list
    BY <1>1, <1>6, <1>7
  <2>5. Brings(x)
    BY <1>4, <2>1 DEF Brings
  <2>6. ASSUME NEW y \in transfers, y.to = n, Live(y)
        PROVE  FALSE
    BY <2>1, <2>6 DEF Unreaped, Live
  <2>7. \A y, z \in transfers' : y.to = z.to /\ Live(y) /\ Live(z) => y = z
    BY <1>4, <1>5, <2>1, <2>6 DEF Ordered
  <2>8. \A y \in transfers' : Live(y) => Brings(y)'
    BY <1>5, <2>1, <2>2, <2>5 DEF Ordered
  <2>9. /\ \A m \in msgs' : Bounded(m.told)'
        /\ \A k \in Node : \A t \in rep'[k].list : Bounded(t)'
    BY <2>1, <2>2, <2>4 DEF Ordered
  <2> QED
    BY <2>3, <2>7, <2>8, <2>9 DEF Ordered, Live
<1> QED
  BY <1>8, <1>9, <1>10, <1>11, <1>12 DEF RepInv

\* What is worth downloading is newer.
LEMMA WorthNewer ==
    ASSUME RepInv, NEW n \in Node, rep[n].state # "DOWN", NEW t \in Told, t.ver.gid = 0,
           Clean => Bounded(t), WorthDownloading(rep[n].ver, t.ver)
    PROVE  Clean => Clock(t.from) > Clock(n)
<1> SUFFICES ASSUME Clean
             PROVE  Clock(t.from) > Clock(n)
  OBVIOUS
<1>1. HostOK(rep[n], disk[n], pending[n], had[n], lapses) /\ disk \in [Node -> Disk]
  BY SameHost DEF RepInv, Hosts
<1>2. rep[n].ver = disk[n].ver /\ rep[n].ver.gid = 0
  BY <1>1 DEF HostOK, Clean
<1>3. t.ver.clock > Clock(n)
  BY <1>2 DEF WorthDownloading, isComparable, Clock
<1>4. t.ver.clock <= Clock(t.from)
  BY DEF Bounded
<1>5. t.ver.clock \in Nat /\ t.from \in Node
  BY SMTT(30) DEF Told, Version
<1>6. Clock(n) \in Int /\ Clock(t.from) \in Int
  BY <1>1, <1>5, ClockIsInt DEF Clock, Disk
<1> QED
  BY SMTT(30), <1>3, <1>4, <1>5, <1>6

\* A backup hears of the version of a leader.
LEMMA OnLeaderVersionKeeps ==
    ASSUME RepInv, PidsLeft, NEW m \in msgs, OnLeaderVersion(m)
    PROVE  RepInv'
<1> DEFINE n == m.to
           t == m.told
<1>1. n \in Node /\ t \in Told /\ t.ver.gid = 0 /\ (Clean => Bounded(t)) /\ t.from \in Node
  BY DEF RepInv, Messages, Message, Ordered, Told
<1>2. Numbers' /\ had' = had
  BY DEF OnLeaderVersion, RepInv, Numbers
<1>3. CASE rep[n].state = "BACKUP" /\ ~Synchronized(n)
  <2>1. CrucialError(n, "synchronized") /\ rep[n].state # "DOWN"
    BY <1>3 DEF OnLeaderVersion
  <2> HIDE DEF n
  <2> QED
    BY <1>1, <1>2, <1>3, <2>1, UnsynchronizedKeeps
<1>4. CASE ~(rep[n].state = "BACKUP" /\ ~Synchronized(n))
  <2>1. /\ IF rep[n].state = "BACKUP" /\ rep[n].pid = 0 /\ WorthDownloading(rep[n].ver, t.ver)
           THEN StartDownload(n, rep[n], t.from)
           ELSE UNCHANGED <<rep, transfers, lapses>>
        /\ msgs' \subseteq msgs
        /\ UNCHANGED <<disk, labels, pending>>
    BY <1>4 DEF OnLeaderVersion
  <2>2. CASE rep[n].state = "BACKUP" /\ rep[n].pid = 0 /\ WorthDownloading(rep[n].ver, t.ver)
    <3> DEFINE r == rep[n]
    <3>1. HostOK(r, disk[n], pending[n], had[n], lapses)
      BY <1>1, SameHost DEF RepInv
    <3>2. Clean => Clock(t.from) > Clock(n)
      BY <1>1, <2>2, WorthNewer
    <3>3. /\ StartDownload(n, r, t.from) /\ r.pid = 0 /\ r.list \subseteq rep[n].list
          /\ r.state \notin {Leader, "VERSION_REQUESTING"}
      BY <2>1, <2>2 DEF Leader
    <3> HIDE DEF n, t, r
    <3> QED
      BY <1>1, <1>2, <2>1, <3>1, <3>2, <3>3, StartDownloadKeeps DEF PidsLeft
  <2>3. CASE ~(rep[n].state = "BACKUP" /\ rep[n].pid = 0 /\ WorthDownloading(rep[n].ver, t.ver))
    <3>1. UNCHANGED <<rep, transfers, lapses>>
      BY <2>1, <2>3
    <3>2. had' = [had EXCEPT ![n] = had[n]] /\ had[n] \in BOOLEAN
      BY <1>1, <1>2, SameHost DEF RepInv, Hosts
    <3>3. Tamer(transfers, transfers') /\ lapses' \subseteq LapseKinds
      BY <3>1, TamerSame DEF RepInv, Transfers, History
    <3> HIDE DEF n
    <3> QED
      BY <1>1, <1>2, <2>1, <3>1, <3>2, <3>3, OutsideStep
  <2> QED
    BY <2>2, <2>3
<1> QED
  BY <1>3, <1>4

\* A daemon has collected versions and takes the best, if there is one.
LEMMA VersionRequestingTimerKeeps ==
    ASSUME RepInv, PidsLeft, NEW n \in Node, VersionRequestingTimer(n)
    PROVE  RepInv'
<1> DEFINE q == rep[n]
           r == [q EXCEPT !.state = "VERSION_DOWNLOADING", !.requesting = FALSE]
           s == [r EXCEPT !.downloading = TRUE]
<1>1. /\ HostOK(q, disk[n], pending[n], had[n], lapses) /\ q \in Daemon
      /\ q.state = "VERSION_REQUESTING" /\ q.pid = 0
  BY SameHost DEF VersionRequestingTimer, RepInv, HostOK
<1>2. Numbers' /\ had' = had
  BY DEF VersionRequestingTimer, RepInv, Numbers
<1>3. r \in Daemon /\ s \in Daemon
  BY <1>1 DEF Daemon, States
<1>4. /\ r.ver = q.ver /\ r.list = q.list /\ r.failed = q.failed /\ r.requesting = FALSE
      /\ r.behind = q.behind
  BY <1>1 DEF Daemon
<1>5. /\ s.ver = q.ver /\ s.list = q.list /\ s.failed = q.failed /\ s.requesting = FALSE
      /\ s.downloading = TRUE /\ s.state = "VERSION_DOWNLOADING" /\ s.pid = 0
      /\ s.behind = q.behind
  BY <1>1 DEF Daemon
<1>6. \/ \E t \in Selected(r) : /\ StartDownload(n, s, t.from)
                                /\ UNCHANGED <<msgs, disk, labels, pending>>
      \/ /\ Synchronized(n) /\ rep' = [rep EXCEPT ![n] = Joined(r)]
         /\ UNCHANGED <<transfers, msgs, disk, labels, pending, lapses>>
      \/ ~Synchronized(n) /\ CrucialError(n, "synchronized")
  BY DEF VersionRequestingTimer
<1> HIDE DEF r, s
<1>7. ASSUME NEW t \in Selected(r), StartDownload(n, s, t.from),
             UNCHANGED <<msgs, disk, labels, pending>>
      PROVE  RepInv'
  <2>1. t \in q.list /\ WorthDownloading(q.ver, t.ver)
    BY <1>4 DEF Selected, BestOf
  <2>2. t \in Told /\ t.ver.gid = 0 /\ (Clean => Bounded(t)) /\ t.from \in Node
    BY <1>1, <2>1 DEF Daemon, HostOK, RepInv, Ordered, Told
  <2>3. Clean => Clock(t.from) > Clock(n)
    BY <1>1, <2>1, <2>2, WorthNewer
  <2>4. HostOK(s, disk[n], pending[n], had[n], lapses)
    BY <1>1, <1>3, <1>5 DEF HostOK, Leader
  <2>5. s.state \notin {Leader, "VERSION_REQUESTING"} /\ s.list \subseteq rep[n].list
    BY <1>5 DEF Leader
  <2> QED
    BY <1>2, <1>5, <1>7, <2>2, <2>3, <2>4, <2>5, StartDownloadKeeps DEF PidsLeft
<1>8. ASSUME Synchronized(n), rep' = [rep EXCEPT ![n] = Joined(r)],
             UNCHANGED <<transfers, msgs, disk, labels, pending, lapses>>
      PROVE  RepInv'
  <2>1. Asked(rep[n], r)
    BY <1>1, <1>3, <1>4 DEF Asked
  <2> QED
    BY <1>2, <1>8, <2>1, JoinedKeeps
<1>9. ASSUME ~Synchronized(n), CrucialError(n, "synchronized")
      PROVE  RepInv'
  <2>1. rep[n].state # "DOWN"
    BY <1>1
  <2> QED
    BY <1>2, <1>9, <2>1, UnsynchronizedKeeps
<1> QED
  BY <1>6, <1>7, <1>8, <1>9

\* What synchronize(true) makes of a leader.
LEMMA CountedOK ==
    ASSUME RepInv, NEW n \in Node, rep[n].state = Leader, NEW V \in SUBSET Stuck(n)
    PROVE  LET r == Counted(n, Forgetting(n, V)) IN
           /\ r.state = Leader /\ r.list = {} /\ r.behind = FALSE
           /\ r.requesting = FALSE /\ r.downloading = FALSE
           /\ r.failed = rep[n].failed /\ r.pid \in Nat
           /\ r.ver.gid = 0 /\ r.ver.gid \in Gids /\ r.ver.clock \in Nat
           /\ r.ver.clock <= INT_MAX => r \in Daemon /\ r.ver \in Version
           /\ "torn" \notin lapses =>
                  /\ Clock(n) \in Nat
                  /\ rep[n].behind => r.ver.clock = Clock(n) + 1
                  /\ ~rep[n].behind => r.ver = disk[n].ver
<1> DEFINE f == Forgetting(n, V)
           l == Loaded(f, disk[n].ver)
           v == Reread(n)
           w == [v EXCEPT !.clock = v.clock + 1]
           b == [l EXCEPT !.ver = w]
<1>1. /\ HostOK(rep[n], disk[n], pending[n], had[n], lapses) /\ rep[n] \in Daemon
      /\ v \in Version /\ v.gid = 0 /\ ("torn" \notin lapses => v = disk[n].ver)
  BY SameHost, RereadOK DEF RepInv
<1>2. /\ rep[n].list = {} /\ rep[n].requesting = FALSE /\ rep[n].downloading = FALSE
      /\ 0 \in Nat
  <2>1. rep[n].requesting \in BOOLEAN /\ rep[n].downloading \in BOOLEAN
    BY <1>1 DEF Daemon
  <2> QED
    BY <1>1, <2>1 DEF HostOK, Leader
<1>3. /\ f \in Daemon /\ f.state = Leader /\ f.list = {} /\ f.requesting = FALSE
      /\ f.downloading = FALSE /\ f.failed = rep[n].failed /\ f.behind = rep[n].behind
      /\ f.ver = rep[n].ver
  BY <1>1, <1>2 DEF Forgetting, Daemon
<1> HIDE DEF f
<1>4. /\ l \in Daemon /\ l.state = Leader /\ l.list = {} /\ l.requesting = FALSE
      /\ l.downloading = FALSE /\ l.failed = rep[n].failed /\ l.behind = FALSE
      /\ l.ver = v /\ l.pid \in Nat
  <2>1. (IF disk[n].ver = Empty THEN f.ver ELSE disk[n].ver) = v
    BY <1>3 DEF Reread
  <2>2. l = [f EXCEPT !.ver = v, !.behind = FALSE]
    BY <2>1 DEF Loaded
  <2> QED
    BY <1>1, <1>3, <2>2 DEF Daemon
<1> HIDE DEF v
<1>5. /\ w.gid = v.gid /\ w.clock = v.clock + 1
      /\ w.clock \in Nat /\ v.clock \in Nat /\ w.gid \in Gids
      /\ w.clock <= INT_MAX => w \in Version
  BY SMTT(30), <1>1, ReplicatorAssumption DEF Version
<1>6. f.behind => Counted(n, f) = b
  BY <1>4 DEF Counted
<1>7. ~f.behind => Counted(n, f) = l
  BY DEF Counted
<1> HIDE DEF l, w
<1>8. /\ b.state = Leader /\ b.list = {} /\ b.requesting = FALSE
      /\ b.downloading = FALSE /\ b.failed = rep[n].failed /\ b.behind = FALSE
      /\ b.ver = w /\ b.pid \in Nat
      /\ w \in Version => b \in Daemon
  BY <1>4 DEF Daemon
<1> HIDE DEF b
<1>9. v.gid \in Gids /\ ("torn" \notin lapses => v.clock = Clock(n))
  BY <1>1 DEF Version, Clock
<1>10. CASE rep[n].behind
  BY <1>1, <1>3, <1>5, <1>6, <1>8, <1>9, <1>10 DEF f
<1>11. CASE ~rep[n].behind
  BY <1>1, <1>3, <1>4, <1>5, <1>7, <1>9, <1>11 DEF f
<1> QED
  BY <1>10, <1>11

\* The transferers of a leader all know that it leads.
LEMMA LedStay ==
    ASSUME RepInv, NEW n \in Node, rep[n].state = Leader, NEW T, Tamer(transfers, T),
           NEW y \in T, y.to = n
    PROVE  y.led
<1>1. PICK x \in transfers : Tame(x, y)
  BY DEF Tamer
<1> QED
  BY <1>1 DEF Tame, RepInv, Transfers

\* A leader counts an update, announces it, and may step down.
LEMMA LeaderTimerKeeps ==
    ASSUME RepInv, NEW n \in Node, NEW silent \in BOOLEAN, LeaderTimer(n, silent)
    PROVE  RepInv'
<1> DEFINE c == rep[n].behind
<1>1. /\ rep[n].state = Leader /\ disk[n] \in Disk /\ c \in BOOLEAN
      /\ HostOK(rep[n], disk[n], pending[n], had[n], lapses)
      /\ had = [had EXCEPT ![n] = had[n]] /\ had[n] \in BOOLEAN
      /\ pending = [pending EXCEPT ![n] = pending[n]]
  BY SameHost DEF LeaderTimer, Leader, RepInv, Hosts, Daemon
<1>2. PICK V \in SUBSET Stuck(n) :
      LET r == Counted(n, Forgetting(n, V)) IN
          /\ Victims(n, V) \/ Happens("unheard")
          /\ IF r.ver.clock > INT_MAX
             THEN CrucialError(n, "clock")
             ELSE /\ transfers' = Kill(V)
                  /\ disk' = IF rep[n].behind
                             THEN [disk EXCEPT ![n].ver = r.ver] ELSE disk
                  /\ labels' = labels \cup
                         {[clock |-> r.ver.clock, file |-> disk[n].file] :
                             x \in {y \in {n} : rep[n].behind}}
                  /\ pending' = IF rep[n].behind
                                THEN [pending EXCEPT ![n] = {}] ELSE pending
                  /\ rep' = [rep EXCEPT ![n] = [r EXCEPT !.state =
                                IF silent THEN "BACKUP" ELSE @]]
                  /\ msgs' = msgs
                        \cup (IF rep[n].behind
                              THEN Broadcast(n, "LEADER_VERSION", r) ELSE {})
                        \cup (IF silent
                              THEN Broadcast(n, "GIVING_UP_VERSION", r) ELSE {})
                  /\ UNCHANGED lapses
  BY DEF LeaderTimer
<1> DEFINE r == Counted(n, Forgetting(n, V))
<1>3. /\ r.state = Leader /\ r.list = {} /\ r.behind = FALSE
      /\ r.requesting = FALSE /\ r.downloading = FALSE
      /\ r.failed = rep[n].failed /\ r.pid \in Nat
      /\ r.ver.gid = 0 /\ r.ver.gid \in Gids /\ r.ver.clock \in Nat
      /\ r.ver.clock <= INT_MAX => r \in Daemon /\ r.ver \in Version
      /\ "torn" \notin lapses =>
             /\ Clock(n) \in Nat
             /\ c => r.ver.clock = Clock(n) + 1
             /\ ~c => r.ver = disk[n].ver
  BY <1>1, CountedOK
<1>4. Numbers' /\ had' = had /\ INT_MAX \in Nat
  BY <1>2, HappensCounted, ReplicatorAssumption DEF LeaderTimer, Victims, RepInv, Numbers
<1>5. CASE r.ver.clock > INT_MAX
  <2>1. CrucialError(n, "clock")
    BY <1>2, <1>5
  <2>2. had' = [had EXCEPT ![n] = had[n]] /\ Excused("clock", lapses)
    BY <1>1, <1>4 DEF Excused
  <2> QED
    BY <1>1, <1>4, <2>1, <2>2, CrucialErrorKeeps
<1>6. CASE ~(r.ver.clock > INT_MAX)
  <2> DEFINE q == [r EXCEPT !.state = IF silent THEN "BACKUP" ELSE r.state]
             e == [disk[n] EXCEPT !.ver = r.ver]
             d == IF c THEN e ELSE disk[n]
             p == IF c THEN {} ELSE pending[n]
             new == {[clock |-> r.ver.clock, file |-> disk[n].file] : x \in {y \in {n} : c}}
             h == had[n]
  <2>1. /\ transfers' = Kill(V) /\ labels' = labels \cup new /\ lapses' = lapses
        /\ rep' = [rep EXCEPT ![n] = q] /\ pending' = [pending EXCEPT ![n] = p]
        /\ had' = [had EXCEPT ![n] = h]
        /\ msgs' \ msgs \subseteq Broadcast(n, "LEADER_VERSION", r)
                                    \cup Broadcast(n, "GIVING_UP_VERSION", r)
    BY <1>1, <1>2, <1>4, <1>6
  <2>2. disk' = [disk EXCEPT ![n] = d]
    BY <1>2, <1>6, SameHost DEF RepInv, Hosts
  <2> HIDE DEF r
  <2>3. r \in Daemon /\ r.ver \in Version /\ r.ver.clock \in 0 .. INT_MAX
    BY <1>3, <1>4, <1>6, SMTT(30)
  <2>4. /\ d \in Disk /\ Readable(d, lapses) /\ d.file = disk[n].file
        /\ disk[n].file \in Content /\ ("torn" \notin lapses => d.ver = r.ver)
    <3>1. e \in Disk /\ e.ver = r.ver /\ e.file = disk[n].file /\ disk[n].file \in Content
      BY <1>1, <2>3 DEF Disk, VersionFile
    <3>2. r.ver # Empty
      BY <2>3, NotEmpty
    <3> HIDE DEF e
    <3> QED
      BY <1>1, <1>3, <3>1, <3>2 DEF HostOK, Readable
  <2>5. /\ q \in Daemon /\ q.state = (IF silent THEN "BACKUP" ELSE Leader)
        /\ q.list = {} /\ q.ver = r.ver /\ q.behind = FALSE /\ q.requesting = FALSE
        /\ q.downloading = FALSE /\ q.failed = rep[n].failed
    BY <1>3, <2>3 DEF Daemon, States, Leader
  <2> HIDE DEF q, d
  <2>6. /\ p \in Content
        /\ p # {} => ~c /\ p = pending[n]
    BY SMTT(30), <1>1 DEF HostOK, Content
  <2> HIDE DEF p
  <2>7. HostOK(q, d, p, h, lapses')
    <3>0. q.state \in {"BACKUP", "REPLICATION_LEADER"}
      BY <2>5 DEF Leader
    <3>1. /\ q.requesting <=> q.state = "VERSION_REQUESTING"
          /\ q.downloading <=> q.state = "VERSION_DOWNLOADING"
          /\ q.state # "VERSION_REQUESTING" /\ q.state # "DOWN"
      BY <2>5, <3>0
    <3>2. lapses \cap {"partial", "torn"} = {} => q.ver = d.ver
      BY <2>4, <2>5
    <3>3. p # {} => lapses \cap {"second", "forgotten"} # {}
      BY <1>1, <2>6 DEF HostOK
    <3>4. q.state = Leader /\ "unheard" \notin lapses => h = TRUE
      BY <1>1 DEF HostOK
    <3>5. /\ "single" \notin q.failed
          /\ "synchronized" \in q.failed => lapses \cap {"partial", "torn"} # {}
          /\ "elected" \in q.failed => "unheard" \in lapses
      BY <1>1, <2>5 DEF HostOK
    <3>6. /\ q \in Daemon /\ d \in Disk /\ p \in Content /\ h \in BOOLEAN
          /\ q.ver.gid = 0 /\ Readable(d, lapses) /\ q.list = {}
      BY <1>1, <1>3, <2>4, <2>5, <2>6
    <3> HIDE DEF h
    <3> QED
      BY <2>1, <3>1, <3>2, <3>3, <3>4, <3>5, <3>6 DEF HostOK
  <2>8. History' /\ labels \subseteq labels'
    BY SMTT(30), <2>1, <2>3, <2>4 DEF RepInv, History
  <2>9. Tamer(transfers, transfers')
    BY <2>1, TamerKill DEF Stuck, Download, Uploads, RepInv, Transfers
  <2>10. \A y \in transfers' : y.to = n => y.led
    BY <1>1, <2>9, LedStay
  <2>11. ASSUME Clean'
         PROVE  /\ "torn" \notin lapses /\ Clock(n) \in Nat /\ d.ver = r.ver
                /\ d.ver.clock = Clock(n)' /\ d.ver.clock >= Clock(n)
    <3>1. "torn" \notin lapses
      BY <2>1, <2>11 DEF Clean
    <3>2. Clock(n) \in Nat /\ d.ver = r.ver /\ disk[n].ver.clock = Clock(n)
      BY <1>3, <2>4, <3>1 DEF Clock
    <3>3. d.ver.clock = Clock(n)'
      BY <2>2 DEF Clock, RepInv, Hosts
    <3>4. r.ver.clock >= Clock(n)
      BY <1>1, <1>3, <3>1, <3>2, SMTT(30)
    <3> QED
      BY <3>1, <3>2, <3>3, <3>4
  <2>12. ASSUME NEW m \in msgs' \ msgs
         PROVE  m \in Message /\ m.told.ver.gid = 0 /\ (Clean' => Bounded(m.told)')
    <3>1. /\ m \in Message /\ m.told.ver.gid = 0 /\ m.told.from = n
          /\ m.told.ver = r.ver
      BY SMTT(30), <1>3, <2>1, <2>3, BroadcastOK DEF Commands
    <3> QED
      BY <2>3, <2>11, <3>1, SMTT(30) DEF Bounded
  <2>13. ASSUME Clean'
         PROVE  Labelled(labels', d.ver.clock, d.file)
    <3>1. Labelled(labels, Clock(n), disk[n].file)
      BY <2>1, <2>13 DEF Clean, RepInv, Ordered
    <3>2. CASE c
      <4>1. [clock |-> r.ver.clock, file |-> disk[n].file] \in labels'
        BY <2>1, <3>2
      <4>2. r.ver.clock = Clock(n) + 1 /\ d.ver = r.ver /\ Clock(n) \in Nat
        BY <1>3, <2>11, <2>13, <3>2
      <4>3. ASSUME NEW k \in 0 .. d.ver.clock
            PROVE  \E l \in labels' : l.clock = k /\ l.file \subseteq d.file
        <5>1. CASE k = d.ver.clock
          BY <2>4, <4>1, <4>2, <5>1
        <5>2. CASE k # d.ver.clock
          <6>1. k \in 0 .. Clock(n)
            BY SMTT(30), <4>2, <5>2
          <6> QED
            BY <2>4, <2>8, <3>1, <6>1 DEF Labelled
        <5> QED
          BY <5>1, <5>2
      <4> QED
        BY <4>3 DEF Labelled
    <3>3. CASE ~c
      <4>1. d.ver.clock = Clock(n) /\ d.file = disk[n].file
        BY <1>3, <2>4, <2>11, <2>13, <3>3 DEF Clock
      <4> QED
        BY <2>8, <3>1, <4>1 DEF Labelled
    <3> QED
      BY <1>1, <3>2, <3>3
  <2>14. q.state = Leader => rep[n].state = Leader
    BY <1>1
  <2>15. q.list \ rep[n].list = {} /\ lapses \subseteq lapses'
    BY <2>1, <2>5
  <2> HIDE DEF h
  <2> QED
    BY <1>4, <2>1, <2>2, <2>7, <2>8, <2>9, <2>10, <2>11, <2>12, <2>13, <2>14, <2>15,
       HostStep
<1> QED
  BY <1>5, <1>6

\* A transferer x that has not failed goes on as y.
LEMMA BecomesKeeps ==
    ASSUME RepInv, Numbers', NEW x \in transfers, NEW y \in Transfer, Becomes(x, y),
           UNCHANGED <<rep, disk, msgs, had, labels, pending, lapses>>,
           Live(x), y.to = x.to, y.led = x.led, Readable(y, lapses),
           Ordered => Brings(y)
    PROVE  RepInv'
<1>1. transfers' = (transfers \ {x}) \cup {y} /\ transfers \subseteq Transfer
  BY DEF Becomes, RepInv, Transfers
<1>2. Hosts' /\ Messages' /\ History'
  BY DEF RepInv, Hosts, Messages, History
<1>3. Transfers'
  <2>1. Few(transfers')
    BY <1>1, FewAndOne DEF RepInv, Transfers
  <2> QED
    BY <1>1, <2>1 DEF RepInv, Transfers
<1>4. ASSUME Clean'
      PROVE  Ordered'
  <2>1. Ordered
    BY <1>4 DEF Clean, RepInv
  <2>2. /\ \A t : Bounded(t)' <=> Bounded(t)
        /\ \A z : Brings(z)' <=> Brings(z)
    BY DEF Clock, Labelled, Bounded, Brings
  <2>3. \A k \in Node : Labelled(labels, Clock(k), disk[k].file)'
    BY <2>1, SMTT(30) DEF Ordered, Clock, Labelled
  <2>4. \A w, z \in transfers' : w.to = z.to /\ Live(w) /\ Live(z) => w = z
    BY <1>1, <2>1 DEF Ordered
  <2>5. \A z \in transfers' : Live(z) => Brings(z)'
    BY <1>1, <2>1, <2>2 DEF Ordered
  <2>6. /\ \A m \in msgs' : Bounded(m.told)'
        /\ \A k \in Node : \A t \in rep'[k].list : Bounded(t)'
    BY <2>1, <2>2 DEF Ordered
  <2> QED
    BY <2>3, <2>4, <2>5, <2>6 DEF Ordered, Live
<1> QED
  BY <1>2, <1>3, <1>4 DEF RepInv

\* A file of the source is copied, the version first.
LEMMA CopyKeeps ==
    ASSUME RepInv, NEW x \in transfers, Copy(x)
    PROVE  RepInv'
<1> DEFINE d == disk[x.from]
           v == [x EXCEPT !.ver = d.ver, !.phase = "copied"]
           f == [x EXCEPT !.file = d.file, !.phase = "done"]
<1>1. /\ x \in Transfer /\ x.from \in Node /\ x.to \in Node /\ Readable(x, lapses)
      /\ x.ver.clock \in Int
  BY ClockIsInt DEF RepInv, Transfers, Transfer
<1>2. d \in Disk /\ Readable(d, lapses) /\ d.ver.clock \in Int /\ Clock(x.from) = d.ver.clock
  <2>1. HostOK(rep[x.from], d, pending[x.from], had[x.from], lapses)
    BY <1>1, SameHost DEF RepInv
  <2>2. d \in Disk /\ Readable(d, lapses) /\ Clock(x.from) = d.ver.clock
    BY <2>1 DEF HostOK, Clock
  <2> QED
    BY <2>2, ClockIsInt DEF Disk
<1>3. Numbers' /\ UNCHANGED <<rep, disk, msgs, had, labels, pending, lapses>>
  BY DEF Copy, RepInv, Numbers
<1>4. \/ x.phase = "uploading" /\ Becomes(x, v)
      \/ x.phase = "copied" /\ Becomes(x, f)
  <2>1. CopyOrder[1] = "ver" /\ CopyOrder[2] = "file"
    BY DEF CopyOrder
  <2>2. Copied(x, "ver", "copied") = v
    BY DEF Copied
  <2>3. Copied(x, "file", "done") = f
    BY DEF Copied
  <2> QED
    BY <2>1, <2>2, <2>3 DEF Copy
<1> HIDE DEF d
<1>5. CASE x.phase = "uploading" /\ Becomes(x, v)
  <2>1. v \in Transfer
    BY <1>1, <1>2 DEF Transfer, Phases, Disk
  <2>2. /\ v.to = x.to /\ v.from = x.from /\ v.led = x.led /\ v.ver = d.ver
        /\ v.phase = "copied" /\ Readable(v, lapses)
    BY <1>1, <1>2 DEF Transfer, Readable
  <2>3. Live(x)
    BY <1>5 DEF Live
  <2> HIDE DEF v
  <2>4. ASSUME Ordered
        PROVE  Brings(v)
    <3>1. Brings(x)
      BY <2>3, <2>4 DEF Ordered
    <3> QED
      BY <1>2, <1>5, <2>2, <3>1, SMTT(30) DEF Brings
  <2> QED
    BY <1>2, <1>3, <1>5, <2>1, <2>2, <2>3, <2>4, BecomesKeeps
<1>6. CASE x.phase = "copied" /\ Becomes(x, f)
  <2>1. f \in Transfer
    BY <1>1, <1>2 DEF Transfer, Phases, Disk
  <2>2. /\ f.to = x.to /\ f.from = x.from /\ f.led = x.led /\ f.ver = x.ver
        /\ f.phase = "done" /\ f.file = d.file /\ Readable(f, lapses)
    BY <1>1 DEF Transfer, Readable
  <2>3. Live(x)
    BY <1>6 DEF Live
  <2> HIDE DEF f
  <2>4. ASSUME Ordered
        PROVE  Brings(f)
    <3>1. Brings(x)
      BY <2>3, <2>4 DEF Ordered
    <3>2. x.ver.clock <= Clock(x.from)
      BY <1>6, <3>1 DEF Brings
    <3>3. Labelled(labels, Clock(x.from), d.file)
      BY <1>1, <2>4 DEF Ordered, d
    <3>4. \A k \in 0 .. x.ver.clock : k \in 0 .. Clock(x.from)
      BY <1>1, <1>2, <3>2, SMTT(30)
    <3>5. Labelled(labels, x.ver.clock, d.file)
      BY SMTT(30), <3>3, <3>4 DEF Labelled
    <3> QED
      BY <1>6, <2>2, <3>1, <3>5 DEF Brings
  <2> QED
    BY <1>1, <1>3, <1>6, <2>1, <2>2, <2>3, <2>4, BecomesKeeps
<1> QED
  BY <1>4, <1>5, <1>6

\* The version is copied while it is being written.
LEMMA CopyTornKeeps ==
    ASSUME RepInv, NEW x \in transfers, CopyTorn(x)
    PROVE  RepInv'
<1>1. PICK v \in Torn(x.from) : Becomes(x, [x EXCEPT !.ver = v, !.phase = "copied"])
  BY DEF CopyTorn
<1> DEFINE y == [x EXCEPT !.ver = v, !.phase = "copied"]
<1>2. /\ x \in Transfer /\ x.from \in Node /\ transfers \subseteq Transfer
      /\ rep[x.to].state = Leader => x.led
  BY DEF RepInv, Transfers, Transfer
<1>3. disk[x.from].ver.gid = 0
  <2>1. HostOK(rep[x.from], disk[x.from], pending[x.from], had[x.from], lapses)
    BY <1>2, SameHost DEF RepInv
  <2> QED
    BY <2>1 DEF HostOK, Readable
<1>4. v \in VersionFile /\ v.gid = 0
  BY <1>2, <1>3, TornOK
<1>5. y \in Transfer /\ y.to = x.to /\ y.led = x.led /\ y.ver = v
  BY <1>2, <1>4 DEF Transfer, Phases
<1>6. transfers' = (transfers \ {x}) \cup {y}
  BY <1>1 DEF Becomes
<1> HIDE DEF y
<1>7. /\ lapses' = lapses \cup {"torn"} /\ ~Clean'
      /\ UNCHANGED <<rep, disk, msgs, had, labels, pending>>
  BY DEF CopyTorn, Clean
<1>8. Numbers' /\ History' /\ Messages'
  BY <1>7, HappensCounted DEF CopyTorn, RepInv, Numbers, History, Messages, LapseKinds
<1>9. Hosts'
  <2>1. \A n \in Node : HostOK(rep[n], disk[n], pending[n], had[n], lapses')
    BY <1>7, HostGrows DEF RepInv, Hosts
  <2> QED
    BY <1>7, <2>1 DEF RepInv, Hosts
<1>10. Transfers'
  <2>1. Few(transfers')
    BY <1>6, FewAndOne DEF RepInv, Transfers
  <2>2. \A z \in transfers' : z \in Transfer /\ Readable(z, lapses')
    BY <1>4, <1>5, <1>6, <1>7 DEF RepInv, Transfers, Readable
  <2>3. \A z \in transfers' : rep'[z.to].state = Leader => z.led
    BY <1>2, <1>5, <1>6, <1>7 DEF RepInv, Transfers
  <2> QED
    BY <2>1, <2>2, <2>3 DEF Transfers
<1> QED
  BY <1>7, <1>8, <1>9, <1>10 DEF RepInv

\* The negotiator writes its state file.
LEMMA UpdateKeeps ==
    ASSUME RepInv, NEW n \in Node, Update(n)
    PROVE  RepInv'
<1> DEFINE q == rep[n]
           u == updates'
           d == [disk[n] EXCEPT !.file = disk[n].file \cup {u}]
           p == IF q.state = Leader THEN pending[n] \cup {u} ELSE pending[n]
           h == had[n]
<1>1. /\ HostOK(q, disk[n], pending[n], h, lapses) /\ q \in Daemon /\ disk[n] \in Disk
      /\ had = [had EXCEPT ![n] = h] /\ rep = [rep EXCEPT ![n] = q]
      /\ pending = [pending EXCEPT ![n] = pending[n]] /\ pending[n] \in Content
  BY SameHost DEF RepInv, Hosts
<1>2. u \in 1 .. MaxUpdates /\ updates' \in 0 .. MaxUpdates
  BY SMTT(30), ReplicatorAssumption DEF Update, RepInv, Numbers
<1>3. Numbers'
  <2>1. faults' \in 0 .. MaxFaults
    BY HappensCounted DEF Update, RepInv, Numbers
  <2> QED
    BY <1>2, <2>1 DEF Update, RepInv, Numbers
<1>4. /\ d \in Disk /\ d.ver = disk[n].ver /\ disk[n].file \subseteq d.file
      /\ disk' = [disk EXCEPT ![n] = d]
  BY <1>1, <1>2 DEF Update, Disk, Content, RepInv, Hosts
<1>5. p \in Content /\ pending' = [pending EXCEPT ![n] = p]
  BY <1>1, <1>2 DEF Update, Content, Leader
<1>6. /\ q.state = "DOWN" => q.behind = FALSE
      /\ q.state = "DOWN" /\ p # {} => lapses \cap {"second", "forgotten"} # {}
  BY <1>1 DEF HostOK, Leader
<1>7. PICK r \in Daemon :
          /\ rep' = [rep EXCEPT ![n] = r]
          /\ r.state = q.state /\ r.ver = q.ver /\ r.list = q.list
          /\ r.requesting = q.requesting /\ r.downloading = q.downloading
          /\ r.pid = q.pid /\ r.failed = q.failed
          /\ p # {} => r.behind \/ lapses' \cap {"second", "forgotten"} # {}
          /\ q.state = "DOWN" => r.behind = FALSE
  <2>1. CASE rep' = [rep EXCEPT ![n].behind = q.state # "DOWN"]
    <3> DEFINE r == [q EXCEPT !.behind = q.state # "DOWN"]
    <3>1. r \in Daemon
      BY <1>1 DEF Daemon
    <3>2. rep' = [rep EXCEPT ![n] = r]
      BY <2>1 DEF RepInv, Hosts
    <3>3. /\ r.state = q.state /\ r.ver = q.ver /\ r.list = q.list
          /\ r.requesting = q.requesting /\ r.downloading = q.downloading
          /\ r.pid = q.pid /\ r.failed = q.failed /\ r.behind = (q.state # "DOWN")
      BY <1>1 DEF Daemon
    <3> HIDE DEF r
    <3>4. /\ p # {} => r.behind \/ lapses \cap {"second", "forgotten"} # {}
          /\ q.state = "DOWN" => r.behind = FALSE
      BY <1>6, <3>3
    <3>5. lapses \subseteq lapses'
      BY DEF Update
    <3> QED
      BY <3>1, <3>2, <3>3, <3>4, <3>5
  <2>2. CASE lapses' = lapses \cup {"second"} /\ rep' = rep
    BY <1>1, <1>6, <2>2
  <2> QED
    BY <2>1, <2>2 DEF Update
<1>8. lapses \subseteq lapses' /\ lapses' \subseteq LapseKinds /\ labels' = labels
  BY DEF Update, RepInv, History, LapseKinds
<1>9. HostOK(q, disk[n], pending[n], h, lapses')
  BY <1>1, <1>8, HostGrows
<1>10. had' = [had EXCEPT ![n] = h] /\ msgs' = msgs /\ transfers' = transfers
  BY <1>1 DEF Update
<1> HIDE DEF p, d, h
<1>11. HostOK(r, d, p, h, lapses')
  BY <1>4, <1>5, <1>6, <1>7, <1>9 DEF HostOK, Readable
<1>12. Tamer(transfers, transfers') /\ History'
  BY <1>8, <1>10, TamerSame DEF RepInv, Transfers, History
<1>13. Clock(n) \in Int /\ d.ver.clock = Clock(n)
  BY <1>1, <1>4, ClockIsInt DEF Clock, Disk
<1>14. ASSUME Clean'
       PROVE  Labelled(labels', d.ver.clock, d.file)
  <2>1. Labelled(labels, Clock(n), disk[n].file)
    BY <1>8, <1>14 DEF Clean, RepInv, Ordered
  <2> QED
    BY <1>4, <1>8, <1>13, <2>1 DEF Labelled
<1>15. /\ r.state = Leader => rep[n].state = Leader
       /\ r.list \ rep[n].list = {} /\ labels \subseteq labels' /\ d.ver.clock >= Clock(n)
  BY <1>7, <1>8, <1>13, SMTT(30)
<1> QED
  BY <1>3, <1>4, <1>5, <1>7, <1>8, <1>10, <1>11, <1>12, <1>13, <1>14, <1>15, HostStep

\* What a download has brought is installed, but its version is empty: a daemon
\* that is joining ends itself.
LEMMA ReapEmptyKeeps ==
    ASSUME RepInv, NEW x \in transfers, NEW n \in Node, n = x.to, NEW d \in Disk,
           x.ver = Empty, Readable(d, lapses),
           disk' = [disk EXCEPT ![n] = d], Shutdown(n, "synchronized"), had' = had, Numbers'
    PROVE  RepInv'
<1> DEFINE r == Ended(n, "synchronized")
           p == pending[n]
           h == had[n]
<1>1. /\ HostOK(rep[n], disk[n], p, h, lapses) /\ Transfers /\ h \in BOOLEAN
      /\ pending = [pending EXCEPT ![n] = p] /\ had = [had EXCEPT ![n] = h]
  BY SameHost DEF RepInv, Hosts
<1>2. /\ lapses \subseteq lapses' /\ lapses' \subseteq LapseKinds
      /\ p # {} => "forgotten" \in lapses'
  BY ForgottenOK DEF Shutdown
<1>3. "torn" \in lapses /\ Excused("synchronized", lapses)
  BY <1>1 DEF Transfers, Readable, Excused
<1>4. Leaves(rep[n], disk[n], p, h, lapses, d, lapses')
  BY <1>1, <1>2 DEF Leaves, Readable
<1>5. HostOK(r, d, p, h, lapses') /\ r.list = {} /\ r.state = "DOWN"
  BY <1>1, <1>3, <1>4, EndedOK
<1>6. /\ rep' = [rep EXCEPT ![n] = r] /\ pending' = [pending EXCEPT ![n] = p]
      /\ had' = [had EXCEPT ![n] = h]
  BY <1>1 DEF Shutdown, Ended
<1>7. labels \subseteq labels' /\ History' /\ ~Clean'
  BY <1>2, <1>3 DEF Shutdown, RepInv, History, Clean
<1>8. Tamer(transfers, transfers')
  BY <1>1, TamerWithout DEF Shutdown
<1>9. msgs' \ msgs = {} /\ r.state # Leader
  BY <1>5 DEF Shutdown, MsgsWithout, Leader
<1> HIDE DEF r, p, h
<1> QED
  BY <1>2, <1>5, <1>6, <1>7, <1>8, <1>9, HostStep

\* What a download has brought is installed.
LEMMA ReapDoneKeeps ==
    ASSUME RepInv, NEW x \in transfers, ReapDone(x)
    PROVE  RepInv'
<1> DEFINE n == x.to
           q == rep[n]
           z == [q EXCEPT !.pid = 0]
           l == Loaded(z, x.ver)
           joins == l.state = "VERSION_DOWNLOADING"
           r == IF joins THEN Joined(l) ELSE l
           d == [ver |-> x.ver, file |-> x.file]
           p == pending[n]
           h == had[n]
<1>1. /\ x \in Transfer /\ n \in Node /\ x.ver \in VersionFile /\ Readable(x, lapses)
      /\ x.ver.clock \in Int /\ x.file \in Content /\ transfers \subseteq Transfer
      /\ rep[x.to].state = Leader => x.led
  BY ClockIsInt DEF RepInv, Transfers, Transfer
<1>2. /\ HostOK(q, disk[n], p, h, lapses) /\ q \in Daemon /\ disk[n] \in Disk
      /\ had = [had EXCEPT ![n] = h] /\ pending = [pending EXCEPT ![n] = p]
  BY <1>1, SameHost DEF RepInv
<1>3. /\ disk' = [disk EXCEPT ![n] = d] /\ had' = had /\ x.phase = "done"
      /\ IF joins /\ l.ver # x.ver
         THEN Shutdown(n, "synchronized")
         ELSE /\ transfers' = transfers \ {x} /\ rep' = [rep EXCEPT ![n] = r]
              /\ lapses' = lapses \cup Forgotten(n) \cup (IF x.led THEN {"leader"} ELSE {})
              /\ msgs' = msgs /\ labels' = labels /\ pending' = pending
  BY DEF ReapDone
<1>4. Numbers'
  BY DEF ReapDone, RepInv, Numbers
<1>5. d \in Disk /\ d.ver = x.ver /\ d.file = x.file /\ Readable(d, lapses)
  BY <1>1 DEF Disk, Readable
<1>6. /\ HostOK(z, disk[n], p, h, lapses) /\ z.list = q.list /\ z.state = q.state
      /\ z \in Daemon
  <2>1. HostOK(z, disk[n], p, h, lapses) /\ z.list = q.list /\ z.state = q.state
    BY SMTT(30), <1>2, PidOK
  <2> QED
    BY <2>1 DEF HostOK
<1> HIDE DEF z, d, p, h
<1> DEFINE v == IF x.ver = Empty THEN z.ver ELSE x.ver
<1>7. v \in Version /\ v.gid = 0
  BY <1>1, <1>6 DEF HostOK, Daemon, VersionFile, Readable
<1>8. /\ l \in Daemon /\ l.state = z.state /\ l.ver = v /\ l.behind = FALSE
      /\ l.list = z.list /\ l.requesting = z.requesting /\ l.downloading = z.downloading
      /\ l.pid = z.pid /\ l.failed = z.failed
  <2>1. l = [z EXCEPT !.ver = v, !.behind = FALSE]
    BY DEF Loaded
  <2> HIDE DEF v
  <2> QED
    BY <1>6, <1>7, <2>1 DEF Daemon
<1> HIDE DEF l
<1>9. CASE joins /\ l.ver # x.ver
  <2>1. x.ver = Empty
    BY <1>8, <1>9
  <2>2. Shutdown(n, "synchronized")
    BY <1>3, <1>9
  <2> HIDE DEF n
  <2> QED
    BY <1>1, <1>3, <1>4, <1>5, <2>1, <2>2, ReapEmptyKeeps DEF n
<1>10. CASE ~(joins /\ l.ver # x.ver)
  <2>1. /\ transfers' = transfers \ {x} /\ rep' = [rep EXCEPT ![n] = r]
        /\ lapses' = lapses \cup Forgotten(n) \cup (IF x.led THEN {"leader"} ELSE {})
        /\ msgs' = msgs /\ labels' = labels
        /\ pending' = [pending EXCEPT ![n] = p] /\ had' = [had EXCEPT ![n] = h]
    BY <1>2, <1>3, <1>10
  <2>2. /\ lapses \subseteq lapses' /\ lapses' \subseteq LapseKinds
        /\ pending[n] # {} => "forgotten" \in lapses'
    BY <1>1, <2>1, ForgottenOK
  <2>3. History' /\ labels \subseteq labels'
    BY <2>1, <2>2 DEF RepInv, History
  <2>4. HostOK(z, disk[n], p, h, lapses')
    BY <1>6, <2>2, HostGrows
  <2>5. HostOK(l, d, p, h, lapses')
    <3>1. p # {} => lapses' \cap {"second", "forgotten"} # {}
      BY <2>2 DEF p
    <3>2. lapses' \cap {"partial", "torn"} = {} => l.ver = d.ver
      BY <1>1, <1>5, <1>8, <2>2 DEF Readable
    <3>3. Readable(d, lapses')
      BY <1>5, <2>2 DEF Readable
    <3> QED
      BY <1>5, <1>7, <1>8, <2>4, <3>1, <3>2, <3>3 DEF HostOK
  <2>6. /\ HostOK(r, d, p, h, lapses') /\ r.list \subseteq q.list
        /\ r.state = Leader => q.state = Leader
    <3>1. CASE joins
      <4>1. l.requesting = FALSE
        <5>1. l.requesting \in BOOLEAN
          BY <1>8 DEF Daemon
        <5> QED
          BY <2>5, <3>1, <5>1 DEF HostOK
      <4>2. Asked(l, l)
        BY <1>8, <3>1, <4>1 DEF Asked
      <4>3. /\ HostOK(Joined(l), d, p, h, lapses') /\ Joined(l).list = {}
            /\ Joined(l).state = "BACKUP"
        BY <2>5, <4>2, JoinedOK
      <4> QED
        BY <3>1, <4>3 DEF Leader
    <3>2. CASE ~joins
      BY <1>6, <1>8, <2>5, <3>2
    <3> QED
      BY <3>1, <3>2
  <2> HIDE DEF r
  <2>7. Tamer(transfers, transfers')
    BY <1>1, <2>1, TamerSame, TamerSubset, SMTT(30)
  <2>8. ASSUME Clean'
        PROVE  /\ d.ver.clock >= Clock(n)
               /\ Labelled(labels', d.ver.clock, d.file)
               /\ \A y \in transfers' : y.to = n /\ Live(y) /\ ~y.led =>
                                            d.ver.clock = Clock(n)
    <3>1. Clean /\ Ordered /\ ~x.led
      BY <2>1, <2>8 DEF Clean, RepInv
    <3>2. Live(x) /\ Brings(x)
      BY <1>3, <3>1 DEF Live, Ordered
    <3>3. x.ver.clock > Clock(n) /\ Labelled(labels, x.ver.clock, x.file)
      BY <1>3, <3>1, <3>2 DEF Brings
    <3>4. Clock(n) \in Int
      BY <1>2, ClockIsInt DEF Clock, Disk
    <3>5. d.ver.clock >= Clock(n)
      BY SMTT(30), <1>1, <1>5, <3>3, <3>4
    <3>6. \A y \in transfers' : ~(y.to = n /\ Live(y))
      BY <2>1, <3>1, <3>2 DEF Ordered
    <3> QED
      BY <1>5, <2>1, <3>3, <3>5, <3>6
  <2>9. /\ msgs' \ msgs = {} /\ r.list \ rep[n].list = {}
        /\ r.state = Leader => rep[n].state = Leader
        /\ HostOK(r, d, p, h, lapses')
    BY <2>1, <2>6
  <2> HIDE DEF n
  <2> QED
    BY <1>1, <1>3, <1>4, <2>1, <2>2, <2>3, <2>7, <2>8, <2>9, HostStep
<1> QED
  BY <1>9, <1>10

\* Only the version file is replaced.
LEMMA ReapPartlyKeeps ==
    ASSUME RepInv, NEW x \in transfers, ReapPartly(x)
    PROVE  RepInv'
<1> DEFINE n == x.to
           q == rep[n]
           r == [q EXCEPT !.pid = 0]
           d == [disk[n] EXCEPT !.ver = x.ver]
           p == pending[n]
           h == had[n]
<1>1. /\ x \in Transfer /\ n \in Node /\ x.ver \in VersionFile /\ Readable(x, lapses)
      /\ transfers \subseteq Transfer
  BY DEF RepInv, Transfers, Transfer
<1>2. /\ HostOK(q, disk[n], p, h, lapses) /\ disk[n] \in Disk
      /\ had = [had EXCEPT ![n] = h] /\ pending = [pending EXCEPT ![n] = p]
      /\ rep \in [Node -> Daemon] /\ disk \in [Node -> Disk]
  BY <1>1, SameHost DEF RepInv, Hosts
<1>3. /\ transfers' = transfers \ {x} /\ disk' = [disk EXCEPT ![n] = d]
      /\ rep' = [rep EXCEPT ![n] = r] /\ msgs' = msgs /\ labels' = labels
      /\ had' = [had EXCEPT ![n] = h] /\ pending' = [pending EXCEPT ![n] = p]
      /\ lapses' = lapses \cup {"partial"}
  BY <1>1, <1>2 DEF ReapPartly
<1>4. Numbers'
  BY HappensCounted DEF ReapPartly, RepInv, Numbers
<1>5. /\ History' /\ lapses \subseteq lapses' /\ labels \subseteq labels'
      /\ ~Clean' /\ "partial" \in lapses'
  BY <1>3 DEF RepInv, History, LapseKinds, Clean
<1>6. d \in Disk /\ d.ver = x.ver
  BY <1>1, <1>2 DEF Disk
<1>7. /\ HostOK(r, disk[n], p, h, lapses) /\ r.list = q.list /\ r.state = q.state
  BY SMTT(30), <1>2, PidOK
<1>8. HostOK(r, disk[n], p, h, lapses')
  BY <1>5, <1>7, HostGrows
<1> HIDE DEF r, d, p, h
<1>9. HostOK(r, d, p, h, lapses')
  <2>1. Readable(d, lapses')
    BY <1>1, <1>5, <1>6 DEF Readable
  <2> QED
    BY <1>5, <1>6, <1>8, <2>1 DEF HostOK
<1>10. Tamer(transfers, transfers')
  BY <1>1, <1>3, TamerSame, TamerSubset, SMTT(30)
<1>11. msgs' \ msgs = {} /\ (r.state = Leader => rep[n].state = Leader)
  BY <1>3, <1>7
<1> HIDE DEF n
<1> QED
  BY <1>1, <1>3, <1>4, <1>5, <1>9, <1>10, <1>11, HostStep

\* Nothing has happened at first.
LEMMA RepInitially == Init => RepInv
<1> SUFFICES ASSUME Init
             PROVE  RepInv
  OBVIOUS
<1> DEFINE r == [state |-> "DOWN", ver |-> Fresh, behind |-> FALSE, list |-> {},
                 requesting |-> FALSE, downloading |-> FALSE, pid |-> 0, failed |-> {}]
           d == [ver |-> Fresh, file |-> {}]
<1>1. /\ Fresh \in Version /\ Fresh.gid = 0 /\ Fresh.clock = 0 /\ 0 \in Nat
      /\ 0 \in 0 .. INT_MAX /\ {} \in Content
  BY SMTT(30), ReplicatorAssumption DEF Fresh, Version, Content
<1>2. r \in Daemon /\ d \in Disk /\ d.ver = Fresh /\ d.file = {}
  BY <1>1 DEF Daemon, States, Disk, VersionFile
<1>3. HostOK(r, d, {}, FALSE, {})
  BY <1>1, <1>2, NotEmpty DEF HostOK, Leader, Readable
<1>4. r.list = {}
  OBVIOUS
<1> HIDE DEF r, d
<1>5. Hosts
  BY <1>1, <1>2, <1>3 DEF Init, Hosts, r, d
<1>6. Transfers /\ Messages
  BY DEF Init, Transfers, Messages, Few
<1>7. Numbers /\ History
  BY <1>1, ReplicatorAssumption, SMTT(30) DEF Init, Numbers, History
<1>8. Ordered
  <2>1. /\ \A n \in Node : disk[n] = d /\ rep[n] = r
        /\ labels = {[clock |-> 0, file |-> {}]}
    BY DEF Init, r, d
  <2>2. \A n \in Node : Labelled(labels, Clock(n), disk[n].file)
    BY SMTT(30), <1>1, <1>2, <2>1 DEF Labelled, Clock
  <2>3. transfers = {} /\ msgs = {} /\ \A n \in Node : rep[n].list = {}
    BY <1>4, <2>1 DEF Init
  <2> QED
    BY <2>2, <2>3 DEF Ordered
<1> QED
  BY <1>5, <1>6, <1>7, <1>8 DEF RepInv

\* Every step keeps the invariant.
LEMMA RepStep ==
    ASSUME RepInv, PidsLeft, [Next]_vars
    PROVE  RepInv'
<1>1. CASE Progress
  BY <1>1, InitializeKeeps, VersionRequestingTimerKeeps, VersionDownloadingTimerKeeps,
     LeaderTimerKeeps, TransferFileKeeps, CopyKeeps, ReapFailedKeeps, ReapDoneKeeps,
     OnLeaderVersionKeeps, OnSolicitVersionKeeps, OnSolicitVersionReplyKeeps,
     OnGivingUpVersionKeeps DEF Progress
<1>2. ASSUME NEW n \in Node,
             \/ Reinitialize(n) \/ Crash(n) \/ AfterElection(n) \/ InLeader(n)
             \/ AfterLeader(n) \/ AfterElectionLost(n) \/ AfterLeaderLost(n)
             \/ Update(n) \/ JoiningTimer(n) \/ BackupTimer(n)
      PROVE  RepInv'
  BY <1>2, ReinitializeKeeps, CrashKeeps, AfterElectionKeeps, InLeaderKeeps,
     AfterLeaderKeeps, AfterElectionLostKeeps, AfterLeaderLostKeeps, UpdateKeeps,
     JoiningTimerKeeps, BackupTimerKeeps
<1>3. ASSUME NEW x \in transfers, CopyTorn(x) \/ TransferFails(x) \/ ReapPartly(x)
      PROVE  RepInv'
  BY <1>3, CopyTornKeeps, TransferFailsKeeps, ReapPartlyKeeps
<1>4. ASSUME NEW m \in msgs, Lose(m)
      PROVE  RepInv'
  BY SMTT(30), <1>4, LoseKeeps
<1>5. CASE UNCHANGED vars
  BY <1>5, SMTT(30) DEF vars, RepInv, Hosts, Transfers, Messages, Numbers, History,
     Clean, Ordered,
              Clock, Labelled, Bounded, Brings
<1> QED
  BY <1>1, <1>2, <1>3, <1>4, <1>5 DEF Next

\* What a step may make of the version of a host.
Forward ==
    Clean' => \A n \in Node : \/ disk'[n].ver = disk[n].ver
                              \/ disk'[n].ver.clock > disk[n].ver.clock

\* A leader that counts an update has a larger clock.
LEMMA LeaderTimerForward ==
    ASSUME RepInv, NEW n \in Node, NEW silent \in BOOLEAN, LeaderTimer(n, silent)
    PROVE  Forward
<1> SUFFICES ASSUME Clean'
             PROVE  Forward
  BY DEF Forward
<1>1. PICK V \in SUBSET Stuck(n) :
          \/ disk' = disk
          \/ /\ disk' = [disk EXCEPT ![n].ver = Counted(n, Forgetting(n, V)).ver]
             /\ rep[n].behind /\ lapses' = lapses
  BY DEF LeaderTimer, CrucialError
<1> DEFINE v == Counted(n, Forgetting(n, V)).ver
<1>2. rep[n].state = Leader /\ disk \in [Node -> Disk]
  BY SMTT(30) DEF LeaderTimer, Leader, RepInv, Hosts
<1>3. "torn" \notin lapses /\ rep[n].behind => v.clock = Clock(n) + 1 /\ Clock(n) \in Nat
  BY <1>2, CountedOK
<1> HIDE DEF v
<1>4. CASE disk' = disk
  BY <1>4 DEF Forward
<1>5. CASE disk' = [disk EXCEPT ![n].ver = v] /\ rep[n].behind /\ lapses' = lapses
  <2>1. Clock(n) = disk[n].ver.clock /\ Clock(n) \in Nat /\ v.clock = Clock(n) + 1
    BY <1>3, <1>5 DEF Clock, Clean
  <2>2. v.clock > disk[n].ver.clock
    BY <2>1, SMTT(30)
  <2> QED
    BY <1>2, <1>5, <2>2 DEF Forward, Disk
<1> QED
  BY <1>1, <1>4, <1>5 DEF v

\* A download that is installed is newer than what it replaces.
LEMMA ReapDoneForward ==
    ASSUME RepInv, NEW x \in transfers, ReapDone(x)
    PROVE  Forward
<1> SUFFICES ASSUME Clean'
             PROVE  x.ver.clock > Clock(x.to)
  BY DEF Forward, ReapDone, Clock, RepInv, Hosts
<1>0. /\ lapses \subseteq lapses' /\ x.phase = "done" /\ x \in Transfer
      /\ Readable(x, lapses) /\ x.to \in Node /\ rep \in [Node -> Daemon]
  BY DEF ReapDone, Shutdown, RepInv, Transfers, Transfer, Hosts
<1>1. Clean /\ Ordered /\ ~x.led /\ x.phase = "done"
  <2>1. Clean /\ Ordered /\ "torn" \notin lapses
    BY <1>0 DEF Clean, RepInv
  <2> DEFINE z == [rep[x.to] EXCEPT !.pid = 0]
  <2>2. z \in Daemon
    BY <1>0 DEF Daemon
  <2> HIDE DEF z
  <2>3. Loaded(z, x.ver).ver = x.ver
    BY <1>0, <2>1, <2>2 DEF Loaded, Readable, Daemon
  <2>4. lapses' = lapses \cup Forgotten(x.to) \cup (IF x.led THEN {"leader"} ELSE {})
    BY <2>3 DEF ReapDone, z
  <2> QED
    BY <1>0, <2>1, <2>4 DEF Clean
<1>2. Brings(x)
  BY <1>1 DEF Ordered, Live
<1> QED
  BY <1>1, <1>2 DEF Brings

\* A version that is read is not changed, but for an empty one.
LEMMA RereadForward ==
    ASSUME RepInv, NEW n \in Node, disk' = [disk EXCEPT ![n].ver = Reread(n)],
           lapses \subseteq lapses'
    PROVE  Forward
<1>1. disk \in [Node -> Disk] /\ HostOK(rep[n], disk[n], pending[n], had[n], lapses)
  BY SameHost DEF RepInv, Hosts
<1>2. Clean' => Reread(n) = disk[n].ver
  BY <1>1, RereadOK DEF Clean
<1> QED
  BY <1>1, <1>2 DEF Forward, Disk

\* Every step moves forward.
LEMMA StepForward == RepInv /\ [Next]_vars => [Forward]_vars
<1> SUFFICES ASSUME RepInv, [Next]_vars
             PROVE  Forward
  OBVIOUS
<1>1. CASE disk' = disk
  BY <1>1 DEF Forward
<1>2. ASSUME NEW n \in Node, rep[n].state \in {"BACKUP", Leader},
             SelectGid(n, "REPLICATION_LEADER")
      PROVE  disk' = disk
  BY <1>2, NoGid DEF RepInv, Leader
<1>3. ASSUME NEW n \in Node, BecomeLeader(n), rep[n].state = "BACKUP"
      PROVE  disk' = disk
  BY <1>2, <1>3 DEF BecomeLeader
<1>4. ASSUME NEW n \in Node, NEW silent \in BOOLEAN,
             \/ Initialize(n) \/ VersionRequestingTimer(n) \/ VersionDownloadingTimer(n)
             \/ LeaderTimer(n, silent)
      PROVE  Forward
  <2>1. CASE LeaderTimer(n, silent)
    BY <2>1, LeaderTimerForward
  <2>2. CASE Initialize(n)
    BY <2>2, RereadForward DEF Initialize
  <2>3. CASE VersionDownloadingTimer(n)
    BY <1>1, <2>3 DEF VersionDownloadingTimer, CrucialError
  <2>4. CASE VersionRequestingTimer(n)
    BY <1>1, <2>4 DEF VersionRequestingTimer, CrucialError
  <2> QED
    BY <1>4, <2>1, <2>2, <2>3, <2>4
<1>5. ASSUME NEW x \in transfers,
             \/ TransferFile(x) \/ Copy(x) \/ ReapFailed(x) \/ ReapDone(x)
             \/ CopyTorn(x) \/ TransferFails(x) \/ ReapPartly(x)
      PROVE  Forward
  <2>1. CASE ReapDone(x)
    BY <2>1, ReapDoneForward
  <2>2. CASE ReapPartly(x)
    BY <2>2 DEF ReapPartly, Forward, Clean
  <2> QED
    BY <1>1, <1>5, <2>1, <2>2 DEF TransferFile, Copy, CopyTorn, ReapFailed, TransferFails
<1>6. ASSUME NEW m \in msgs,
             \/ OnLeaderVersion(m) \/ OnSolicitVersion(m) \/ OnSolicitVersionReply(m)
             \/ OnGivingUpVersion(m) \/ Lose(m)
      PROVE  Forward
  <2>1. CASE OnLeaderVersion(m)
    BY <1>1, <2>1 DEF OnLeaderVersion, CrucialError
  <2>2. CASE OnGivingUpVersion(m)
    <3>1. m.to \in Node
      BY DEF RepInv, Messages, Message
    <3> QED
      BY <1>1, <1>2, <2>2, <3>1 DEF OnGivingUpVersion, Leader
  <2> QED
    BY <1>1, <1>6, <2>1, <2>2 DEF OnSolicitVersion, OnSolicitVersionReply, Lose
<1>7. ASSUME NEW n \in Node,
             \/ Reinitialize(n) \/ Crash(n) \/ AfterElection(n) \/ InLeader(n)
             \/ AfterLeader(n) \/ AfterElectionLost(n) \/ AfterLeaderLost(n)
             \/ Update(n) \/ JoiningTimer(n) \/ BackupTimer(n)
      PROVE  Forward
  <2>1. CASE Update(n)
    BY <2>1 DEF Update, Forward, RepInv, Hosts, Disk
  <2>2. CASE AfterElection(n)
    BY <1>1, <1>3, <2>2 DEF AfterElection, CrucialError
  <2>3. CASE InLeader(n)
    BY <1>1, <1>3, <2>3 DEF InLeader
  <2>4. CASE BackupTimer(n)
    BY <1>1, <2>4 DEF BackupTimer, CrucialError
  <2>5. CASE Reinitialize(n)
    BY <2>5, RereadForward DEF Reinitialize
  <2>6. CASE Crash(n)
    <3>1. PICK d \in Disk : /\ disk' = [disk EXCEPT ![n] = d]
                            /\ d = disk[n] \/ ~Clean'
      BY <2>6, LeftOK DEF Crash
    <3>2. disk = [disk EXCEPT ![n] = disk[n]]
      BY SameHost DEF RepInv
    <3> QED
      BY <3>1, <3>2 DEF Forward
  <2> QED
    BY <1>1, <1>7, <2>1, <2>2, <2>3, <2>4, <2>5, <2>6
    DEF AfterLeader, AfterElectionLost, AfterLeaderLost, JoiningTimer
<1>8. CASE UNCHANGED vars
  BY <1>1, <1>8 DEF vars
<1> QED
  BY <1>4, <1>5, <1>6, <1>7, <1>8 DEF Next, Progress

----------------------------------------------------------------------------
(* The theorems.  Only the proof that there is a pid left is about finite  *)
(* sets.                                                                   *)

INSTANCE FiniteSetTheorems

\* A few things are a finite set.
LEMMA FewIsFinite ==
    ASSUME NEW S, Few(S)
    PROVE  IsFiniteSet(S)
<1>1. PICK k \in Nat : \E f : \A x \in S : \E i \in 1 .. k : x = f[i]
  BY DEF Few
<1>2. PICK f : \A x \in S : \E i \in 1 .. k : x = f[i]
  BY <1>1
<1> DEFINE I == {f[i] : i \in 1 .. k}
           h == [i \in 1 .. k |-> f[i]]
<1>3. IsFiniteSet(1 .. k)
  <2>1. 1 \in Int /\ k \in Int
    BY SMTT(30)
  <2> QED
    BY <2>1, FS_Interval
<1>4. h \in Surjection(1 .. k, I)
  BY DEF Surjection
<1>5. IsFiniteSet(I)
  BY SMTT(30), <1>3, <1>4, FS_Surjection
<1>6. S \subseteq I
  BY <1>2
<1> HIDE DEF I
<1> QED
  BY <1>5, <1>6, FS_Subset

\* There is a pid that no transferer of the host has.
LEMMA PidFree ==
    ASSUME Transfers, NEW n \in Node
    PROVE  NextPid(n) \in Nat \ {0}
<1> DEFINE c == Cardinality(transfers)
           P == 1 .. c + 1
<1>1. IsFiniteSet(transfers) /\ c \in Nat
  BY FewIsFinite, FS_CardinalityType DEF Transfers
<1>2. IsFiniteSet(P) /\ Cardinality(P) = c + 1
  <2>1. 1 \in Int /\ c + 1 \in Int
    BY SMTT(30), <1>1
  <2> QED
    BY SMTT(30), <1>1, <2>1, FS_Interval
<1>3. \E p \in P : \A x \in transfers : x.to = n => x.pid # p
  <2> SUFFICES ASSUME \A p \in P : \E x \in transfers : x.to = n /\ x.pid = p
               PROVE  FALSE
    OBVIOUS
  <2> DEFINE f == [p \in P |-> CHOOSE x \in transfers : x.to = n /\ x.pid = p]
  <2>1. f \in [P -> transfers] /\ \A p \in P : f[p].pid = p
    OBVIOUS
  <2>2. Cardinality(transfers) < Cardinality(P)
    BY SMTT(30), <1>1, <1>2
  <2> HIDE DEF f, P
  <2>3. \E p, q \in P : p # q /\ f[p] = f[q]
    BY SMTT(30), <1>1, <1>2, <2>1, <2>2, FS_PigeonHole
  <2> QED
    BY <2>1, <2>3
<1>4. NextPid(n) \in P
  BY <1>3 DEF NextPid
<1> QED
  BY SMTT(30), <1>1, <1>4

\* RepInv is an invariant.
LEMMA RepAlways == Spec => []RepInv
<1>1. RepInv /\ [Next]_vars => RepInv'
  <2>1. RepInv => PidsLeft
    BY PidFree DEF RepInv, PidsLeft
  <2> QED
    BY <2>1, RepStep
<1> QED
  BY <1>1, RepInitially, PTL DEF Spec

\* The variables keep their types, and the timers of joining are set exactly in
\* the states they end, whatever happens.
THEOREM ReplicatorTypes == Spec => []TypeOK
BY InvTypes, RepAlways, PTL

\* gidSelectionHandler never selects another gid: the versions of any number of
\* daemons, leaders at the same time included, stay comparable.
THEOREM NoGidEver == Spec => []NoGidSelected
BY InvNoGid, RepAlways, PTL

\* A daemon ends itself for a version that is not synchronized only after the two
\* renames of a download have come apart or a version file has been copied or left
\* half written; for being elected as a leader only after an AFTER_LEADER of HAD
\* has not reached it; and never for a second download.
THEOREM AssertionsNeverFail == Spec => []AssertionsHold
BY InvAssertions, RepAlways, PTL

\* Whatever elections, crashes and transfers come in between, an update made under
\* a replication leader waits for a timer that counts it, unless it was lost to the
\* resolution of st_mtime or the daemon ended, was reconfigured or installed a
\* download first.
THEOREM UpdatesCounted == Spec => []UpdateWillBeCounted
BY InvUpdates, RepAlways, PTL

\* The version file of a host never promises an update that the state file beside
\* it lacks, for any number of hosts copying from each other while their state
\* files are being written, as long as version files are copied and saved whole and
\* downloads are installed whole, one at a time and not under a leader.
THEOREM ClocksHonest == Spec => []ClockNeverOverstates
BY InvClocks, RepAlways, PTL

\* No step of any daemon or transferer sets the version of a host back, under the
\* same conditions.
THEOREM VersionsMoveForward == Spec => VersionMovesForward
<1>1. VersionMovesForward <=> [][Forward]_vars
  BY DEF VersionMovesForward, Forward
<1> QED
  BY <1>1, RepAlways, StepForward, PTL DEF Spec
============================================================================
