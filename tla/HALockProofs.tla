---------------------------- MODULE HALockProofs ----------------------------
(***************************************************************************)
(* Proofs about HALock, for any number of masters, any clocks, periods and *)
(* hold times that satisfy HALockAssumption, and every kind of fault.      *)
(***************************************************************************)
EXTENDS HALock, TLAPS

\* Most leaves are first-order; the ones with arithmetic, or much to rewrite, name SMT.
USE Zenon

----------------------------------------------------------------------------
(* What holds of each master by itself.                                    *)

Acquiring == {"stat", "unlink", "creat", "link"}
Renewing == {"utime", "verify"}

\* A master, with no bounds on its times.
Lock == [up : BOOLEAN, have : BOOLEAN, enabled : BOOLEAN, hold : Holds,
         url : Urls, last : Nat \cup {Never}, in : Int, every : Nat,
         call : Calls, by : Callers, expire : Nat, rearm : Int,
         pid : {"none", "runs", "stops", "leaves"},
         on_hold : BOOLEAN, start : BOOLEAN]

Shape ==
    /\ m \in [Node -> Lock]
    /\ file \in [Urls -> LockFile]
    /\ lapses \subseteq Lapses

\* Of a master that may be in a call: what does not depend on the call.
Quiet(l) ==
    /\ l.pid = "runs" => l.have
    /\ l.have => l.enabled /\ l.up
    /\ l.by = "periods" => l.rearm \in Nat

\* A lock is asked for while it is not held and renewed while it is, by a master
\* that is up and has been enabled.
Sound(l) ==
    /\ Quiet(l)
    /\ l.call \in Acquiring => ~l.have /\ l.enabled
    /\ l.call \in Renewing => l.have
    /\ l.call # "none" => l.up

\* What the timer and its calls leave alone.
Keeps(l, k) ==
    /\ k.have = l.have /\ k.enabled = l.enabled /\ k.up = l.up
    /\ k.pid = l.pid /\ k.on_hold = l.on_hold /\ k.start = l.start
    /\ k.url = l.url /\ k.hold = l.hold

\* LockIsServed, Competes and the reason for SingleUnlessLapse, of one master.
Fits(l, L) ==
    /\ "idle" \notin L => (l.have => l.pid # "none")
    /\ "disabled" \notin L =>
           (l.up /\ ~l.on_hold => l.pid # "none" \/ l.enabled \/ l.start)
    /\ "stopping" \notin L /\ "moved" \notin L => (l.pid # "none" => l.have)

\* What the daemon's side leaves alone.
KeepsTimes(l, k) ==
    /\ k.up = l.up /\ k.hold = l.hold /\ k.url = l.url
    /\ k.last = l.last /\ k.in = l.in /\ k.every = l.every
    /\ k.expire = l.expire /\ k.rearm = l.rearm

\* Fits does not depend on the times.
LEMMA FitsKept ==
    ASSUME NEW l, NEW k, NEW L, Keeps(l, k), Fits(l, L)
    PROVE  Fits(k, L)
BY DEF Keeps, Fits

\* Nor does a further lapse disturb it.
LEMMA FitsGrows ==
    ASSUME NEW l, NEW L, NEW K, L \subseteq K, Fits(l, L)
    PROVE  Fits(l, K)
BY DEF Fits

\* DoPoll begins the call that fits, and nothing else.
LEMMA DoPollSound ==
    ASSUME NEW l \in Lock, NEW r \in Int, l.up, l.call = "none", Sound(l)
    PROVE  DoPoll(l, r) \in Lock /\ Sound(DoPoll(l, r)) /\ Keeps(l, DoPoll(l, r))
<1> USE DEF Lock, Sound, Quiet, Keeps
<1>1. CASE l.have
  BY <1>1 DEF DoPoll, Calls, Callers, Acquiring, Renewing
<1>2. CASE ~l.have /\ l.enabled
  BY <1>2 DEF DoPoll, Calls, Callers, Acquiring, Renewing
<1>3. CASE ~l.have /\ ~l.enabled
  BY <1>3 DEF DoPoll
<1> QED
  BY <1>1, <1>2, <1>3

\* The same of SetupTimer.
LEMMA SetupTimerSound ==
    ASSUME NEW l \in Lock, NEW p \in Nat, l.up, l.call = "none", Sound(l)
    PROVE  /\ SetupTimer(l, p) \in Lock /\ Sound(SetupTimer(l, p))
           /\ Keeps(l, SetupTimer(l, p))
<1>1. CASE p = 0
  BY <1>1 DEF SetupTimer, Keeps
<1>2. CASE p # 0 /\ l.last = Never
  <2> DEFINE k == [l EXCEPT !.in = p, !.every = p]
  <2>1. p \in Int
    BY SMTT(30)
  <2>2. k \in Lock
    BY <2>1 DEF Lock
  <2>3. Keeps(l, k) /\ k.call = l.call /\ k.by = l.by /\ k.rearm = l.rearm
    BY DEF Lock, Keeps
  <2>4. SetupTimer(l, p) = k
    BY <1>2 DEF SetupTimer
  <2> QED
    BY <2>2, <2>3, <2>4 DEF Sound, Quiet, Keeps
<1>3. CASE p # 0 /\ l.last # Never
  <2> DEFINE k == [l EXCEPT !.every = p]
  <2>1. k \in Lock /\ Sound(k) /\ Keeps(l, k) /\ k.up /\ k.call = "none"
    BY DEF Lock, Sound, Quiet, Keeps
  <2>2. Delay(p - l.last) \in Int
    BY SMTT(30) DEF Delay, Never, Lock
  <2> HIDE DEF k
  <2>3. /\ DoPoll(k, Delay(p - l.last)) \in Lock
        /\ Sound(DoPoll(k, Delay(p - l.last)))
        /\ Keeps(k, DoPoll(k, Delay(p - l.last)))
    BY <2>1, <2>2, DoPollSound
  <2>4. SetupTimer(l, p) = DoPoll(k, Delay(p - l.last))
    BY <1>3 DEF SetupTimer, k
  <2> QED
    BY <2>1, <2>3, <2>4 DEF Keeps
<1> QED
  BY <1>1, <1>2, <1>3

\* A call returns to its caller, who at most begins another one.
LEMMA ReturnSound ==
    ASSUME NEW l \in Lock, l.up, Quiet(l)
    PROVE  Return(l) \in Lock /\ Sound(Return(l)) /\ Keeps(l, Return(l))
<1> DEFINE done == [l EXCEPT !.call = "none", !.by = "app", !.expire = 0,
                             !.rearm = 0]
<1>0. 0 \in Nat /\ 0 \in Int /\ "none" \in Calls /\ "app" \in Callers
  BY SMTT(30) DEF Calls, Callers
<1>a. done \in Lock
  BY <1>0 DEF Lock
<1>1. /\ done \in Lock /\ Keeps(l, done) /\ done.up
      /\ done.call = "none" /\ done.by = "app"
  BY <1>a DEF Lock, Keeps
<1>2. Sound(done)
  BY <1>1 DEF Sound, Quiet, Keeps, Acquiring, Renewing
<1> HIDE DEF done
<1>3. CASE l.by = "app"
  <2>1. Return(l) = done
    BY <1>3 DEF Return, done
  <2> QED
    BY <1>1, <1>2, <2>1
<1>4. CASE l.by = "poll"
  <2> DEFINE k == [done EXCEPT !.in = l.rearm]
  <2>1. Return(l) = k
    BY <1>4 DEF Return, done
  <2>2. l.rearm \in Int
    BY DEF Lock
  <2>3. k \in Lock /\ Keeps(done, k) /\ k.call = "none" /\ k.by = "app"
    <3>1. k \in Lock
      BY <1>1, <2>2 DEF Lock
    <3>2. Keeps(done, k) /\ k.call = done.call /\ k.by = done.by
      BY <1>1 DEF Lock, Keeps
    <3> QED
      BY <1>1, <3>1, <3>2
  <2> HIDE DEF k
  <2>4. Keeps(l, k)
    BY <1>1, <2>3 DEF Keeps
  <2>5. Sound(k)
    BY <1>2, <2>3 DEF Sound, Quiet, Acquiring, Renewing, Keeps
  <2> QED
    BY <1>1, <1>2, <2>1, <2>3, <2>4, <2>5 DEF Keeps
<1>5. CASE l.by = "periods"
  <2>1. Return(l) = SetupTimer(done, l.rearm)
    BY <1>5 DEF Return, done
  <2>2. l.rearm \in Nat
    BY <1>5 DEF Quiet
  <2>3. /\ SetupTimer(done, l.rearm) \in Lock /\ Sound(SetupTimer(done, l.rearm))
        /\ Keeps(done, SetupTimer(done, l.rearm))
    BY <1>1, <1>2, <2>2, SetupTimerSound
  <2> QED
    BY <1>1, <2>1, <2>3 DEF Keeps
<1>6. l.by \in {"app", "poll", "periods"}
  BY DEF Lock, Callers
<1> QED
  BY <1>3, <1>4, <1>5, <1>6

\* HaLockAcquired starts the daemon or leaves it alone.
LEMMA RealStartFields ==
    ASSUME NEW l \in Lock, NEW ok \in BOOLEAN
    PROVE  LET k == RealStart(l, ok) IN
           /\ k \in Lock /\ KeepsTimes(l, k)
           /\ k.have = l.have /\ k.enabled = l.enabled /\ k.on_hold = l.on_hold
           /\ k.call = l.call /\ k.by = l.by
           /\ k.pid = l.pid \/ k.pid = "runs"
           /\ k.start = l.start \/ k.start = TRUE
<1>1. CASE l.on_hold \/ l.pid # "none"
  BY <1>1 DEF RealStart, KeepsTimes
<1>2. CASE ~(l.on_hold \/ l.pid # "none") /\ ok
  BY <1>2 DEF RealStart, KeepsTimes, Lock
<1>3. CASE ~(l.on_hold \/ l.pid # "none") /\ ~ok
  BY <1>3 DEF RealStart, KeepsTimes, Lock
<1> QED
  BY <1>1, <1>2, <1>3

\* A daemon that is stopped is still there.
LEMMA StopFields ==
    ASSUME NEW l \in Lock
    PROVE  LET k == Stop(l) IN
           /\ k \in Lock /\ KeepsTimes(l, k)
           /\ k.have = l.have /\ k.enabled = l.enabled /\ k.on_hold = l.on_hold
           /\ k.call = l.call /\ k.by = l.by
           /\ k.pid = IF l.pid = "runs" THEN "stops" ELSE l.pid
BY DEF Stop, KeepsTimes, Lock

\* LockLost gives the lock up and stops the daemon.
LEMMA LockLostFields ==
    ASSUME NEW l \in Lock
    PROVE  LET k == LockLost(l) IN
           /\ k \in Lock /\ KeepsTimes(l, k)
           /\ k.have = FALSE /\ k.enabled = l.enabled /\ k.on_hold = l.on_hold
           /\ k.call = l.call /\ k.by = l.by
           /\ k.pid = IF l.pid = "runs" THEN "stops" ELSE l.pid
<1> DEFINE f == [l EXCEPT !.have = FALSE]
<1>1. /\ f \in Lock /\ KeepsTimes(l, f)
      /\ f.have = FALSE /\ f.enabled = l.enabled /\ f.on_hold = l.on_hold
      /\ f.call = l.call /\ f.by = l.by /\ f.pid = l.pid
  BY DEF KeepsTimes, Lock
<1>2. LockLost(l) = Stop(f)
  BY DEF LockLost
<1> HIDE DEF f
<1> QED
  BY SMTT(30), <1>1, <1>2, StopFields DEF KeepsTimes

\* Start asks for the lock unless it has nothing to do.
LEMMA StartSound ==
    ASSUME NEW l \in Lock, l.up, l.call = "none", Quiet(l)
    PROVE  LET k == Start(l) IN
           /\ k \in Lock /\ KeepsTimes(l, k) /\ Sound(k)
           /\ k.have = l.have /\ k.on_hold = l.on_hold /\ k.pid = l.pid
           /\ k.call \in {"none", "stat"} /\ k.by \in {l.by, "app"}
           /\ l.on_hold \/ k.pid # "none" \/ k.enabled
<1> DEFINE s == [l EXCEPT !.start = FALSE]
<1>1. s \in Lock /\ s.start = FALSE
  BY DEF Lock
<1>2. /\ KeepsTimes(l, s) /\ s.have = l.have /\ s.on_hold = l.on_hold
      /\ s.pid = l.pid /\ s.enabled = l.enabled /\ s.call = "none" /\ s.by = l.by
  BY DEF Lock, KeepsTimes
<1>3. Quiet(s)
  BY <1>2 DEF Quiet, KeepsTimes
<1> HIDE DEF s
<1>4. CASE l.on_hold \/ l.pid # "none"
  <2>1. Start(l) = s
    BY <1>4 DEF Start, s
  <2> QED
    BY <1>1, <1>2, <1>3, <1>4, <2>1 DEF Sound, Acquiring, Renewing
<1>5. CASE ~(l.on_hold \/ l.pid # "none") /\ s.have
  <2> DEFINE k == [s EXCEPT !.enabled = TRUE]
  <2>1. Start(l) = k
    BY <1>5 DEF Start, AcquireLock, s
  <2>2. /\ k \in Lock /\ KeepsTimes(s, k) /\ k.have = s.have
        /\ k.on_hold = s.on_hold /\ k.pid = s.pid /\ k.enabled = TRUE
        /\ k.call = s.call /\ k.by = s.by
    BY <1>1 DEF Lock, KeepsTimes
  <2> HIDE DEF k
  <2>3. Sound(k)
    BY <1>2, <1>3, <2>2 DEF Sound, Quiet, KeepsTimes, Acquiring, Renewing
  <2> QED
    BY <1>2, <2>1, <2>2, <2>3 DEF KeepsTimes
<1>6. CASE ~(l.on_hold \/ l.pid # "none") /\ ~s.have
  <2> DEFINE k == [s EXCEPT !.enabled = TRUE, !.call = "stat", !.by = "app"]
  <2>1. Start(l) = k
    BY <1>6 DEF Start, AcquireLock, s
  <2>2. /\ k \in Lock /\ KeepsTimes(s, k) /\ k.have = s.have
        /\ k.on_hold = s.on_hold /\ k.pid = s.pid /\ k.enabled = TRUE
        /\ k.call = "stat" /\ k.by = "app"
    BY <1>1 DEF Lock, KeepsTimes, Calls, Callers
  <2> HIDE DEF k
  <2>3. Sound(k)
    BY <1>2, <1>3, <1>6, <2>2 DEF Sound, Quiet, KeepsTimes, Acquiring, Renewing
  <2> QED
    BY <1>2, <2>1, <2>2, <2>3 DEF KeepsTimes
<1> QED
  BY <1>4, <1>5, <1>6

\* A master that is down has and wants nothing.
LEMMA DownFields ==
    ASSUME NEW l \in Lock
    PROVE  LET k == Down(l) IN
           /\ k \in Lock /\ Sound(k) /\ \A L : Fits(k, L)
           /\ k.up = FALSE /\ k.have = FALSE /\ k.call = "none" /\ k.by = "app"
           /\ k.url = l.url /\ k.hold = l.hold
<1>1. /\ 0 \in Nat /\ 0 \in Int /\ "none" \in Calls /\ "app" \in Callers
      /\ Never \in Int
  BY SMTT(30) DEF Calls, Callers, Never
<1>2. Down(l) \in Lock
  BY <1>1 DEF Lock, Down
<1>3. LET k == Down(l) IN
      /\ k.up = FALSE /\ k.have = FALSE /\ k.enabled = FALSE /\ k.call = "none"
      /\ k.by = "app" /\ k.pid = "none" /\ k.url = l.url /\ k.hold = l.hold
  BY DEF Lock, Down
<1>4. Sound(Down(l))
  BY <1>3 DEF Sound, Quiet, Acquiring, Renewing
<1>5. ASSUME NEW L
      PROVE  Fits(Down(l), L)
  BY <1>3 DEF Fits
<1> QED
  BY <1>2, <1>3, <1>4, <1>5

\* A master that has just started asks for the lock.
LEMMA StartedFields ==
    ASSUME NEW u \in Urls, NEW p \in Nat, NEW h \in Holds
    PROVE  /\ Started(u, p, h) \in Lock
           /\ Sound(Started(u, p, h))
           /\ \A L : Fits(Started(u, p, h), L)
<1> DEFINE l == [up |-> TRUE, have |-> FALSE, enabled |-> FALSE, hold |-> h,
                 url |-> u, last |-> Never, in |-> p, every |-> p,
                 call |-> "none", by |-> "app", expire |-> 0, rearm |-> 0,
                 pid |-> "none", on_hold |-> FALSE, start |-> FALSE]
<1>1. /\ 0 \in Nat /\ 0 \in Int /\ "none" \in Calls /\ "app" \in Callers
      /\ p \in Int
  BY SMTT(30) DEF Calls, Callers
<1>2. l \in Lock
  BY <1>1 DEF Lock
<1>3. /\ l.up = TRUE /\ l.have = FALSE /\ l.hold = h /\ l.url = u /\ l.in = p
      /\ l.every = p /\ l.call = "none" /\ l.by = "app" /\ l.rearm = 0
      /\ l.pid = "none" /\ l.on_hold = FALSE
  OBVIOUS
<1>4. Started(u, p, h) = Start(l)
  BY DEF Started
<1> HIDE DEF l
<1>5. Quiet(l)
  BY <1>3 DEF Quiet
<1> DEFINE k == Started(u, p, h)
<1>6. /\ k \in Lock /\ KeepsTimes(l, k) /\ Sound(k)
      /\ k.have = l.have /\ k.pid = l.pid
      /\ k.call \in {"none", "stat"} /\ k.by \in {l.by, "app"}
      /\ l.on_hold \/ k.pid # "none" \/ k.enabled
  BY SMTT(30), <1>2, <1>3, <1>4, <1>5, StartSound
<1> HIDE DEF k
<1>7. k.enabled /\ k.have = FALSE /\ k.pid = "none"
  BY <1>3, <1>6
<1>8. ASSUME NEW L
      PROVE  Fits(k, L)
  BY <1>7 DEF Fits
<1> QED
  BY <1>6, <1>8 DEF k

----------------------------------------------------------------------------
(* The invariant of the masters, one by one.                               *)

MastersInv ==
    /\ Shape
    /\ \A n \in Node : Sound(m[n]) /\ Fits(m[n], lapses)

\* A step of one master keeps the invariant when it does so for that master.
LEMMA OneMaster ==
    ASSUME MastersInv, NEW n \in Node, NEW k \in Lock, m' = [m EXCEPT ![n] = k],
           file' \in [Urls -> LockFile], lapses' \subseteq Lapses,
           lapses \subseteq lapses', Sound(k), Fits(k, lapses')
    PROVE  MastersInv'
<1>1. m' \in [Node -> Lock]
  BY DEF MastersInv, Shape
<1>2. ASSUME NEW i \in Node
      PROVE  Sound(m'[i]) /\ Fits(m'[i], lapses')
  <2>1. CASE i = n
    BY <2>1 DEF MastersInv, Shape
  <2>2. CASE i # n
    <3>1. m'[i] = m[i]
      BY <2>2 DEF MastersInv, Shape
    <3>2. Sound(m[i]) /\ Fits(m[i], lapses')
      BY FitsGrows DEF MastersInv
    <3> QED
      BY <3>1, <3>2
  <2> QED
    BY <2>1, <2>2
<1> QED
  BY <1>1, <1>2 DEF MastersInv, Shape

\* What a call does to the lock file leaves a lock file, or none.
LEMMA FilesTyped ==
    ASSUME Shape, NEW u \in Urls, NEW n \in Node, NEW e \in Nat
    PROVE  /\ Unlinked(u) \in [Urls -> LockFile]
           /\ [file EXCEPT ![u] = [there |-> TRUE, left |-> e]]
                  \in [Urls -> LockFile]
           /\ [file EXCEPT ![u].left = e] \in [Urls -> LockFile]
           /\ m[n] \in Lock /\ m[n].url \in Urls /\ m[n].hold + Skew[n] \in Nat
<1>1. m[n] \in Lock
  BY DEF Shape
<1>2. m[n].url \in Urls /\ m[n].hold \in Holds
  BY <1>1 DEF Lock
<1>3. m[n].hold \in Nat /\ Skew[n] \in Nat
  <2>1. /\ Holds \subseteq Nat /\ MaxSkew \in Nat
        /\ Skew \in [Node -> 0 .. MaxSkew]
    BY HALockAssumption
  <2>2. Skew[n] \in 0 .. MaxSkew
    BY <2>1
  <2>3. Skew[n] \in Nat
    BY SMTT(30), <2>2
  <2>4. m[n].hold \in Nat
    BY <1>2, <2>1
  <2> QED
    BY <2>3, <2>4
<1>4. NoFile \in LockFile /\ [there |-> TRUE, left |-> e] \in LockFile
  BY DEF NoFile, LockFile
<1>5. file[u] \in LockFile
  BY DEF Shape
<1>6. [file[u] EXCEPT !.left = e] \in LockFile
  BY <1>5 DEF LockFile
<1> QED
  BY SMTT(30), <1>1, <1>2, <1>3, <1>4, <1>6 DEF Shape, Unlinked

\* GetLock goes on to create or to unlink, or returns.
LEMMA StatKeeps ==
    ASSUME MastersInv, NEW n \in Node, Stat(n)
    PROVE  MastersInv'
<1> DEFINE l == m[n]
<1>1. l \in Lock /\ Sound(l) /\ Fits(l, lapses)
  BY DEF MastersInv, Shape
<1>2. l.up /\ Quiet(l) /\ l.call = "stat"
  BY <1>1 DEF Stat, Sound
<1>3. /\ Return(l) \in Lock /\ Sound(Return(l)) /\ Fits(Return(l), lapses)
  BY <1>1, <1>2, ReturnSound, FitsKept
<1>4. ASSUME NEW c \in {"creat", "unlink"}
      PROVE  LET k == [l EXCEPT !.call = c] IN
             k \in Lock /\ Sound(k) /\ Fits(k, lapses)
  <2> DEFINE k == [l EXCEPT !.call = c]
  <2>1. k \in Lock
    BY <1>1 DEF Lock, Calls
  <2>2. Keeps(l, k) /\ k.call = c /\ k.by = l.by /\ k.rearm = l.rearm
    BY <1>1 DEF Lock, Keeps
  <2> HIDE DEF k
  <2>3. Sound(k)
    BY <1>1, <1>2, <2>2 DEF Sound, Quiet, Keeps, Acquiring, Renewing
  <2> QED
    BY <1>1, <2>1, <2>2, <2>3, FitsKept DEF k
<1>5. PICK k \in {[l EXCEPT !.call = "creat"], [l EXCEPT !.call = "unlink"],
                  Return(l)} : m' = [m EXCEPT ![n] = k]
  BY DEF Stat
<1>6. k \in Lock /\ Sound(k) /\ Fits(k, lapses)
  BY <1>3, <1>4, <1>5
<1>7. /\ file' = file /\ lapses' = lapses
      /\ file \in [Urls -> LockFile] /\ lapses \subseteq Lapses
  BY DEF Stat, MastersInv, Shape
<1> HIDE DEF l
<1> QED
  BY <1>5, <1>6, <1>7, OneMaster

\* A call is followed by another one of the same kind.
LEMMA NextCallSound ==
    ASSUME NEW l \in Lock, NEW k \in Lock, NEW L, Sound(l), Fits(l, L), Keeps(l, k),
           k.by = l.by, k.rearm = l.rearm,
           \/ l.call \in Acquiring /\ k.call \in Acquiring
           \/ l.call \in Renewing /\ k.call \in Renewing
    PROVE  Sound(k) /\ Fits(k, L)
<1>1. Sound(k)
  BY DEF Sound, Quiet, Keeps, Acquiring, Renewing
<1> QED
  BY <1>1, FitsKept

\* After unlink the lock is still being asked for.
LEMMA UnlinkKeeps ==
    ASSUME MastersInv, NEW n \in Node, Unlink(n)
    PROVE  MastersInv'
<1> DEFINE l == m[n]
           k == [l EXCEPT !.call = "creat"]
<1>1. l \in Lock /\ Sound(l) /\ Fits(l, lapses) /\ Shape
  BY DEF MastersInv, Shape
<1>2. k \in Lock
  BY <1>1 DEF Lock, Calls
<1>3. Keeps(l, k) /\ k.by = l.by /\ k.rearm = l.rearm /\ k.call = "creat"
  BY <1>1 DEF Lock, Keeps
<1>4. m' = [m EXCEPT ![n] = k] /\ l.call = "unlink"
  BY DEF Unlink
<1>5. /\ file' \in [Urls -> LockFile] /\ lapses \subseteq lapses'
      /\ lapses' \subseteq Lapses
  <2>0. 0 \in Nat /\ m[n].url \in Urls
    BY <1>1 DEF Lock
  <2>1. Unlinked(m[n].url) \in [Urls -> LockFile]
    BY <1>1, <2>0, FilesTyped
  <2>2. file' = file \/ file' = Unlinked(m[n].url)
    BY DEF Unlink
  <2>3. lapses' \in {lapses, lapses \union {}, lapses \union {"stale"},
                     lapses \union {"outlived"}}
    BY DEF Unlink
  <2> QED
    BY <1>1, <2>1, <2>2, <2>3 DEF Shape, Lapses
<1>6. Fits(l, lapses')
  BY <1>1, <1>5, FitsGrows
<1> HIDE DEF k, l
<1>7. Sound(k) /\ Fits(k, lapses')
  BY <1>1, <1>2, <1>3, <1>4, <1>6, NextCallSound DEF Acquiring
<1> QED
  BY <1>2, <1>4, <1>5, <1>7, OneMaster

\* And after the temporary file is made.
LEMMA CreatKeeps ==
    ASSUME MastersInv, NEW n \in Node, Creat(n)
    PROVE  MastersInv'
<1> DEFINE l == m[n]
           e == l.hold + Skew[n]
           k == [l EXCEPT !.call = "link", !.expire = e]
<1>1. l \in Lock /\ Sound(l) /\ Fits(l, lapses) /\ Shape
  BY DEF MastersInv, Shape
<1>e. e \in Nat
  BY <1>1, FilesTyped DEF Lock
<1>4. /\ m' = [m EXCEPT ![n] = k] /\ l.call = "creat"
      /\ file' = file /\ lapses' = lapses
  BY <1>1 DEF Creat, Shape
<1> HIDE DEF e
<1>2. k \in Lock
  BY <1>1, <1>e DEF Lock, Calls
<1>3. Keeps(l, k) /\ k.by = l.by /\ k.rearm = l.rearm /\ k.call = "link"
  BY <1>1 DEF Lock, Keeps
<1> HIDE DEF k, l
<1>7. Sound(k) /\ Fits(k, lapses')
  BY <1>1, <1>2, <1>3, <1>4, NextCallSound DEF Acquiring
<1> QED
  BY <1>1, <1>2, <1>4, <1>7, OneMaster DEF Shape

\* The one who wins the link has the lock, and the daemon or a lapse.
LEMMA LinkKeeps ==
    ASSUME MastersInv, NEW n \in Node, Link(n)
    PROVE  MastersInv'
<1> DEFINE l == m[n]
<1>1. l \in Lock /\ Sound(l) /\ Fits(l, lapses) /\ Shape
  BY DEF MastersInv, Shape
<1>2. l.up /\ Quiet(l) /\ l.call = "link" /\ ~l.have /\ l.enabled
  BY <1>1 DEF Link, Sound, Acquiring
<1>3. CASE file[l.url].there
  <2>1. Return(l) \in Lock /\ Sound(Return(l)) /\ Fits(Return(l), lapses)
    BY <1>1, <1>2, ReturnSound, FitsKept
  <2>2. m' = [m EXCEPT ![n] = Return(l)] /\ file' = file /\ lapses' = lapses
    BY <1>3 DEF Link
  <2> HIDE DEF l
  <2> QED
    BY <1>1, <2>1, <2>2, OneMaster DEF Shape
<1>4. CASE ~file[l.url].there
  <2> DEFINE h == [l EXCEPT !.have = TRUE]
  <2>1. PICK ok \in BOOLEAN :
           /\ file' = [file EXCEPT ![l.url] = [there |-> TRUE, left |-> l.expire]]
           /\ m' = [m EXCEPT ![n] = Return(RealStart(h, ok))]
           /\ lapses' = IF RealStart(h, ok).pid = "none"
                        THEN lapses \union {"idle"} ELSE lapses
    BY <1>4 DEF Link
  <2>2. h \in Lock /\ h.have = TRUE
    BY <1>1 DEF Lock
  <2>3. /\ h.enabled = l.enabled /\ h.up = l.up /\ h.by = l.by
        /\ h.rearm = l.rearm /\ h.pid = l.pid /\ h.start = l.start
        /\ h.on_hold = l.on_hold
    BY <1>1 DEF Lock
  <2> DEFINE w == RealStart(h, ok)
  <2> HIDE DEF h
  <2>4. /\ w \in Lock /\ KeepsTimes(h, w)
        /\ w.have = h.have /\ w.enabled = h.enabled /\ w.on_hold = h.on_hold
        /\ w.by = h.by
        /\ w.pid = h.pid \/ w.pid = "runs"
        /\ w.start = h.start \/ w.start = TRUE
    BY <2>2, RealStartFields
  <2>5. /\ m' = [m EXCEPT ![n] = Return(w)]
        /\ lapses' = IF w.pid = "none" THEN lapses \union {"idle"} ELSE lapses
    BY <2>1
  <2> HIDE DEF w
  <2>6. w.up /\ Quiet(w)
    BY <1>2, <2>2, <2>3, <2>4 DEF Quiet, KeepsTimes
  <2>7. Fits(w, lapses')
    BY <1>1, <1>2, <2>2, <2>3, <2>4, <2>5 DEF Fits, KeepsTimes
  <2>8. Return(w) \in Lock /\ Sound(Return(w)) /\ Fits(Return(w), lapses')
    BY <2>4, <2>6, <2>7, ReturnSound, FitsKept
  <2>9. file' \in [Urls -> LockFile]
    <3>1. l.expire \in Nat /\ l.url \in Urls
      BY <1>1 DEF Lock
    <3> QED
      BY <1>1, <2>1, <3>1, FilesTyped
  <2>10. lapses \subseteq lapses' /\ lapses' \subseteq Lapses
    BY <1>1, <2>5 DEF Shape, Lapses
  <2> QED
    BY <2>5, <2>8, <2>9, <2>10, OneMaster
<1> QED
  BY <1>3, <1>4

\* AcquireLock gives up with a lapse; a poll just returns.
LEMMA FailsKeeps ==
    ASSUME MastersInv, NEW n \in Node, Fails(n)
    PROVE  MastersInv'
<1> DEFINE l == m[n]
           w == IF l.by = "app" THEN [l EXCEPT !.enabled = FALSE] ELSE l
<1>1. l \in Lock /\ Sound(l) /\ Fits(l, lapses) /\ Shape
  BY DEF MastersInv, Shape
<1>2. l.up /\ Quiet(l) /\ ~l.have
  BY <1>1 DEF Fails, Sound, Acquiring
<1>3. /\ m' = [m EXCEPT ![n] = Return(w)] /\ file' = file
      /\ lapses' = IF l.by = "app" THEN lapses \union {"disabled"} ELSE lapses
  BY DEF Fails
<1>4. w \in Lock
  BY <1>1 DEF Lock
<1>5. /\ w.have = l.have /\ w.up = l.up /\ w.by = l.by /\ w.pid = l.pid
      /\ w.rearm = l.rearm /\ w.on_hold = l.on_hold /\ w.start = l.start
      /\ l.by # "app" => w.enabled = l.enabled
  BY <1>1 DEF Lock
<1> HIDE DEF w, l
<1>6. Quiet(w) /\ w.up
  BY <1>2, <1>5 DEF Quiet
<1>7. Fits(w, lapses')
  BY <1>1, <1>3, <1>5 DEF Fits
<1>8. Return(w) \in Lock /\ Sound(Return(w)) /\ Fits(Return(w), lapses')
  BY <1>4, <1>6, <1>7, ReturnSound, FitsKept
<1>9. lapses \subseteq lapses' /\ lapses' \subseteq Lapses
  BY <1>1, <1>3 DEF Shape, Lapses
<1> QED
  BY <1>1, <1>3, <1>8, <1>9, OneMaster DEF Shape

\* The lock is lost: the daemon is stopped, and if there is one nobody waits for
\* its end.
LEMMA LossKeeps ==
    ASSUME MastersInv, NEW n \in Node, m[n].call \in Renewing,
           m' = [m EXCEPT ![n] = Return(LockLost(m[n]))],
           lapses' = lapses \union Abandons(m[n]), file' = file
    PROVE  MastersInv'
<1> DEFINE l == m[n]
           w == LockLost(l)
<1>1. l \in Lock /\ Sound(l) /\ Fits(l, lapses) /\ Shape
  BY DEF MastersInv, Shape
<1>2. l.up /\ Quiet(l) /\ l.have /\ l.enabled
  BY <1>1 DEF Sound, Quiet, Acquiring, Renewing
<1>3. /\ w \in Lock /\ KeepsTimes(l, w)
      /\ w.have = FALSE /\ w.enabled = l.enabled /\ w.on_hold = l.on_hold
      /\ w.by = l.by /\ w.pid = IF l.pid = "runs" THEN "stops" ELSE l.pid
  BY <1>1, LockLostFields
<1>4. m' = [m EXCEPT ![n] = Return(w)]
  OBVIOUS
<1>5. lapses' = lapses \union (IF l.pid = "none" THEN {} ELSE {"stopping"})
  BY DEF Abandons
<1> HIDE DEF w, l
<1>6. Quiet(w) /\ w.up
  BY <1>2, <1>3 DEF Quiet, KeepsTimes
<1>7. Fits(w, lapses')
  BY <1>2, <1>3, <1>5 DEF Fits
<1>8. Return(w) \in Lock /\ Sound(Return(w)) /\ Fits(Return(w), lapses')
  BY <1>3, <1>6, <1>7, ReturnSound, FitsKept
<1>9. lapses \subseteq lapses' /\ lapses' \subseteq Lapses
  BY <1>1, <1>5 DEF Shape, Lapses
<1> QED
  BY <1>1, <1>4, <1>8, <1>9, OneMaster DEF Shape

\* A renewal goes on, or the lock is lost.
LEMMA UtimeKeeps ==
    ASSUME MastersInv, NEW n \in Node, Utime(n)
    PROVE  MastersInv'
<1> DEFINE l == m[n]
           e == l.hold + Skew[n]
           k == [l EXCEPT !.call = "verify", !.expire = e]
<1>1. l \in Lock /\ Sound(l) /\ Fits(l, lapses) /\ Shape
  BY DEF MastersInv, Shape
<1>2. e \in Nat /\ l.url \in Urls /\ l.call = "utime"
  BY <1>1, FilesTyped DEF Lock, Utime
<1>3. CASE /\ m' = [m EXCEPT ![n] = Return(LockLost(@))] /\ file' = file
           /\ lapses' = lapses \union Abandons(m[n])
  BY <1>2, <1>3, LossKeeps DEF Renewing
<1>4. CASE /\ file' = [file EXCEPT ![m[n].url].left = e]
           /\ m' = [m EXCEPT ![n].call = "verify", ![n].expire = e]
           /\ lapses' = lapses
  <2>1. m' = [m EXCEPT ![n] = k]
    BY <1>1, <1>4 DEF Shape
  <2>2. file' \in [Urls -> LockFile]
    BY <1>1, <1>2, <1>4, FilesTyped
  <2> HIDE DEF e
  <2>3. k \in Lock
    BY <1>1, <1>2 DEF Lock, Calls
  <2>4. Keeps(l, k) /\ k.by = l.by /\ k.rearm = l.rearm /\ k.call = "verify"
    BY <1>1 DEF Lock, Keeps
  <2> HIDE DEF k, l
  <2>5. Sound(k) /\ Fits(k, lapses')
    BY <1>1, <1>2, <1>4, <2>3, <2>4, NextCallSound DEF Renewing
  <2> QED
    BY <1>1, <1>4, <2>1, <2>2, <2>3, <2>5, OneMaster DEF Shape
<1> QED
  BY <1>3, <1>4 DEF Utime

\* A renewal ends, or the lock is lost.
LEMMA VerifyKeeps ==
    ASSUME MastersInv, NEW n \in Node, Verify(n)
    PROVE  MastersInv'
<1> DEFINE l == m[n]
<1>1. l \in Lock /\ Sound(l) /\ Fits(l, lapses) /\ Shape
  BY DEF MastersInv, Shape
<1>2. l.up /\ Quiet(l) /\ l.call = "verify" /\ file' = file
  BY <1>1 DEF Sound, Verify
<1>3. CASE /\ m' = [m EXCEPT ![n] = Return(LockLost(@))]
           /\ lapses' = lapses \union Abandons(m[n])
  BY <1>2, <1>3, LossKeeps DEF Renewing
<1>4. CASE m' = [m EXCEPT ![n] = Return(@)] /\ lapses' = lapses
  <2>1. Return(l) \in Lock /\ Sound(Return(l)) /\ Fits(Return(l), lapses)
    BY <1>1, <1>2, ReturnSound, FitsKept
  <2>2. m' = [m EXCEPT ![n] = Return(l)]
    BY <1>4
  <2> HIDE DEF l
  <2> QED
    BY <1>1, <1>2, <1>4, <2>1, <2>2, OneMaster DEF Shape
<1> QED
  BY <1>3, <1>4 DEF Verify

\* A poll begins the call that fits.
LEMMA PollKeeps ==
    ASSUME MastersInv, NEW n \in Node, Poll(n)
    PROVE  MastersInv'
<1> DEFINE l == m[n]
           k == DoPoll(l, l.every)
<1>1. l \in Lock /\ Sound(l) /\ Fits(l, lapses) /\ Shape
  BY DEF MastersInv, Shape
<1>2. l.up /\ l.call = "none" /\ l.every \in Int
  BY SMTT(30), <1>1 DEF Poll, Idle, Lock
<1>3. k \in Lock /\ Sound(k) /\ Fits(k, lapses)
  BY SMTT(30), <1>1, <1>2, DoPollSound, FitsKept
<1>4. m' = [m EXCEPT ![n] = k] /\ file' = file /\ lapses' = lapses
  BY DEF Poll
<1> HIDE DEF l, k
<1> QED
  BY <1>1, <1>3, <1>4, OneMaster DEF Shape

\* Start, of a master that is idle; w has what the command has changed before.
LEMMA StartKeeps ==
    ASSUME MastersInv, NEW n \in Node, Idle(n), NEW w \in Lock, Quiet(w), w.up,
           w.call = "none", w.have = m[n].have, w.pid = m[n].pid,
           m' = [m EXCEPT ![n] = Start(w)], UNCHANGED <<file, lapses>>
    PROVE  MastersInv'
<1> DEFINE l == m[n]
           k == Start(w)
<1>1. l \in Lock /\ Fits(l, lapses) /\ Shape
  BY DEF MastersInv, Shape
<1>2. /\ k \in Lock /\ Sound(k) /\ KeepsTimes(w, k)
      /\ k.have = w.have /\ k.on_hold = w.on_hold /\ k.pid = w.pid
      /\ w.on_hold \/ k.pid # "none" \/ k.enabled
  BY StartSound
<1>3. m' = [m EXCEPT ![n] = k] /\ w.have = l.have /\ w.pid = l.pid
  OBVIOUS
<1> HIDE DEF l, k
<1>4. Fits(k, lapses)
  BY <1>1, <1>2, <1>3 DEF Fits
<1> QED
  BY <1>1, <1>2, <1>3, <1>4, OneMaster DEF Shape

\* The delayed start.
LEMMA DoStartKeeps ==
    ASSUME MastersInv, NEW n \in Node, DoStart(n)
    PROVE  MastersInv'
<1>1. m[n] \in Lock /\ Sound(m[n])
  BY DEF MastersInv, Shape
<1>2. m[n].up /\ m[n].call = "none" /\ Quiet(m[n]) /\ Idle(n)
  BY <1>1 DEF DoStart, Idle, Sound
<1>3. m' = [m EXCEPT ![n] = Start(m[n])] /\ UNCHANGED <<file, lapses>>
  BY DEF DoStart
<1> QED
  BY <1>1, <1>2, <1>3, StartKeeps

\* condor_on of the daemon.
LEMMA DaemonOnKeeps ==
    ASSUME MastersInv, NEW n \in Node, DaemonOn(n)
    PROVE  MastersInv'
<1> DEFINE l == m[n]
           w == [l EXCEPT !.on_hold = FALSE]
<1>1. l \in Lock /\ Sound(l)
  BY DEF MastersInv, Shape
<1>2. l.up /\ l.call = "none" /\ Quiet(l) /\ Idle(n)
  BY <1>1 DEF DaemonOn, Idle, Sound
<1>3. m' = [m EXCEPT ![n] = Start(w)] /\ UNCHANGED <<file, lapses>>
  BY DEF DaemonOn
<1>4. w \in Lock
  BY <1>1 DEF Lock
<1>5. /\ w.up = l.up /\ w.call = l.call /\ w.have = l.have /\ w.pid = l.pid
      /\ w.enabled = l.enabled /\ w.by = l.by /\ w.rearm = l.rearm
  BY <1>1 DEF Lock
<1> HIDE DEF w
<1>6. Quiet(w)
  BY <1>2, <1>5 DEF Quiet
<1> QED
  BY <1>2, <1>3, <1>4, <1>5, <1>6, StartKeeps

\* condor_off of the daemon, which keeps the lock until the daemon has ended.
LEMMA DaemonOffKeeps ==
    ASSUME MastersInv, NEW n \in Node, DaemonOff(n)
    PROVE  MastersInv'
<1> DEFINE l == m[n]
           w == [l EXCEPT !.on_hold = TRUE]
           k == Stop(w)
<1>1. l \in Lock /\ Sound(l) /\ Fits(l, lapses) /\ Shape
  BY DEF MastersInv, Shape
<1>2. m' = [m EXCEPT ![n] = k] /\ file' = file /\ lapses' = lapses
  BY DEF DaemonOff
<1>3. w \in Lock /\ w.on_hold = TRUE
  BY <1>1 DEF Lock
<1>4. /\ w.up = l.up /\ w.call = l.call /\ w.have = l.have /\ w.pid = l.pid
      /\ w.enabled = l.enabled /\ w.by = l.by /\ w.rearm = l.rearm
  BY <1>1 DEF Lock
<1> HIDE DEF w
<1>5. /\ k \in Lock /\ KeepsTimes(w, k)
      /\ k.have = w.have /\ k.enabled = w.enabled /\ k.on_hold = w.on_hold
      /\ k.call = w.call /\ k.by = w.by
      /\ k.pid = IF w.pid = "runs" THEN "stops" ELSE w.pid
  BY <1>3, StopFields
<1> HIDE DEF l, k
<1>6. Sound(k)
  BY <1>1, <1>4, <1>5 DEF Sound, Quiet, KeepsTimes
<1>7. Fits(k, lapses)
  BY <1>1, <1>3, <1>4, <1>5 DEF Fits
<1> QED
  BY <1>1, <1>2, <1>5, <1>6, <1>7, OneMaster DEF Shape

\* The daemon has ended: the lock is given back, and the daemon is on hold or about
\* to be started.
LEMMA ExitsKeeps ==
    ASSUME MastersInv, NEW n \in Node, Exits(n)
    PROVE  MastersInv'
<1> DEFINE l == m[n]
<1>1. l \in Lock /\ Sound(l) /\ Fits(l, lapses) /\ Shape
  BY DEF MastersInv, Shape
<1>2. PICK held \in BOOLEAN :
        m' = [m EXCEPT ![n] = [l EXCEPT !.enabled = FALSE, !.have = FALSE,
                                        !.pid = "none", !.on_hold = held,
                                        !.start = ~held]]
  BY <1>1 DEF Exits, Lock
<1> DEFINE k == [l EXCEPT !.enabled = FALSE, !.have = FALSE, !.pid = "none",
                          !.on_hold = held, !.start = ~held]
<1>3. k \in Lock
  BY <1>1 DEF Lock
<1>4. /\ k.enabled = FALSE /\ k.have = FALSE /\ k.pid = "none"
      /\ k.on_hold = held /\ k.start = ~held
      /\ k.call = l.call /\ k.by = l.by /\ k.rearm = l.rearm /\ k.up = l.up
  BY <1>1 DEF Lock
<1>5. /\ file' \in [Urls -> LockFile] /\ lapses' = lapses /\ l.call = "none"
  <2>1. 0 \in Nat /\ m[n].url \in Urls
    BY <1>1 DEF Lock
  <2>2. Unlinked(m[n].url) \in [Urls -> LockFile]
    BY <1>1, <2>1, FilesTyped
  <2> QED
    BY <1>1, <2>2 DEF Exits, Idle, Shape
<1>6. m' = [m EXCEPT ![n] = k]
  BY <1>2
<1> HIDE DEF l, k
<1>7. Sound(k)
  BY <1>1, <1>4, <1>5 DEF Sound, Quiet, Acquiring, Renewing
<1>8. Fits(k, lapses')
  BY <1>4 DEF Fits
<1> QED
  BY <1>1, <1>3, <1>5, <1>6, <1>7, <1>8, OneMaster DEF Shape

\* SetPeriods touches neither the lock nor the daemon.
LEMMA ReconfigKeeps ==
    ASSUME MastersInv, NEW n \in Node, Reconfig(n)
    PROVE  MastersInv'
<1> DEFINE l == m[n]
<1>1. l \in Lock /\ Sound(l) /\ Fits(l, lapses) /\ Shape
  BY DEF MastersInv, Shape
<1>2. l.up /\ l.call = "none" /\ Quiet(l) /\ file' = file
  BY <1>1 DEF Reconfig, Idle, Sound
<1>3. PICK p \in Periods, h \in Holds :
        /\ m' = [m EXCEPT ![n] =
                    IF l.have /\ h # l.hold
                    THEN [l EXCEPT !.hold = h, !.call = "utime",
                                   !.by = "periods", !.rearm = p]
                    ELSE SetupTimer([l EXCEPT !.hold = h], p)]
        /\ lapses' = lapses \union
             (IF p > 0 /\ l.last = Never /\ l.have THEN {"postponed"}
              ELSE IF p > 0 /\ l.last > p THEN {"wrapped"} ELSE {})
  BY DEF Reconfig
<1>4. p \in Nat /\ p \in Int
  BY SMTT(30), HALockAssumption
<1>5. lapses \subseteq lapses' /\ lapses' \subseteq Lapses
  <2>1. lapses' \in {lapses, lapses \union {"postponed"}, lapses \union {"wrapped"}}
    BY <1>3
  <2> QED
    BY <1>1, <2>1 DEF Shape, Lapses
<1>6. Fits(l, lapses')
  BY <1>1, <1>5, FitsGrows
<1>7. CASE l.have /\ h # l.hold
  <2> DEFINE k == [l EXCEPT !.hold = h, !.call = "utime", !.by = "periods",
                            !.rearm = p]
  <2>1. k \in Lock
    BY <1>1, <1>4 DEF Lock, Calls, Callers
  <2>2. /\ k.have = l.have /\ k.enabled = l.enabled /\ k.up = l.up
        /\ k.pid = l.pid /\ k.on_hold = l.on_hold /\ k.start = l.start
        /\ k.call = "utime" /\ k.rearm = p
    BY <1>1 DEF Lock
  <2>3. m' = [m EXCEPT ![n] = k]
    BY <1>3, <1>7
  <2> HIDE DEF l, k
  <2>4. Sound(k)
    BY <1>2, <1>4, <1>7, <2>2 DEF Sound, Quiet, Acquiring, Renewing
  <2>5. Fits(k, lapses')
    BY <1>6, <2>2 DEF Fits
  <2> QED
    BY <1>1, <1>2, <1>5, <2>1, <2>3, <2>4, <2>5, OneMaster DEF Shape
<1>8. CASE ~(l.have /\ h # l.hold)
  <2> DEFINE w == [l EXCEPT !.hold = h]
             k == SetupTimer(w, p)
  <2>1. w \in Lock
    BY <1>1 DEF Lock
  <2>2. /\ w.have = l.have /\ w.enabled = l.enabled /\ w.up = l.up
        /\ w.pid = l.pid /\ w.on_hold = l.on_hold /\ w.start = l.start
        /\ w.call = l.call /\ w.by = l.by /\ w.rearm = l.rearm
    BY <1>1 DEF Lock
  <2>3. m' = [m EXCEPT ![n] = k]
    BY <1>3, <1>8
  <2> HIDE DEF l, w
  <2>4. Sound(w) /\ Fits(w, lapses')
    BY <1>1, <1>2, <1>6, <2>2 DEF Sound, Quiet, Fits
  <2>5. k \in Lock /\ Sound(k) /\ Fits(k, lapses')
    BY <1>2, <1>4, <2>1, <2>2, <2>4, SetupTimerSound, FitsKept
  <2> HIDE DEF k
  <2> QED
    BY <1>1, <1>2, <1>5, <2>3, <2>5, OneMaster DEF Shape
<1> QED
  BY <1>7, <1>8

\* A lock with another URL is nobody's, and not asked for until the daemon has ended.
LEMMA MoveKeeps ==
    ASSUME MastersInv, NEW n \in Node, Move(n)
    PROVE  MastersInv'
<1> DEFINE l == m[n]
           w == LockLost(l)
<1>1. l \in Lock /\ Sound(l) /\ Fits(l, lapses) /\ Shape /\ l.pid = "runs"
  BY DEF MastersInv, Shape, Move
<1>2. l.call = "none" /\ file' = Unlinked(l.url) /\ lapses' = lapses \union {"moved"}
  BY DEF Move, Idle
<1>3. PICK u \in Urls, p \in Periods, h \in Holds :
        m' = [m EXCEPT ![n] =
                [w EXCEPT !.url = u, !.hold = h, !.enabled = FALSE,
                          !.last = Never, !.in = p, !.every = p]]
  BY DEF Move
<1>4. p \in Nat /\ p \in Int
  BY SMTT(30), HALockAssumption
<1>5. /\ w \in Lock /\ w.have = FALSE /\ w.call = l.call /\ w.by = l.by
      /\ w.rearm = l.rearm /\ w.up = l.up /\ w.pid = "stops"
  BY <1>1, LockLostFields DEF KeepsTimes
<1> HIDE DEF w
<1> DEFINE k == [w EXCEPT !.url = u, !.hold = h, !.enabled = FALSE,
                          !.last = Never, !.in = p, !.every = p]
<1>6. k \in Lock
  BY <1>4, <1>5 DEF Lock
<1>7. /\ k.have = FALSE /\ k.call = w.call /\ k.by = w.by /\ k.rearm = w.rearm
      /\ k.up = w.up /\ k.pid = w.pid
  BY <1>5 DEF Lock
<1>8. m' = [m EXCEPT ![n] = k]
  BY <1>3
<1> HIDE DEF k
<1>9. Sound(k)
  BY <1>1, <1>2, <1>5, <1>7 DEF Sound, Quiet, Acquiring, Renewing
<1>10. Fits(k, lapses')
  BY <1>2, <1>5, <1>7 DEF Fits
<1>11. file' \in [Urls -> LockFile]
  <2>1. 0 \in Nat /\ l.url \in Urls
    BY <1>1 DEF Lock
  <2> QED
    BY <1>1, <1>2, <2>1, FilesTyped
<1>12. lapses \subseteq lapses' /\ lapses' \subseteq Lapses
  BY <1>1, <1>2 DEF Shape, Lapses
<1> QED
  BY <1>6, <1>8, <1>9, <1>10, <1>11, <1>12, OneMaster

\* A daemon that is taken off the list still has what it had.
LEMMA RetireKeeps ==
    ASSUME MastersInv, NEW n \in Node, Retire(n)
    PROVE  MastersInv'
<1> DEFINE l == m[n]
           w == Stop(l)
           k == [w EXCEPT !.pid = "leaves"]
<1>1. l \in Lock /\ Sound(l) /\ Fits(l, lapses) /\ Shape
  BY DEF MastersInv, Shape
<1>2. m' = [m EXCEPT ![n] = k] /\ file' = file /\ lapses' = lapses
  BY DEF Retire
<1>3. l.pid # "none"
  BY DEF Retire
<1>4. /\ w \in Lock /\ KeepsTimes(l, w)
      /\ w.have = l.have /\ w.enabled = l.enabled /\ w.on_hold = l.on_hold
      /\ w.call = l.call /\ w.by = l.by
  BY <1>1, StopFields
<1> HIDE DEF w
<1>5. k \in Lock
  BY <1>4 DEF Lock
<1>6. /\ k.up = w.up /\ k.call = w.call /\ k.have = w.have /\ k.pid = "leaves"
      /\ k.enabled = w.enabled /\ k.by = w.by /\ k.rearm = w.rearm
  BY <1>4 DEF Lock
<1> HIDE DEF l, k
<1>7. Sound(k)
  BY <1>1, <1>4, <1>6 DEF Sound, Quiet, KeepsTimes
<1>8. Fits(k, lapses)
  BY <1>1, <1>3, <1>4, <1>6 DEF Fits
<1> QED
  BY <1>1, <1>2, <1>5, <1>7, <1>8, OneMaster DEF Shape

\* A master that is down has nothing.
LEMMA EndKeeps ==
    ASSUME MastersInv, NEW n \in Node, Remove(n) \/ Retired(n) \/ Crash(n)
    PROVE  MastersInv'
<1> DEFINE k == Down(m[n])
<1>1. m[n] \in Lock /\ Shape
  BY DEF MastersInv, Shape
<1>2. k \in Lock /\ Sound(k) /\ \A L : Fits(k, L)
  BY <1>1, DownFields
<1>3. m' = [m EXCEPT ![n] = k]
  BY DEF Remove, Retired, Crash
<1>4. file' \in [Urls -> LockFile]
  <2>1. 0 \in Nat /\ m[n].url \in Urls
    BY <1>1 DEF Lock
  <2>2. file' = file \/ file' = Unlinked(m[n].url)
    BY DEF Remove, Retired, Crash
  <2>3. Unlinked(m[n].url) \in [Urls -> LockFile]
    BY <1>1, <2>1, FilesTyped
  <2> QED
    BY <1>1, <2>2, <2>3 DEF Shape
<1>5. lapses \subseteq lapses' /\ lapses' \subseteq Lapses
  <2>1. lapses' = lapses \/ lapses' = lapses \union {} \/ lapses' = lapses \union {"removed"}
    BY DEF Remove, Retired, Crash
  <2> QED
    BY <1>1, <2>1 DEF Shape, Lapses
<1> HIDE DEF k
<1> QED
  BY <1>2, <1>3, <1>4, <1>5, OneMaster

\* A master that starts asks for the lock.
LEMMA BootKeeps ==
    ASSUME MastersInv, NEW n \in Node, Boot(n)
    PROVE  MastersInv'
<1> DEFINE u == m[n].url
           h == m[n].hold
<1>1. u \in Urls /\ h \in Holds /\ Shape
  BY DEF MastersInv, Shape, Lock
<1>2. PICK p \in Periods : m' = [m EXCEPT ![n] = Started(u, p, h)]
  BY DEF Boot
<1>3. p \in Nat
  BY HALockAssumption
<1> HIDE DEF u, h
<1> DEFINE k == Started(u, p, h)
<1>4. k \in Lock /\ Sound(k) /\ \A L : Fits(k, L)
  BY <1>1, <1>3, StartedFields, Zenon
<1>5. m' = [m EXCEPT ![n] = k] /\ file' = file /\ lapses' = lapses
  BY <1>2 DEF Boot
<1> HIDE DEF k
<1> QED
  BY <1>1, <1>4, <1>5, OneMaster DEF Shape

\* What somebody else does to the file is not noticed yet.
LEMMA PreenKeeps ==
    ASSUME MastersInv, NEW u \in Urls, Preen(u)
    PROVE  MastersInv'
<1>1. m' = m /\ file' = Unlinked(u) /\ lapses' = lapses \union {"preened"}
  BY DEF Preen
<1>2. file' \in [Urls -> LockFile]
  BY <1>1 DEF MastersInv, Shape, Unlinked, NoFile, LockFile
<1>3. \A n \in Node : Fits(m[n], lapses')
  BY <1>1, FitsGrows DEF MastersInv
<1> QED
  BY <1>1, <1>2, <1>3 DEF MastersInv, Shape, Lapses

\* Time changes only times.
LEMMA PassFields ==
    ASSUME Shape, Pass, NEW n \in Node
    PROVE  /\ m'[n] \in Lock /\ Keeps(m[n], m'[n])
           /\ m'[n].call = m[n].call /\ m'[n].by = m[n].by
           /\ m'[n].rearm = m[n].rearm /\ m'[n].every = m[n].every
           /\ m'[n].in = Less(m[n].in) /\ m'[n].expire = Less(m[n].expire)
<1> DEFINE l == m[n]
           la == IF l.last = Never \/ l.last > Longest THEN l.last ELSE l.last + 1
           k == [l EXCEPT !.in = Less(l.in), !.expire = Less(l.expire), !.last = la]
<1>1. l \in Lock
  BY DEF Shape
<1>2. m'[n] = k
  BY DEF Pass
<1>3. l.in \in Int /\ l.expire \in Nat /\ l.last \in Nat \cup {Never}
  BY <1>1 DEF Lock
<1>4. Less(l.in) \in Int /\ Less(l.expire) \in Nat /\ la \in Nat \cup {Never}
  BY SMTT(30), <1>3 DEF Less
<1> HIDE DEF la, l
<1>5. k \in Lock
  BY <1>1, <1>4 DEF Lock
<1>6. /\ Keeps(l, k) /\ k.call = l.call /\ k.by = l.by /\ k.rearm = l.rearm
      /\ k.every = l.every /\ k.in = Less(l.in) /\ k.expire = Less(l.expire)
  BY <1>1 DEF Lock, Keeps
<1> QED
  BY <1>2, <1>5, <1>6 DEF l

\* Nor is the passing of time.
LEMMA TickKeeps ==
    ASSUME MastersInv, Tick \/ TickLate
    PROVE  MastersInv'
<1>1. Pass /\ Shape
  BY DEF Tick, TickLate, MastersInv
<1>2. lapses \subseteq lapses' /\ lapses' \subseteq Lapses
  <2>1. lapses' = lapses \/ lapses' = lapses \union {"late"}
    BY DEF Tick, TickLate
  <2> QED
    BY <1>1, <2>1 DEF Shape, Lapses
<1>3. file' \in [Urls -> LockFile]
  <2>1. ASSUME NEW u \in Urls
        PROVE  [file[u] EXCEPT !.left = Less(file[u].left)] \in LockFile
    <3>1. file[u] \in LockFile
      BY <1>1 DEF Shape
    <3>2. Less(file[u].left) \in Nat
      BY SMTT(30), <3>1 DEF LockFile, Less
    <3> QED
      BY <3>1, <3>2 DEF LockFile
  <2> QED
    BY <1>1, <2>1 DEF Pass
<1>4. m' \in [Node -> Lock]
  <2>1. m' = [n \in Node |-> m'[n]]
    BY <1>1 DEF Pass
  <2> QED
    BY <1>1, <2>1, PassFields
<1>5. ASSUME NEW n \in Node
      PROVE  Sound(m'[n]) /\ Fits(m'[n], lapses')
  <2>1. /\ Keeps(m[n], m'[n]) /\ m'[n].call = m[n].call /\ m'[n].by = m[n].by
        /\ m'[n].rearm = m[n].rearm
    BY <1>1, PassFields
  <2>2. Sound(m[n]) /\ Fits(m[n], lapses')
    BY <1>2, FitsGrows DEF MastersInv
  <2> QED
    BY <2>1, <2>2, FitsKept DEF Sound, Quiet, Keeps
<1> QED
  BY <1>2, <1>3, <1>4, <1>5 DEF MastersInv, Shape

\* All masters are down at first.
LEMMA MastersInitially == Init => MastersInv
<1> SUFFICES ASSUME Init
             PROVE  MastersInv
  OBVIOUS
<1> DEFINE u == CHOOSE x \in Urls : TRUE
           h == CHOOSE x \in Holds : TRUE
           k == Started(u, 0, h)
<1>1. u \in Urls /\ h \in Holds /\ 0 \in Nat
  BY HALockAssumption
<1>2. m = [n \in Node |-> Down(k)] /\ file = [v \in Urls |-> NoFile] /\ lapses = {}
  BY DEF Init
<1> HIDE DEF u, h
<1>3. k \in Lock
  BY <1>1, StartedFields, Zenon
<1> HIDE DEF k
<1> DEFINE d == Down(k)
<1>4. d \in Lock /\ Sound(d) /\ \A L : Fits(d, L)
  BY <1>3, DownFields
<1>5. m = [n \in Node |-> d]
  BY <1>2
<1> HIDE DEF d
<1>6. NoFile \in LockFile
  BY DEF NoFile, LockFile
<1> QED
  BY <1>2, <1>4, <1>5, <1>6 DEF MastersInv, Shape

\* One case for each action.
LEMMA MastersStep == MastersInv /\ [Next]_vars => MastersInv'
<1> SUFFICES ASSUME MastersInv, [Next]_vars
             PROVE  MastersInv'
  OBVIOUS
<1>1. CASE UNCHANGED vars
  BY <1>1 DEF vars, MastersInv, Shape
<1>2. ASSUME NEW n \in Node,
             \/ Call(n) \/ Fails(n)
             \/ Poll(n) \/ DoStart(n) \/ Exits(n) \/ DaemonOff(n) \/ DaemonOn(n)
             \/ Reconfig(n) \/ Move(n) \/ Remove(n) \/ Retire(n) \/ Retired(n)
             \/ Boot(n) \/ Crash(n)
      PROVE  MastersInv'
  BY <1>2, StatKeeps, UnlinkKeeps, CreatKeeps, LinkKeeps, UtimeKeeps, VerifyKeeps,
     FailsKeeps, PollKeeps, DoStartKeeps, ExitsKeeps, DaemonOffKeeps,
     DaemonOnKeeps, ReconfigKeeps, MoveKeeps, RetireKeeps, EndKeeps, BootKeeps DEF Call
<1>3. ASSUME NEW u \in Urls, Preen(u)
      PROVE  MastersInv'
  BY <1>3, PreenKeeps
<1>4. CASE Tick \/ TickLate
  BY <1>4, TickKeeps
<1>5. ASSUME NEW n \in Node, OrphanEnds(n)
      PROVE  MastersInv'
  BY <1>5 DEF OrphanEnds, MastersInv, Shape
<1> QED
  BY <1>1, <1>2, <1>3, <1>4, <1>5 DEF Next

\* The invariant under the next three theorems: every master's have_lock,
\* lock_enabled, daemon and running call agree, whatever fails.
THEOREM MastersAreSound == Spec => []MastersInv
BY MastersInitially, MastersStep, PTL DEF Spec

\* A daemon that has not been told to stop runs under its master's lock, whatever
\* fails: every poll that loses the lock stops the daemon (LockLost).
THEOREM DaemonsRunUnderLock == Spec => []RunsUnderLock
<1>1. MastersInv => RunsUnderLock
  BY DEF MastersInv, Sound, Quiet, RunsUnderLock
<1> QED
  BY <1>1, MastersAreSound, PTL

\* A lock that is held has its daemon, unless it was acquired for nothing
\* (RealStart, Exited).
THEOREM LocksAreServed == Spec => []LockIsServed
<1>1. MastersInv => LockIsServed
  BY DEF MastersInv, Fits, LockIsServed, Runs
<1> QED
  BY <1>1, MastersAreSound, PTL

\* A master that may run the daemon does, or polls, or is going to start it,
\* unless AcquireLock has failed.
THEOREM MastersCompete == Spec => []Competes
<1>1. MastersInv => Competes
  BY DEF MastersInv, Fits, Competes, Runs
<1> QED
  BY <1>1, MastersAreSound, PTL

----------------------------------------------------------------------------
(* The lease: at most one master has the lock, unless one of the lapses    *)
(* has happened that the lease does not withstand.  The invariant is that  *)
(* the lock file of a holder expires, by every clock, after the timer of   *)
(* the holder has fired.                                                   *)

\* A time after which every lease still lasts, by every clock.
Short(t) == t \in Nat /\ \A h \in Holds : h > t + MaxSkew

TheUrl == CHOOSE u \in Urls : TRUE

Tolerated(L) == L \subseteq {"idle", "disabled", "stopping"}

\* All masters use one lock; the timer is set, and will be set again, for a short
\* time; and the expiration that a call has computed is that of a full lease.
Timely(n, l) ==
    /\ l.url = TheUrl
    /\ l.up => Short(l.in) /\ Short(l.every)
    /\ Short(l.rearm)
    /\ l.call \in {"link", "verify"} => l.expire = l.hold + Skew[n]
    /\ l.by = "periods" => l.call # "none" /\ (l.rearm = 0 \/ l.last <= l.rearm)

\* The file of a holder outlives its timer.
Leased(l, f) == l.have => f.there /\ f.left > l.in + MaxSkew

Lease ==
    /\ \A n \in Node : Timely(n, m[n]) /\ Leased(m[n], file[TheUrl])
    /\ \A n, k \in Node : m[n].have /\ m[k].have => n = k

LeaseInv == Tolerated(lapses) => Lease

----------------------------------------------------------------------------
(* Times.                                                                  *)

\* The constants, one fact at a time.
LEMMA Constants ==
    /\ Urls # {} /\ TheUrl \in Urls /\ MaxSkew \in Nat
    /\ \A h \in Holds : h \in Nat
    /\ \A p \in Periods : p \in Nat /\ Short(p)
    /\ \A n \in Node : Skew[n] \in Nat /\ Skew[n] <= MaxSkew
<1>1. Urls # {} /\ MaxSkew \in Nat /\ Periods \subseteq Nat /\ Holds \subseteq Nat
  BY HALockAssumption, Zenon
<1>2. TheUrl \in Urls
  BY <1>1 DEF TheUrl
<1>3. \A p \in Periods, h \in Holds : h > p + MaxSkew
  BY HALockAssumption, Zenon
<1>4. \A p \in Periods : p \in Nat /\ Short(p)
  BY <1>1, <1>3 DEF Short
<1>5. ASSUME NEW n \in Node
      PROVE  Skew[n] \in Nat /\ Skew[n] <= MaxSkew
  <2>1. Skew \in [Node -> 0 .. MaxSkew]
    BY HALockAssumption, Zenon
  <2> QED
    BY SMTT(30), <1>1, <2>1
<1>6. \A h \in Holds : h \in Nat
  BY <1>1
<1> QED
  BY <1>1, <1>2, <1>4, <1>5, <1>6

\* What is sooner than a short time is short.
LEMMA Sooner ==
    ASSUME NEW t \in Nat, NEW p \in Nat, t <= p, Short(p)
    PROVE  Short(t)
<1> SUFFICES ASSUME NEW h \in Holds
             PROVE  h > t + MaxSkew
  BY DEF Short
<1>1. h \in Nat /\ MaxSkew \in Nat /\ h > p + MaxSkew
  BY Constants DEF Short
<1> QED
  BY SMTT(30), <1>1

\* There is a period, and no time is shorter than none.
LEMMA ZeroIsShort == Short(0)
<1>1. PICK p \in Periods : TRUE
  BY HALockAssumption, Zenon
<1>2. p \in Nat /\ Short(p)
  BY Constants
<1> QED
  BY SMTT(30), <1>2, Sooner

\* A full lease, by the clock of the one who sets it.
LEMMA FullLease ==
    ASSUME NEW n \in Node, NEW h \in Holds, NEW t, Short(t)
    PROVE  h + Skew[n] \in Nat /\ h + Skew[n] > t + MaxSkew
<1>1. h \in Nat /\ MaxSkew \in Nat /\ Skew[n] \in Nat
  BY Constants
<1>2. t \in Nat /\ h > t + MaxSkew
  BY DEF Short
<1> QED
  BY SMTT(30), <1>1, <1>2

\* The daemon's side does not touch the times.
LEMMA TimelyKept ==
    ASSUME NEW n \in Node, NEW l, NEW k, Timely(n, l), KeepsTimes(l, k),
           k.call = l.call, k.by = l.by
    PROVE  Timely(n, k)
BY DEF Timely, KeepsTimes

\* DoPoll sets the timer for a short time at once, or has it set when its call
\* returns; the timer of a holder is left alone until then.
LEMMA DoPollTimely ==
    ASSUME NEW n \in Node, NEW l \in Lock, NEW r \in Int, Short(r), l.call = "none",
           Timely(n, l)
    PROVE  /\ Timely(n, DoPoll(l, r))
           /\ l.have => DoPoll(l, r).in = l.in
<1> DEFINE k == DoPoll(l, r)
<1>0. l.by # "periods"
  BY DEF Timely
<1>1. CASE l.have
  <2>1. /\ k.url = l.url /\ k.up = l.up /\ k.in = l.in /\ k.every = l.every
        /\ k.rearm = r /\ k.call = "utime" /\ k.by = "poll"
    BY <1>1 DEF DoPoll, Lock
  <2> HIDE DEF k
  <2>2. Timely(n, k)
    BY <2>1 DEF Timely
  <2> QED
    BY <2>1, <2>2 DEF k
<1>2. CASE ~l.have /\ l.enabled
  <2>1. /\ k.url = l.url /\ k.up = l.up /\ k.in = l.in /\ k.every = l.every
        /\ k.rearm = r /\ k.call = "stat" /\ k.by = "poll"
    BY <1>2 DEF DoPoll, Lock
  <2> HIDE DEF k
  <2>2. Timely(n, k)
    BY <2>1 DEF Timely
  <2> QED
    BY <1>2, <2>2 DEF k
<1>3. CASE ~l.have /\ ~l.enabled
  <2>1. /\ k.url = l.url /\ k.up = l.up /\ k.in = r /\ k.every = l.every
        /\ k.rearm = l.rearm /\ k.call = "none" /\ k.by = l.by
    BY <1>3 DEF DoPoll, Lock
  <2> HIDE DEF k
  <2>2. Timely(n, k)
    BY <1>0, <2>1 DEF Timely
  <2> QED
    BY <1>3, <2>2 DEF k
<1> QED
  BY <1>1, <1>2, <1>3

\* The timer is set for a short time, provided that the next poll is not overdue.
LEMMA SetupTimerTimely ==
    ASSUME NEW n \in Node, NEW l \in Lock, NEW p, Short(p), l.call = "none",
           p = 0 \/ l.last <= p, Timely(n, l)
    PROVE  /\ Timely(n, SetupTimer(l, p))
           /\ l.have /\ (p = 0 \/ l.last # Never) => SetupTimer(l, p).in = l.in
<1>0. p \in Nat /\ p \in Int /\ l.by # "periods"
  BY SMTT(30) DEF Short, Timely
<1>1. CASE p = 0
  BY <1>1 DEF SetupTimer
<1>2. CASE p # 0 /\ l.last = Never
  <2> DEFINE k == [l EXCEPT !.in = p, !.every = p]
  <2>1. /\ k.url = l.url /\ k.up = l.up /\ k.in = p /\ k.every = p
        /\ k.rearm = l.rearm /\ k.call = "none" /\ k.by = l.by
    BY DEF Lock
  <2>2. SetupTimer(l, p) = k
    BY <1>2 DEF SetupTimer
  <2> HIDE DEF k
  <2>3. Timely(n, k)
    BY <1>0, <2>1 DEF Timely
  <2> QED
    BY <1>2, <2>2, <2>3
<1>3. CASE p # 0 /\ l.last # Never
  <2> DEFINE k == [l EXCEPT !.every = p]
             r == Delay(p - l.last)
  <2>1. k \in Lock
    BY <1>0 DEF Lock
  <2>2. /\ k.url = l.url /\ k.up = l.up /\ k.in = l.in /\ k.every = p
        /\ k.rearm = l.rearm /\ k.call = "none" /\ k.by = l.by /\ k.have = l.have
    BY DEF Lock
  <2>3. l.last \in Nat /\ l.last <= p
    BY <1>3 DEF Lock
  <2>4. r \in Nat /\ r <= p /\ r \in Int
    BY SMTT(30), <1>0, <2>3 DEF Delay
  <2> HIDE DEF r, k
  <2>5. Short(r)
    BY <1>0, <2>4, Sooner
  <2>6. Timely(n, k)
    BY <1>0, <2>2 DEF Timely
  <2>7. Timely(n, DoPoll(k, r)) /\ (k.have => DoPoll(k, r).in = k.in)
    BY <2>1, <2>2, <2>4, <2>5, <2>6, DoPollTimely
  <2>8. SetupTimer(l, p) = DoPoll(k, r)
    BY <1>3 DEF SetupTimer, k, r
  <2> QED
    BY <2>2, <2>7, <2>8
<1> QED
  BY <1>1, <1>2, <1>3

\* What follows a call sets the timer for a short time.
LEMMA ReturnTimely ==
    ASSUME NEW n \in Node, NEW l \in Lock, Timely(n, l)
    PROVE  Timely(n, Return(l))
<1> DEFINE done == [l EXCEPT !.call = "none", !.by = "app", !.expire = 0,
                             !.rearm = 0]
<1>0. 0 \in Nat /\ 0 \in Int /\ "none" \in Calls /\ "app" \in Callers
  BY SMTT(30) DEF Calls, Callers
<1>1. done \in Lock
  BY <1>0 DEF Lock
<1>2. /\ done.call = "none" /\ done.by = "app" /\ done.rearm = 0
      /\ done.url = l.url /\ done.up = l.up /\ done.in = l.in
      /\ done.every = l.every /\ done.last = l.last
  BY DEF Lock
<1>3. Short(l.rearm) /\ l.rearm \in Int
  BY SMTT(30) DEF Timely, Short
<1> HIDE DEF done
<1>4. Timely(n, done)
  BY <1>2, ZeroIsShort DEF Timely
<1>5. CASE l.by = "app"
  <2>1. Return(l) = done
    BY <1>5 DEF Return, done
  <2> QED
    BY <1>4, <2>1
<1>6. CASE l.by = "poll"
  <2> DEFINE k == [done EXCEPT !.in = l.rearm]
  <2>1. Return(l) = k
    BY <1>6 DEF Return, done
  <2>2. /\ k.call = "none" /\ k.by = "app" /\ k.rearm = 0 /\ k.url = l.url
        /\ k.up = l.up /\ k.in = l.rearm /\ k.every = l.every
    BY <1>1, <1>2 DEF Lock
  <2> HIDE DEF k
  <2> QED
    BY <1>3, <2>1, <2>2, ZeroIsShort DEF Timely
<1>7. CASE l.by = "periods"
  <2>1. Return(l) = SetupTimer(done, l.rearm)
    BY <1>7 DEF Return, done
  <2>2. l.rearm = 0 \/ done.last <= l.rearm
    BY <1>2, <1>7 DEF Timely
  <2> QED
    BY <1>1, <1>2, <1>3, <1>4, <2>1, <2>2, SetupTimerTimely
<1>8. l.by \in {"app", "poll", "periods"}
  BY DEF Lock, Callers
<1> QED
  BY <1>5, <1>6, <1>7, <1>8

----------------------------------------------------------------------------
(* The steps of the lease.                                                 *)

Alone(n) == \A i \in Node \ {n} : ~m[i].have

\* A step of one master either finds no other holder, or leaves the file alone and
\* acquires nothing.
LEMMA OneLease ==
    ASSUME Shape, Lease, NEW n \in Node, NEW k, m' = [m EXCEPT ![n] = k],
           Timely(n, k), Leased(k, file'[TheUrl]),
           \/ Alone(n)
           \/ file'[TheUrl] = file[TheUrl] /\ (k.have => m[n].have)
    PROVE  Lease'
<1>0. m \in [Node -> Lock]
  BY DEF Shape
<1>1. m'[n] = k /\ \A i \in Node \ {n} : m'[i] = m[i]
  BY <1>0
<1>2. ASSUME NEW i \in Node
      PROVE  Timely(i, m'[i]) /\ Leased(m'[i], file'[TheUrl])
  <2>1. CASE i = n
    BY <1>1, <2>1
  <2>2. CASE i # n
    BY <1>1, <2>2 DEF Lease, Leased, Alone
  <2> QED
    BY <2>1, <2>2
<1>3. ASSUME NEW i \in Node, NEW j \in Node, m'[i].have, m'[j].have
      PROVE  i = j
  BY SMTT(30), <1>1, <1>3 DEF Lease, Alone
<1>4. /\ \A i \in Node : Timely(i, m'[i]) /\ Leased(m'[i], file'[TheUrl])
      /\ \A i, j \in Node : m'[i].have /\ m'[j].have => i = j
  BY <1>2, <1>3
<1> QED
  BY <1>4 DEF Lease, Timely, Leased

\* What is known of a master and of the file it uses.
LEMMA Known ==
    ASSUME MastersInv, Lease, NEW n \in Node
    PROVE  /\ Shape /\ m[n] \in Lock /\ Sound(m[n]) /\ Timely(n, m[n])
           /\ Leased(m[n], file[TheUrl]) /\ m[n].url = TheUrl /\ TheUrl \in Urls
           /\ file \in [Urls -> LockFile] /\ file[TheUrl].left \in Nat
           /\ m[n].have => Alone(n)
<1>1. Shape /\ Sound(m[n])
  BY DEF MastersInv
<1>2. m[n] \in Lock /\ file \in [Urls -> LockFile] /\ TheUrl \in Urls
  BY <1>1, Constants DEF Shape
<1>3. file[TheUrl].left \in Nat
  BY <1>2 DEF LockFile
<1>4. Timely(n, m[n]) /\ Leased(m[n], file[TheUrl]) /\ (m[n].have => Alone(n))
  BY DEF Lease, Alone
<1>5. m[n].url = TheUrl
  BY <1>4 DEF Timely
<1> QED
  BY <1>1, <1>2, <1>3, <1>4, <1>5

\* Nobody holds a lock whose file is missing, or expired by somebody's clock.
LEMMA NoHolder ==
    ASSUME MastersInv, Lease, NEW n \in Node,
           ~file[TheUrl].there \/ Expired(n, TheUrl)
    PROVE  \A i \in Node : ~m[i].have
<1> SUFFICES ASSUME NEW i \in Node, m[i].have
             PROVE  FALSE
  OBVIOUS
<1>1. /\ Sound(m[i]) /\ Timely(i, m[i]) /\ Leased(m[i], file[TheUrl])
      /\ file[TheUrl].left \in Nat
  BY Known
<1>2. m[i].up /\ m[i].in \in Nat
  BY <1>1 DEF Sound, Quiet, Timely, Short
<1>3. file[TheUrl].there /\ file[TheUrl].left > m[i].in + MaxSkew
  BY <1>1 DEF Leased
<1>4. MaxSkew \in Nat /\ Skew[n] \in Nat /\ Skew[n] <= MaxSkew
  BY Constants
<1>5. file[TheUrl].left <= Skew[n]
  BY <1>3 DEF Expired
<1> QED
  BY SMTT(30), <1>1, <1>2, <1>3, <1>4, <1>5

\* A master that holds nothing may do what it wants with its times.
LEMMA IdleLease ==
    ASSUME MastersInv, Lease, NEW n \in Node, NEW k, m' = [m EXCEPT ![n] = k],
           Timely(n, k), ~k.have, file' = file
    PROVE  Lease'
<1>1. Shape
  BY Known
<1>2. Leased(k, file'[TheUrl])
  BY DEF Leased
<1> QED
  BY <1>1, <1>2, OneLease

\* Looking at the file changes nobody's lease.
LEMMA StatLease ==
    ASSUME MastersInv, Lease, NEW n \in Node, Stat(n)
    PROVE  Lease'
<1> DEFINE l == m[n]
<1>1. l \in Lock /\ Sound(l) /\ Timely(n, l)
  BY Known
<1>2. l.call = "stat" /\ ~l.have /\ l.up /\ Quiet(l) /\ file' = file
  BY <1>1 DEF Stat, Sound, Acquiring
<1>3. ASSUME NEW c \in {"creat", "unlink"}
      PROVE  Timely(n, [l EXCEPT !.call = c]) /\ ~[l EXCEPT !.call = c].have
  <2> DEFINE k == [l EXCEPT !.call = c]
  <2>1. /\ k.url = l.url /\ k.up = l.up /\ k.in = l.in /\ k.every = l.every
        /\ k.rearm = l.rearm /\ k.call = c /\ k.by = l.by /\ k.last = l.last
        /\ k.have = l.have
    BY <1>1 DEF Lock
  <2> HIDE DEF k
  <2>2. Timely(n, k) /\ ~k.have
    BY <1>1, <1>2, <2>1 DEF Timely
  <2> QED
    BY <2>2 DEF k
<1>4. Timely(n, Return(l)) /\ ~Return(l).have
  BY <1>1, <1>2, ReturnTimely, ReturnSound DEF Keeps
<1>5. \/ m' = [m EXCEPT ![n] = [l EXCEPT !.call = "creat"]]
      \/ m' = [m EXCEPT ![n] = [l EXCEPT !.call = "unlink"]]
      \/ m' = [m EXCEPT ![n] = Return(l)]
  BY DEF Stat
<1> QED
  BY <1>2, <1>3, <1>4, <1>5, IdleLease

\* The file that is removed is expired, or else the lapse is a "stale" one.
LEMMA UnlinkLease ==
    ASSUME MastersInv, Lease, NEW n \in Node, Unlink(n), Tolerated(lapses')
    PROVE  Lease'
<1> DEFINE l == m[n]
           k == [l EXCEPT !.call = "creat"]
<1>1. Shape /\ l \in Lock /\ Sound(l) /\ Timely(n, l) /\ l.url = TheUrl
  BY Known
<1>2. l.call = "unlink" /\ ~l.have
  BY <1>1 DEF Unlink, Sound, Acquiring
<1>3. /\ k.url = l.url /\ k.up = l.up /\ k.in = l.in /\ k.every = l.every
      /\ k.rearm = l.rearm /\ k.call = "creat" /\ k.by = l.by /\ k.last = l.last
      /\ k.have = l.have
  BY <1>1 DEF Lock
<1>4. m' = [m EXCEPT ![n] = k]
  BY DEF Unlink
<1> HIDE DEF k
<1>5. Timely(n, k) /\ ~k.have
  BY <1>1, <1>2, <1>3 DEF Timely
<1>6. CASE file' = file
  BY <1>4, <1>5, <1>6, IdleLease
<1>7. CASE file' # file
  <2>1. file[TheUrl].there /\ ~Expired(n, TheUrl) => "stale" \in lapses'
    BY <1>1, <1>7 DEF Unlink
  <2>2. ~file[TheUrl].there \/ Expired(n, TheUrl)
    BY <2>1 DEF Tolerated
  <2>3. Alone(n)
    BY <2>2, NoHolder DEF Alone
  <2>4. Leased(k, file'[TheUrl])
    BY <1>5 DEF Leased
  <2> QED
    BY <1>1, <1>4, <1>5, <2>3, <2>4, OneLease
<1> QED
  BY <1>6, <1>7

\* The temporary file expires when a full lease does.
LEMMA CreatLease ==
    ASSUME MastersInv, Lease, NEW n \in Node, Creat(n)
    PROVE  Lease'
<1> DEFINE l == m[n]
           e == l.hold + Skew[n]
           k == [l EXCEPT !.call = "link", !.expire = e]
<1>1. l \in Lock /\ Sound(l) /\ Timely(n, l)
  BY Known
<1>2. l.call = "creat" /\ ~l.have /\ file' = file
  BY <1>1 DEF Creat, Sound, Acquiring
<1>3. m \in [Node -> Lock]
  BY DEF MastersInv, Shape
<1>4. m' = [m EXCEPT ![n] = k]
  BY <1>1, <1>3 DEF Creat
<1>5. /\ k.url = l.url /\ k.up = l.up /\ k.in = l.in /\ k.every = l.every
      /\ k.rearm = l.rearm /\ k.call = "link" /\ k.by = l.by /\ k.last = l.last
      /\ k.have = l.have /\ k.hold = l.hold /\ k.expire = e
  BY <1>1 DEF Lock
<1> HIDE DEF k
<1>6. Timely(n, k) /\ ~k.have
  BY <1>1, <1>2, <1>5 DEF Timely
<1> QED
  BY <1>2, <1>4, <1>6, IdleLease

\* Only a missing file can be linked, so nobody holds the lock that is won, and the
\* winner has a full lease.
LEMMA LinkLease ==
    ASSUME MastersInv, Lease, NEW n \in Node, Link(n)
    PROVE  Lease'
<1> DEFINE l == m[n]
<1>1. /\ Shape /\ l \in Lock /\ Sound(l) /\ Timely(n, l) /\ l.url = TheUrl
      /\ TheUrl \in Urls /\ file \in [Urls -> LockFile]
  BY Known
<1>2. l.up /\ Quiet(l) /\ l.call = "link" /\ ~l.have /\ l.enabled
  BY <1>1 DEF Link, Sound, Acquiring
<1>3. CASE file[l.url].there
  <2>1. Timely(n, Return(l)) /\ ~Return(l).have
    BY <1>1, <1>2, ReturnTimely, ReturnSound DEF Keeps
  <2>2. m' = [m EXCEPT ![n] = Return(l)] /\ file' = file
    BY <1>3 DEF Link
  <2> HIDE DEF l
  <2> QED
    BY <2>1, <2>2, IdleLease
<1>4. CASE ~file[l.url].there
  <2> DEFINE h == [l EXCEPT !.have = TRUE]
  <2>1. PICK ok \in BOOLEAN :
           /\ file' = [file EXCEPT ![l.url] = [there |-> TRUE, left |-> l.expire]]
           /\ m' = [m EXCEPT ![n] = Return(RealStart(h, ok))]
    BY <1>4 DEF Link
  <2>2. h \in Lock /\ h.have = TRUE
    BY <1>1 DEF Lock
  <2>3. KeepsTimes(l, h) /\ h.call = l.call /\ h.by = l.by /\ h.enabled = l.enabled
    BY <1>1 DEF Lock, KeepsTimes
  <2> DEFINE w == RealStart(h, ok)
  <2> HIDE DEF h
  <2>4. /\ w \in Lock /\ KeepsTimes(h, w) /\ w.call = h.call /\ w.by = h.by
        /\ w.have = h.have /\ w.enabled = h.enabled
    BY <2>2, RealStartFields
  <2>5. m' = [m EXCEPT ![n] = Return(w)]
    BY <2>1
  <2> HIDE DEF w
  <2>6. Timely(n, w)
    BY <1>1, <2>3, <2>4, TimelyKept
  <2>7. w.up /\ Quiet(w)
    BY <1>2, <2>2, <2>3, <2>4 DEF Quiet, KeepsTimes
  <2> DEFINE k == Return(w)
  <2>8. Timely(n, k) /\ k.up
    BY <2>4, <2>6, <2>7, ReturnTimely, ReturnSound DEF Keeps
  <2>9. m' = [m EXCEPT ![n] = k]
    BY <2>5
  <2> HIDE DEF k
  <2>10. Alone(n)
    BY <1>1, <1>4, NoHolder DEF Alone
  <2>11. Leased(k, file'[TheUrl])
    <3>1. file'[TheUrl] = [there |-> TRUE, left |-> l.expire]
      BY <1>1, <2>1
    <3>2. l.expire = l.hold + Skew[n] /\ l.hold \in Holds /\ Short(k.in)
      BY <1>1, <1>2, <2>8 DEF Timely, Lock
    <3>3. l.hold + Skew[n] > k.in + MaxSkew
      BY <3>2, FullLease
    <3> QED
      BY SMTT(30), <3>1, <3>2, <3>3 DEF Leased
  <2> QED
    BY <1>1, <2>8, <2>9, <2>10, <2>11, OneLease
<1> QED
  BY <1>3, <1>4

\* One who does not get the lock has no lease.
LEMMA FailsLease ==
    ASSUME MastersInv, Lease, NEW n \in Node, Fails(n)
    PROVE  Lease'
<1> DEFINE l == m[n]
           w == IF l.by = "app" THEN [l EXCEPT !.enabled = FALSE] ELSE l
<1>1. l \in Lock /\ Sound(l) /\ Timely(n, l)
  BY Known
<1>2. l.up /\ Quiet(l) /\ ~l.have
  BY <1>1 DEF Fails, Sound, Acquiring
<1>3. m' = [m EXCEPT ![n] = Return(w)] /\ file' = file
  BY DEF Fails
<1>4. w \in Lock
  BY ZenonT(60), <1>1 DEF Lock
<1>5. /\ KeepsTimes(l, w) /\ w.call = l.call /\ w.by = l.by
      /\ w.have = l.have /\ w.pid = l.pid
  BY <1>1 DEF Lock, KeepsTimes
<1> HIDE DEF w, l
<1>6. Quiet(w) /\ w.up
  BY <1>2, <1>5 DEF Quiet, KeepsTimes
<1>7. Timely(n, w)
  BY <1>1, <1>5, TimelyKept
<1>8. Timely(n, Return(w)) /\ ~Return(w).have
  BY <1>2, <1>4, <1>5, <1>6, <1>7, ReturnTimely, ReturnSound DEF Keeps
<1> QED
  BY <1>3, <1>8, IdleLease

\* One who loses the lock has no lease.
LEMMA LossLease ==
    ASSUME MastersInv, Lease, NEW n \in Node, m[n].call \in Renewing,
           m' = [m EXCEPT ![n] = Return(LockLost(m[n]))], file' = file
    PROVE  Lease'
<1> DEFINE l == m[n]
           w == LockLost(l)
<1>1. l \in Lock /\ Sound(l) /\ Timely(n, l)
  BY Known
<1>2. l.up /\ Quiet(l) /\ l.have /\ l.enabled
  BY <1>1 DEF Sound, Quiet, Acquiring, Renewing
<1>3. /\ w \in Lock /\ KeepsTimes(l, w) /\ w.call = l.call /\ w.by = l.by
      /\ w.have = FALSE /\ w.pid = IF l.pid = "runs" THEN "stops" ELSE l.pid
  BY <1>1, LockLostFields
<1>4. m' = [m EXCEPT ![n] = Return(w)]
  OBVIOUS
<1> HIDE DEF w, l
<1>5. Quiet(w) /\ w.up
  BY <1>2, <1>3 DEF Quiet, KeepsTimes
<1>6. Timely(n, w)
  BY <1>1, <1>3, TimelyKept
<1>7. Timely(n, Return(w)) /\ ~Return(w).have
  BY <1>3, <1>5, <1>6, ReturnTimely, ReturnSound DEF Keeps
<1> QED
  BY <1>4, <1>7, IdleLease

\* A renewal is by the holder, who gets a full lease.
LEMMA UtimeLease ==
    ASSUME MastersInv, Lease, NEW n \in Node, Utime(n)
    PROVE  Lease'
<1> DEFINE l == m[n]
           e == l.hold + Skew[n]
           k == [l EXCEPT !.call = "verify", !.expire = e]
<1>1. /\ Shape /\ l \in Lock /\ Sound(l) /\ Timely(n, l) /\ l.url = TheUrl
      /\ TheUrl \in Urls /\ file \in [Urls -> LockFile]
      /\ l.have => Alone(n)
  BY Known
<1>2. l.call = "utime" /\ l.have /\ l.up
  BY <1>1 DEF Utime, Sound, Renewing
<1>3. CASE m' = [m EXCEPT ![n] = Return(LockLost(@))] /\ file' = file
  BY <1>2, <1>3, LossLease DEF Renewing
<1>4. CASE /\ file[m[n].url].there
           /\ file' = [file EXCEPT ![m[n].url].left = e]
           /\ m' = [m EXCEPT ![n].call = "verify", ![n].expire = e]
  <2>1. m' = [m EXCEPT ![n] = k]
    BY <1>1, <1>4 DEF Shape
  <2>2. file[TheUrl] \in LockFile /\ file'[TheUrl] = [file[TheUrl] EXCEPT !.left = e]
    BY <1>1, <1>4
  <2>3. file'[TheUrl].there /\ file'[TheUrl].left = e
    BY <1>1, <1>4, <2>2 DEF LockFile
  <2>4. l.hold \in Holds /\ Short(l.in)
    BY <1>1, <1>2 DEF Timely, Lock
  <2>5. e > l.in + MaxSkew
    BY <2>4, FullLease
  <2>6. /\ k.url = l.url /\ k.up = l.up /\ k.in = l.in /\ k.every = l.every
        /\ k.rearm = l.rearm /\ k.call = "verify" /\ k.by = l.by /\ k.last = l.last
        /\ k.have = l.have /\ k.hold = l.hold /\ k.expire = e
    BY <1>1 DEF Lock
  <2> HIDE DEF k
  <2>7. Timely(n, k)
    BY <1>1, <1>2, <2>6 DEF Timely
  <2>8. Leased(k, file'[TheUrl])
    BY <2>3, <2>5, <2>6 DEF Leased
  <2> QED
    BY <1>1, <1>2, <2>1, <2>7, <2>8, OneLease
<1> QED
  BY <1>3, <1>4 DEF Utime

\* The timer is set again once the lease is known to be a full one.
LEMMA VerifyLease ==
    ASSUME MastersInv, Lease, NEW n \in Node, Verify(n)
    PROVE  Lease'
<1> DEFINE l == m[n]
<1>1. /\ Shape /\ l \in Lock /\ Sound(l) /\ Timely(n, l) /\ l.url = TheUrl
      /\ l.have => Alone(n)
  BY Known
<1>2. l.call = "verify" /\ l.have /\ l.up /\ Quiet(l) /\ file' = file
  BY <1>1 DEF Verify, Sound, Renewing
<1>3. CASE m' = [m EXCEPT ![n] = Return(LockLost(@))]
  BY <1>2, <1>3, LossLease DEF Renewing
<1>4. CASE /\ file[l.url].there /\ file[l.url].left = l.expire
           /\ m' = [m EXCEPT ![n] = Return(@)]
  <2> DEFINE k == Return(l)
  <2>1. Timely(n, k) /\ k.up
    BY <1>1, <1>2, ReturnTimely, ReturnSound DEF Keeps
  <2>2. m' = [m EXCEPT ![n] = k]
    BY <1>4
  <2> HIDE DEF k
  <2>3. l.expire = l.hold + Skew[n] /\ l.hold \in Holds /\ Short(k.in)
    BY <1>1, <1>2, <2>1 DEF Timely, Lock
  <2>4. l.hold + Skew[n] > k.in + MaxSkew
    BY <2>3, FullLease
  <2>5. Leased(k, file'[TheUrl])
    BY <1>1, <1>2, <1>4, <2>3, <2>4 DEF Leased
  <2> QED
    BY <1>1, <1>2, <2>1, <2>2, <2>5, OneLease
<1> QED
  BY <1>3, <1>4 DEF Verify

\* A holder may do what it wants but touch its timer.
LEMMA SameLease ==
    ASSUME MastersInv, Lease, NEW n \in Node, NEW k, m' = [m EXCEPT ![n] = k],
           Timely(n, k), k.have = m[n].have, k.have => k.in = m[n].in, file' = file
    PROVE  Lease'
<1>1. Shape /\ Leased(m[n], file[TheUrl])
  BY Known
<1>2. Leased(k, file'[TheUrl])
  BY <1>1 DEF Leased
<1> QED
  BY <1>1, <1>2, OneLease

\* A poll leaves the timer alone until the renewal has returned.
LEMMA PollLease ==
    ASSUME MastersInv, Lease, NEW n \in Node, Poll(n)
    PROVE  Lease'
<1> DEFINE l == m[n]
           k == DoPoll(l, l.every)
<1>1. l \in Lock /\ Sound(l) /\ Timely(n, l)
  BY Known
<1>2. l.up /\ l.call = "none" /\ l.every \in Int /\ Short(l.every)
  BY SMTT(30), <1>1 DEF Poll, Idle, Lock, Timely
<1>3. Timely(n, k) /\ (l.have => k.in = l.in) /\ k.have = l.have
  BY <1>1, <1>2, DoPollTimely, DoPollSound DEF Keeps
<1>4. m' = [m EXCEPT ![n] = k] /\ file' = file
  BY DEF Poll
<1> HIDE DEF k
<1> QED
  BY ZenonT(60), <1>3, <1>4, SameLease

\* Start, of a master that is idle, does not touch the times.
LEMMA StartLease ==
    ASSUME MastersInv, Lease, NEW n \in Node, NEW w \in Lock, Quiet(w), w.up,
           w.call = "none", w.by = m[n].by, w.have = m[n].have,
           KeepsTimes(m[n], w), m[n].call = "none",
           m' = [m EXCEPT ![n] = Start(w)], file' = file
    PROVE  Lease'
<1> DEFINE l == m[n]
           k == Start(w)
<1>1. Timely(n, l)
  BY Known
<1>2. /\ KeepsTimes(w, k) /\ k.have = w.have
      /\ k.call \in {"none", "stat"} /\ k.by \in {w.by, "app"}
  BY StartSound
<1>3. m' = [m EXCEPT ![n] = k]
  OBVIOUS
<1> HIDE DEF k
<1>4. l.by # "periods" /\ w.by = l.by /\ KeepsTimes(l, w) /\ w.have = l.have
  BY <1>1 DEF Timely
<1>5. Timely(n, k)
  BY <1>1, <1>2, <1>4 DEF Timely, KeepsTimes
<1>6. k.have = l.have /\ k.in = l.in
  BY <1>2, <1>4 DEF KeepsTimes
<1> QED
  BY ZenonT(60), <1>3, <1>5, <1>6, SameLease

\* The delayed start.
LEMMA DoStartLease ==
    ASSUME MastersInv, Lease, NEW n \in Node, DoStart(n)
    PROVE  Lease'
<1>1. m[n] \in Lock /\ Sound(m[n])
  BY Known
<1>2. m[n].up /\ m[n].call = "none" /\ Quiet(m[n]) /\ KeepsTimes(m[n], m[n])
  BY <1>1 DEF DoStart, Idle, Sound, KeepsTimes
<1>3. m' = [m EXCEPT ![n] = Start(m[n])] /\ file' = file
  BY DEF DoStart
<1> QED
  BY <1>1, <1>2, <1>3, StartLease

\* condor_on of the daemon.
LEMMA DaemonOnLease ==
    ASSUME MastersInv, Lease, NEW n \in Node, DaemonOn(n)
    PROVE  Lease'
<1> DEFINE l == m[n]
           w == [l EXCEPT !.on_hold = FALSE]
<1>1. l \in Lock /\ Sound(l)
  BY Known
<1>2. l.up /\ l.call = "none" /\ Quiet(l)
  BY <1>1 DEF DaemonOn, Idle, Sound
<1>3. m' = [m EXCEPT ![n] = Start(w)] /\ file' = file
  BY DEF DaemonOn
<1>4. w \in Lock
  BY <1>1 DEF Lock
<1>5. /\ KeepsTimes(l, w) /\ w.call = l.call /\ w.have = l.have /\ w.pid = l.pid
      /\ w.enabled = l.enabled /\ w.by = l.by
  BY <1>1 DEF Lock, KeepsTimes
<1> HIDE DEF w
<1>6. Quiet(w) /\ w.up
  BY <1>2, <1>5 DEF Quiet, KeepsTimes
<1> QED
  BY <1>2, <1>3, <1>4, <1>5, <1>6, StartLease

\* condor_off of the daemon.
LEMMA DaemonOffLease ==
    ASSUME MastersInv, Lease, NEW n \in Node, DaemonOff(n)
    PROVE  Lease'
<1> DEFINE l == m[n]
           w == [l EXCEPT !.on_hold = TRUE]
           k == Stop(w)
<1>1. l \in Lock /\ Timely(n, l)
  BY Known
<1>2. m' = [m EXCEPT ![n] = k] /\ file' = file
  BY DEF DaemonOff
<1>3. w \in Lock
  BY <1>1 DEF Lock
<1>4. KeepsTimes(l, w) /\ w.call = l.call /\ w.have = l.have /\ w.by = l.by
  BY <1>1 DEF Lock, KeepsTimes
<1> HIDE DEF w
<1>5. KeepsTimes(w, k) /\ k.call = w.call /\ k.have = w.have /\ k.by = w.by
  BY <1>3, StopFields
<1> HIDE DEF k
<1>6. Timely(n, k) /\ k.have = l.have /\ k.in = l.in
  BY <1>1, <1>4, <1>5, TimelyKept DEF KeepsTimes
<1> QED
  BY <1>2, <1>6, SameLease

\* The lock that is given back is the one that is held.
LEMMA ExitsLease ==
    ASSUME MastersInv, Lease, NEW n \in Node, Exits(n)
    PROVE  Lease'
<1> DEFINE l == m[n]
<1>1. Shape /\ l \in Lock /\ Timely(n, l) /\ (l.have => Alone(n))
  BY Known
<1>2. PICK held \in BOOLEAN :
        m' = [m EXCEPT ![n] = [l EXCEPT !.enabled = FALSE, !.have = FALSE,
                                        !.pid = "none", !.on_hold = held,
                                        !.start = ~held]]
  BY <1>1 DEF Exits, Lock
<1> DEFINE k == [l EXCEPT !.enabled = FALSE, !.have = FALSE, !.pid = "none",
                          !.on_hold = held, !.start = ~held]
<1>3. KeepsTimes(l, k) /\ k.have = FALSE /\ k.call = l.call /\ k.by = l.by
  BY <1>1 DEF Lock, KeepsTimes
<1>4. m' = [m EXCEPT ![n] = k]
  BY <1>2
<1> HIDE DEF k
<1>5. Timely(n, k) /\ Leased(k, file'[TheUrl])
  BY <1>1, <1>3, TimelyKept DEF Leased
<1>6. CASE l.have
  BY <1>1, <1>4, <1>5, <1>6, OneLease
<1>7. CASE ~l.have
  <2>1. file' = file
    BY <1>7 DEF Exits
  <2> QED
    BY <1>3, <1>4, <1>5, <2>1, IdleLease
<1> QED
  BY <1>6, <1>7

\* A reconfiguration that is no lapse finds that there has been a poll and that the
\* next one is not overdue, or is by a master that holds nothing.
LEMMA ReconfigLease ==
    ASSUME MastersInv, Lease, NEW n \in Node, Reconfig(n), Tolerated(lapses')
    PROVE  Lease'
<1> DEFINE l == m[n]
<1>1. l \in Lock /\ Sound(l) /\ Timely(n, l)
  BY Known
<1>2. l.up /\ l.call = "none" /\ Quiet(l) /\ file' = file
  BY <1>1 DEF Reconfig, Idle, Sound
<1>3. PICK p \in Periods, h \in Holds :
        /\ m' = [m EXCEPT ![n] =
                    IF l.have /\ h # l.hold
                    THEN [l EXCEPT !.hold = h, !.call = "utime",
                                   !.by = "periods", !.rearm = p]
                    ELSE SetupTimer([l EXCEPT !.hold = h], p)]
        /\ lapses' = lapses \union
             (IF p > 0 /\ l.last = Never /\ l.have THEN {"postponed"}
              ELSE IF p > 0 /\ l.last > p THEN {"wrapped"} ELSE {})
  BY DEF Reconfig
<1>4. p \in Nat /\ Short(p) /\ l.last \in Nat \cup {Never}
  BY <1>1, Constants DEF Lock
<1>5. "postponed" \notin lapses' /\ "wrapped" \notin lapses'
  BY DEF Tolerated
<1>6. p = 0 \/ ~(l.last = Never /\ l.have)
  BY SMTT(30), <1>3, <1>4, <1>5
<1>7. p = 0 \/ l.last <= p
  <2>1. CASE l.last = Never
    BY SMTT(30), <1>4, <2>1 DEF Never
  <2>2. CASE l.last \in Nat /\ l.last # Never
    BY SMTT(30), <1>3, <1>4, <1>5, <2>2
  <2> QED
    BY <1>4, <2>1, <2>2
<1>8. CASE l.have /\ h # l.hold
  <2> DEFINE k == [l EXCEPT !.hold = h, !.call = "utime", !.by = "periods",
                            !.rearm = p]
  <2>1. /\ k.url = l.url /\ k.up = l.up /\ k.in = l.in /\ k.every = l.every
        /\ k.rearm = p /\ k.call = "utime" /\ k.last = l.last /\ k.have = l.have
    BY <1>1 DEF Lock
  <2>2. m' = [m EXCEPT ![n] = k]
    BY <1>3, <1>8
  <2> HIDE DEF k
  <2>3. Timely(n, k)
    BY <1>1, <1>4, <1>7, <2>1 DEF Timely
  <2> QED
    BY <1>2, <2>1, <2>2, <2>3, SameLease
<1>9. CASE ~(l.have /\ h # l.hold)
  <2> DEFINE w == [l EXCEPT !.hold = h]
             k == SetupTimer(w, p)
  <2>1. w \in Lock
    BY <1>1 DEF Lock
  <2>2. /\ w.url = l.url /\ w.up = l.up /\ w.in = l.in /\ w.every = l.every
        /\ w.rearm = l.rearm /\ w.call = l.call /\ w.by = l.by /\ w.last = l.last
        /\ w.have = l.have /\ w.enabled = l.enabled /\ w.pid = l.pid
    BY <1>1 DEF Lock
  <2>3. m' = [m EXCEPT ![n] = k]
    BY ZenonT(60), <1>3, <1>9
  <2> HIDE DEF w
  <2>4. Timely(n, w) /\ Sound(w) /\ w.up /\ w.call = "none"
    BY <1>1, <1>2, <2>2 DEF Timely, Sound, Quiet
  <2>5. /\ Timely(n, k)
        /\ w.have /\ (p = 0 \/ w.last # Never) => k.in = w.in
    BY <1>4, <1>7, <2>1, <2>2, <2>4, SetupTimerTimely
  <2>6. k.have = w.have
    BY <1>4, <2>1, <2>4, SetupTimerSound DEF Keeps
  <2> HIDE DEF k
  <2>7. k.have => k.in = l.in
    BY <1>6, <2>2, <2>5, <2>6
  <2> QED
    BY <1>2, <2>2, <2>3, <2>5, <2>6, <2>7, SameLease
<1> QED
  BY <1>8, <1>9

\* A daemon that is taken off the list keeps its lease until it has ended.
LEMMA RetireLease ==
    ASSUME MastersInv, Lease, NEW n \in Node, Retire(n)
    PROVE  Lease'
<1> DEFINE l == m[n]
           w == Stop(l)
           k == [w EXCEPT !.pid = "leaves"]
<1>1. l \in Lock /\ Timely(n, l)
  BY Known
<1>2. m' = [m EXCEPT ![n] = k] /\ file' = file
  BY DEF Retire
<1>3. /\ w \in Lock /\ KeepsTimes(l, w) /\ w.call = l.call /\ w.have = l.have
      /\ w.by = l.by
  BY <1>1, StopFields
<1> HIDE DEF w
<1>4. KeepsTimes(w, k) /\ k.call = w.call /\ k.have = w.have /\ k.by = w.by
  BY <1>3 DEF Lock, KeepsTimes
<1> HIDE DEF k
<1>5. KeepsTimes(l, k) /\ k.call = l.call /\ k.by = l.by
  BY <1>3, <1>4 DEF KeepsTimes
<1>6. Timely(n, k) /\ k.have = l.have /\ k.in = l.in
  BY <1>1, <1>3, <1>4, <1>5, TimelyKept DEF KeepsTimes
<1> QED
  BY <1>2, <1>6, SameLease

\* Unlinking the lock of a daemon that is removed is no lapse only if there is no
\* file, or if it is the lock of the one who unlinks it.
LEMMA EndLease ==
    ASSUME MastersInv, Lease, NEW n \in Node, Remove(n) \/ Retired(n) \/ Crash(n),
           Tolerated(lapses')
    PROVE  Lease'
<1> DEFINE l == m[n]
           k == Down(l)
<1>1. Shape /\ l \in Lock /\ Timely(n, l) /\ l.url = TheUrl /\ (l.have => Alone(n))
  BY Known
<1>2. m' = [m EXCEPT ![n] = k]
  BY DEF Remove, Retired, Crash
<1>3. /\ k.up = FALSE /\ k.have = FALSE /\ k.call = "none" /\ k.by = "app"
      /\ k.url = l.url /\ k.rearm = 0
  BY <1>1 DEF Lock, Down
<1> HIDE DEF k
<1>4. Timely(n, k) /\ Leased(k, file'[TheUrl])
  BY <1>1, <1>3, ZeroIsShort DEF Timely, Leased
<1>5. CASE Crash(n)
  <2>1. file' = file
    BY <1>5 DEF Crash
  <2> QED
    BY <1>2, <1>3, <1>4, <2>1, IdleLease
<1>6. CASE Remove(n)
  <2>1. lapses' = lapses \union (IF file[TheUrl].there THEN {"removed"} ELSE {})
    BY <1>1, <1>6 DEF Remove
  <2>2. ~file[TheUrl].there
    BY <2>1 DEF Tolerated
  <2>3. Alone(n)
    BY <2>2, NoHolder DEF Alone
  <2> QED
    BY <1>1, <1>2, <1>4, <2>3, OneLease
<1>7. CASE Retired(n)
  <2>1. lapses' = lapses \union (IF file[TheUrl].there /\ ~l.have
                                 THEN {"removed"} ELSE {})
    BY <1>1, <1>7 DEF Retired
  <2>2. ~file[TheUrl].there \/ l.have
    BY <2>1 DEF Tolerated
  <2>3. Alone(n)
    BY <1>1, <2>2, NoHolder DEF Alone
  <2> QED
    BY <1>1, <1>2, <1>4, <2>3, OneLease
<1> QED
  BY <1>5, <1>6, <1>7

\* A master starts with a short period and no lease.
LEMMA BootLease ==
    ASSUME MastersInv, Lease, NEW n \in Node, Boot(n)
    PROVE  Lease'
<1> DEFINE u == m[n].url
           h == m[n].hold
<1>1. u = TheUrl /\ u \in Urls /\ h \in Holds
  BY Known DEF Lock
<1>2. PICK p \in Periods : m' = [m EXCEPT ![n] = Started(u, p, h)]
  BY DEF Boot
<1>3. p \in Nat /\ Short(p)
  BY Constants
<1> HIDE DEF u, h
<1> DEFINE k == Started(u, p, h)
<1>4. /\ k.have = FALSE /\ k.url = u /\ k.in = p /\ k.every = p
      /\ k.rearm = 0 /\ k.call \in {"none", "stat"} /\ k.by = "app"
  BY DEF Started, Start, AcquireLock
<1>5. m' = [m EXCEPT ![n] = k] /\ file' = file
  BY <1>2 DEF Boot
<1> HIDE DEF k
<1>6. Timely(n, k) /\ ~k.have
  BY <1>1, <1>3, <1>4, ZeroIsShort DEF Timely
<1> QED
  BY <1>5, <1>6, IdleLease

\* Time passes only while no timer is due, so that the timer of a holder and the
\* lease lose a second each.
LEMMA TickLease ==
    ASSUME MastersInv, Lease, Tick
    PROVE  Lease'
<1>0. Shape /\ Pass
  BY DEF MastersInv, Tick
<1>1. /\ file[TheUrl] \in LockFile
      /\ file'[TheUrl] = [file[TheUrl] EXCEPT !.left = Less(file[TheUrl].left)]
  BY <1>0, Constants DEF Shape, Pass
<1>2. /\ file[TheUrl].left \in Nat
      /\ file'[TheUrl].there = file[TheUrl].there
      /\ file'[TheUrl].left = Less(file[TheUrl].left)
  BY <1>1 DEF LockFile
<1>3. ASSUME NEW n \in Node
      PROVE  /\ Timely(n, m'[n]) /\ Leased(m'[n], file'[TheUrl])
             /\ m'[n].have = m[n].have
  <2> DEFINE l == m[n]
             k == m'[n]
  <2>1. l \in Lock /\ Sound(l) /\ Timely(n, l) /\ Leased(l, file[TheUrl])
    BY Known
  <2>2. /\ Keeps(l, k) /\ k.call = l.call /\ k.by = l.by /\ k.rearm = l.rearm
        /\ k.every = l.every /\ k.in = Less(l.in)
    BY <1>0, PassFields
  <2>3. l.call = "none" /\ (l.up => l.in # 0)
    BY <2>1 DEF Tick, Prompt, Sound
  <2>4. l.by # "periods"
    BY <2>1, <2>3 DEF Timely
  <2> HIDE DEF l, k
  <2>5. l.up => Short(k.in)
    <3> SUFFICES ASSUME l.up
                 PROVE  Short(k.in)
      OBVIOUS
    <3>1. l.in \in Nat /\ Short(l.in)
      BY <2>1 DEF Timely, Short
    <3>2. k.in \in Nat /\ k.in <= l.in
      BY SMTT(30), <2>2, <3>1 DEF Less
    <3> QED
      BY <3>1, <3>2, Sooner
  <2>6. Timely(n, k)
    BY <2>1, <2>2, <2>3, <2>4, <2>5 DEF Timely, Keeps
  <2>7. Leased(k, file'[TheUrl])
    <3> SUFFICES ASSUME k.have
                 PROVE  file'[TheUrl].there /\ file'[TheUrl].left > k.in + MaxSkew
      BY DEF Leased
    <3>1. l.have /\ l.up
      BY <2>1, <2>2 DEF Keeps, Sound, Quiet
    <3>2. l.in \in Nat /\ l.in # 0
      BY <2>1, <2>3, <3>1 DEF Timely, Short
    <3>3. file[TheUrl].there /\ file[TheUrl].left > l.in + MaxSkew
      BY <2>1, <3>1 DEF Leased
    <3>4. MaxSkew \in Nat
      BY Constants
    <3>5. k.in = l.in - 1 /\ file'[TheUrl].left = file[TheUrl].left - 1
      BY SMTT(30), <1>2, <2>2, <3>2, <3>3, <3>4 DEF Less
    <3> QED
      BY SMTT(30), <1>2, <3>2, <3>3, <3>4, <3>5
  <2>8. k.have = l.have
    BY <2>2 DEF Keeps
  <2> QED
    BY <2>6, <2>7, <2>8 DEF k, l
<1>4. \A i, j \in Node : m'[i].have /\ m'[j].have => i = j
  BY <1>3 DEF Lease
<1> QED
  BY <1>3, <1>4 DEF Lease, Timely, Leased

----------------------------------------------------------------------------
(* The theorems about the lease.                                           *)

\* All masters are down at first, and configured alike.
LEMMA LeaseInitially == Init => LeaseInv
<1> SUFFICES ASSUME Init
             PROVE  Lease
  BY DEF LeaseInv
<1> DEFINE u == CHOOSE x \in Urls : TRUE
           h == CHOOSE x \in Holds : TRUE
           s == Started(u, 0, h)
           k == Down(s)
<1>0. u = TheUrl
  BY DEF TheUrl
<1>1. u \in Urls /\ h \in Holds /\ 0 \in Nat
  BY HALockAssumption
<1>2. \A n \in Node : m[n] = k
  BY DEF Init
<1> HIDE DEF u, h
<1>3. s \in Lock /\ s.url = u
  <2>1. s \in Lock
    BY <1>1, StartedFields, Zenon
  <2>2. s.url = u
    BY DEF Started, Start, AcquireLock
  <2> QED
    BY <2>1, <2>2
<1> HIDE DEF s
<1>4. /\ k.up = FALSE /\ k.have = FALSE /\ k.call = "none" /\ k.by = "app"
      /\ k.url = TheUrl /\ k.rearm = 0
  BY <1>0, <1>3 DEF Lock, Down
<1> HIDE DEF k
<1>5. \A n \in Node : Timely(n, k)
  BY <1>4, ZeroIsShort DEF Timely
<1> QED
  BY <1>2, <1>4, <1>5 DEF Lease, Leased

\* No step takes a lapse back.
LEMMA LapsesStay == MastersInv /\ [Next]_vars => lapses \subseteq lapses'
<1> SUFFICES ASSUME [Next]_vars
             PROVE  lapses \subseteq lapses'
  OBVIOUS
<1>1. ASSUME NEW n \in Node, Call(n) \/ Fails(n)
      PROVE  lapses \subseteq lapses'
  BY <1>1 DEF Call, Stat, Unlink, Creat, Link, Utime, Verify, Fails
<1>2. ASSUME NEW n \in Node,
             \/ Poll(n) \/ DoStart(n) \/ Exits(n) \/ DaemonOff(n) \/ DaemonOn(n)
             \/ Move(n) \/ Remove(n) \/ Retire(n) \/ Retired(n) \/ Boot(n)
             \/ Crash(n) \/ OrphanEnds(n)
      PROVE  lapses \subseteq lapses'
  BY <1>2 DEF Poll, DoStart, Exits, DaemonOff, DaemonOn, Move, Remove, Retire,
     Retired, Boot, Crash, OrphanEnds
<1>3. ASSUME NEW n \in Node, Reconfig(n)
      PROVE  lapses \subseteq lapses'
  BY <1>3 DEF Reconfig
<1>4. CASE (\E u \in Urls : Preen(u)) \/ Tick \/ TickLate \/ UNCHANGED vars
  BY <1>4 DEF Preen, Tick, TickLate, vars
<1> QED
  BY <1>1, <1>2, <1>3, <1>4 DEF Next

\* One case for each action; Move, Preen and TickLate are lapses.
LEMMA LeaseStep == MastersInv /\ LeaseInv /\ [Next]_vars => LeaseInv'
<1> SUFFICES ASSUME MastersInv, LeaseInv, [Next]_vars, Tolerated(lapses')
             PROVE  Lease'
  BY DEF LeaseInv, Tolerated
<1>1. Lease
  BY LapsesStay DEF LeaseInv, Tolerated
<1>2. ASSUME NEW n \in Node, Call(n) \/ Fails(n)
      PROVE  Lease'
  BY <1>1, <1>2, StatLease, UnlinkLease, CreatLease, LinkLease, UtimeLease,
     VerifyLease, FailsLease DEF Call
<1>3. ASSUME NEW n \in Node,
             \/ Poll(n) \/ DoStart(n) \/ Exits(n) \/ DaemonOff(n) \/ DaemonOn(n)
             \/ Reconfig(n) \/ Remove(n) \/ Retire(n) \/ Retired(n) \/ Boot(n)
             \/ Crash(n)
      PROVE  Lease'
  BY <1>1, <1>3, PollLease, DoStartLease, ExitsLease, DaemonOffLease,
     DaemonOnLease, ReconfigLease, RetireLease, EndLease, BootLease
<1>4. ASSUME NEW n \in Node, Move(n)
      PROVE  FALSE
  BY <1>4 DEF Move, Tolerated
<1>5. ASSUME NEW u \in Urls, Preen(u) \/ TickLate
      PROVE  FALSE
  <2>1. "preened" \in lapses' \/ "late" \in lapses'
    BY <1>5 DEF Preen, TickLate
  <2> QED
    BY <2>1 DEF Tolerated
<1>6. CASE Tick
  BY <1>1, <1>6, TickLease
<1>7. CASE UNCHANGED vars \/ \E n \in Node : OrphanEnds(n)
  BY <1>1, <1>7 DEF vars, OrphanEnds, Lease, Timely, Leased
<1> QED
  BY <1>2, <1>3, <1>4, <1>5, <1>6, <1>7, Constants DEF Next

\* While the lease is kept, the lock file of every holder outlives its timer by
\* more than the clocks differ: the invariant under the next two theorems.
THEOREM LeasesAreKept == Spec => []LeaseInv
<1>1. Init => LeaseInv
  BY LeaseInitially
<1>2. MastersInv /\ LeaseInv /\ [Next]_vars => LeaseInv'
  BY LeaseStep
<1> QED
  BY <1>1, <1>2, MastersAreSound, PTL DEF Spec

\* CondorLockFile gives the lock to one master at a time, however many masters
\* there are, whichever of them crash or restart and whichever calls fail, as long
\* as hold times exceed poll periods by more than the clocks differ, no callback is
\* late, and none of the other lapses has happened.
THEOREM LeaseIsExclusive == Spec => []OneHolder
<1>1. LeaseInv => OneHolder
  BY DEF LeaseInv, Lease, Tolerated, OneHolder
<1> QED
  BY <1>1, LeasesAreKept, PTL

----------------------------------------------------------------------------
(* Daemons whose master has ended: nobody renews the lease they run under, *)
(* nor gives it back, so that it lasts until it is found expired.          *)

\* A daemon is left behind only by a master that ends alone, and then by one that
\* had it.
LEMMA OrphansChange ==
    ASSUME [Next]_vars
    PROVE  \/ orphans' \subseteq orphans
           \/ \E n \in Node : /\ Crash(n) /\ m[n].pid # "none"
                              /\ orphans' = orphans \union {n}
<1>1. ASSUME NEW n \in Node, Call(n) \/ Fails(n)
      PROVE  orphans' = orphans
  BY <1>1 DEF Call, Stat, Unlink, Creat, Link, Utime, Verify, Fails
<1>2. ASSUME NEW n \in Node,
             \/ Poll(n) \/ DoStart(n) \/ Exits(n) \/ DaemonOff(n) \/ DaemonOn(n)
             \/ Reconfig(n) \/ Move(n) \/ Remove(n) \/ Retire(n) \/ Retired(n)
             \/ Boot(n)
      PROVE  orphans' = orphans
  BY <1>2 DEF Poll, DoStart, Exits, DaemonOff, DaemonOn, Reconfig, Move, Remove,
     Retire, Retired, Boot
<1>3. CASE (\E u \in Urls : Preen(u)) \/ Tick \/ TickLate \/ UNCHANGED vars
  BY <1>3 DEF Preen, Tick, TickLate, vars
<1>4. ASSUME NEW n \in Node, Crash(n) \/ OrphanEnds(n)
      PROVE  \/ orphans' \subseteq orphans
             \/ /\ Crash(n) /\ m[n].pid # "none"
                /\ orphans' = orphans \union {n}
  BY <1>4 DEF Crash, OrphanEnds
<1> QED
  BY <1>1, <1>2, <1>3, <1>4 DEF Next

\* What a call returns has the lock if the caller had it.
LEMMA ReturnHave ==
    ASSUME MastersInv, NEW n \in Node, m[n].call # "none"
    PROVE  /\ Return(m[n]).have = m[n].have
           /\ m[n].call \in Renewing => ~Return(LockLost(m[n])).have
<1> DEFINE l == m[n]
           w == LockLost(l)
<1>1. l \in Lock /\ Sound(l)
  BY DEF MastersInv, Shape
<1>2. l.up /\ Quiet(l)
  BY <1>1 DEF Sound
<1>3. Return(l).have = l.have
  BY <1>1, <1>2, ReturnSound DEF Keeps
<1>4. ASSUME l.call \in Renewing
      PROVE  ~Return(w).have
  <2>1. l.have /\ l.enabled
    BY <1>1, <1>4 DEF Sound, Quiet
  <2>2. /\ w \in Lock /\ KeepsTimes(l, w) /\ w.by = l.by
        /\ w.have = FALSE /\ w.pid = IF l.pid = "runs" THEN "stops" ELSE l.pid
    BY <1>1, LockLostFields
  <2> HIDE DEF w, l
  <2>3. Quiet(w) /\ w.up
    BY <1>2, <2>2 DEF Quiet, KeepsTimes
  <2> QED
    BY <2>2, <2>3, ReturnSound DEF Keeps
<1> QED
  BY <1>3, <1>4

\* A step of master n gives it the record k, which has the lock only if it had it.
Gains(n) == \E k : m' = [m EXCEPT ![n] = k] /\ (k.have => m[n].have)

\* The calls acquire nothing but by the link that is won.
LEMMA CallGains ==
    ASSUME MastersInv, NEW n \in Node, Call(n) \/ Fails(n)
    PROVE  Gains(n) \/ (Link(n) /\ ~file[m[n].url].there)
<1> DEFINE l == m[n]
<1>1. m \in [Node -> Lock] /\ l \in Lock /\ Sound(l)
  BY DEF MastersInv, Shape
<1>2. l.call # "none" => Return(l).have = l.have
  BY ReturnHave
<1>3. CASE Stat(n)
  <2>1. \/ m' = [m EXCEPT ![n] = [l EXCEPT !.call = "creat"]]
        \/ m' = [m EXCEPT ![n] = [l EXCEPT !.call = "unlink"]]
        \/ m' = [m EXCEPT ![n] = Return(l)]
    BY <1>3 DEF Stat
  <2>2. /\ [l EXCEPT !.call = "creat"].have = l.have
        /\ [l EXCEPT !.call = "unlink"].have = l.have
    BY <1>1 DEF Lock
  <2>3. l.call # "none"
    BY <1>3 DEF Stat
  <2> QED
    BY <1>2, <2>1, <2>2, <2>3 DEF Gains
<1>4. CASE Unlink(n)
  <2>1. m' = [m EXCEPT ![n] = [l EXCEPT !.call = "creat"]]
    BY <1>4 DEF Unlink
  <2>2. [l EXCEPT !.call = "creat"].have = l.have
    BY <1>1 DEF Lock
  <2> QED
    BY <2>1, <2>2 DEF Gains
<1>5. CASE Creat(n)
  <2> DEFINE e == l.hold + Skew[n]
             k == [l EXCEPT !.call = "link", !.expire = e]
  <2>1. m' = [m EXCEPT ![n] = k]
    BY <1>1, <1>5 DEF Creat
  <2>2. k.have = l.have
    BY <1>1 DEF Lock
  <2> QED
    BY <2>1, <2>2 DEF Gains
<1>6. CASE Link(n)
  <2>1. CASE file[l.url].there
    <3>1. m' = [m EXCEPT ![n] = Return(l)] /\ l.call # "none"
      BY <1>6, <2>1 DEF Link
    <3> QED
      BY <1>2, <3>1 DEF Gains
  <2> QED
    BY <1>6, <2>1
<1>7. CASE Utime(n)
  <2> DEFINE e == l.hold + Skew[n]
             k == [l EXCEPT !.call = "verify", !.expire = e]
  <2>1. m' = [m EXCEPT ![n] = k] \/ m' = [m EXCEPT ![n] = Return(LockLost(l))]
    BY <1>1, <1>7 DEF Utime
  <2>2. k.have = l.have
    BY <1>1 DEF Lock
  <2>3. ~Return(LockLost(l)).have
    BY <1>7, ReturnHave DEF Utime, Renewing
  <2> QED
    BY <2>1, <2>2, <2>3 DEF Gains
<1>8. CASE Verify(n)
  <2>1. m' = [m EXCEPT ![n] = Return(l)] \/ m' = [m EXCEPT ![n] = Return(LockLost(l))]
    BY <1>8 DEF Verify
  <2>2. l.call # "none" /\ ~Return(LockLost(l)).have
    BY <1>8, ReturnHave DEF Verify, Renewing
  <2> QED
    BY <1>2, <2>1, <2>2 DEF Gains
<1>9. CASE Fails(n)
  <2> DEFINE w == IF l.by = "app" THEN [l EXCEPT !.enabled = FALSE] ELSE l
  <2>1. m' = [m EXCEPT ![n] = Return(w)]
    BY <1>9 DEF Fails
  <2>2. l.up /\ Quiet(l) /\ ~l.have
    BY <1>1, <1>9 DEF Fails, Sound, Acquiring
  <2>3. w \in Lock
    BY ZenonT(60), <1>1 DEF Lock
  <2>4. /\ w.have = l.have /\ w.up = l.up /\ w.by = l.by /\ w.pid = l.pid
        /\ w.rearm = l.rearm
    BY <1>1 DEF Lock
  <2> HIDE DEF w
  <2>5. Quiet(w) /\ w.up
    BY <2>2, <2>4 DEF Quiet
  <2>6. ~Return(w).have
    BY <2>2, <2>3, <2>4, <2>5, ReturnSound DEF Keeps
  <2> QED
    BY <2>1, <2>6 DEF Gains
<1> QED
  BY <1>3, <1>4, <1>5, <1>6, <1>7, <1>8, <1>9 DEF Call

\* Nor do the callbacks, and the ends and starts of masters.
LEMMA CallbackGains ==
    ASSUME MastersInv, NEW n \in Node,
           \/ Poll(n) \/ DoStart(n) \/ Exits(n) \/ DaemonOff(n) \/ DaemonOn(n)
           \/ Reconfig(n) \/ Move(n) \/ Remove(n) \/ Retire(n) \/ Retired(n)
           \/ Boot(n) \/ Crash(n)
    PROVE  Gains(n)
<1> DEFINE l == m[n]
<1>1. l \in Lock /\ Sound(l) /\ Quiet(l)
  BY DEF MastersInv, Shape, Sound
<1>2. ASSUME NEW w \in Lock, w.up = l.up, w.call = l.call, Quiet(w), w.have = l.have,
             Idle(n), m' = [m EXCEPT ![n] = Start(w)]
      PROVE  Gains(n)
  <2>1. Start(w).have = w.have
    BY <1>2, StartSound DEF Idle
  <2> QED
    BY <1>2, <2>1 DEF Gains
<1>3. CASE Poll(n)
  <2>1. m' = [m EXCEPT ![n] = DoPoll(l, l.every)] /\ l.up /\ l.call = "none"
    BY <1>3 DEF Poll, Idle
  <2>2. l.every \in Int
    BY SMTT(30), <1>1 DEF Lock
  <2>3. DoPoll(l, l.every).have = l.have
    BY <1>1, <2>1, <2>2, DoPollSound DEF Keeps
  <2> QED
    BY <2>1, <2>3 DEF Gains
<1>4. CASE DoStart(n)
  <2>1. m' = [m EXCEPT ![n] = Start(l)] /\ Idle(n)
    BY <1>4 DEF DoStart
  <2> QED
    BY <1>1, <1>2, <2>1
<1>5. CASE DaemonOn(n)
  <2> DEFINE w == [l EXCEPT !.on_hold = FALSE]
  <2>1. m' = [m EXCEPT ![n] = Start(w)] /\ Idle(n)
    BY <1>5 DEF DaemonOn
  <2>2. w \in Lock
    BY <1>1 DEF Lock
  <2>3. /\ w.up = l.up /\ w.call = l.call /\ w.have = l.have /\ w.pid = l.pid
        /\ w.enabled = l.enabled /\ w.by = l.by /\ w.rearm = l.rearm
    BY <1>1 DEF Lock
  <2> HIDE DEF w
  <2>4. Quiet(w)
    BY <1>1, <2>3 DEF Quiet
  <2> QED
    BY <1>2, <2>1, <2>2, <2>3, <2>4
<1>6. CASE DaemonOff(n)
  <2> DEFINE w == [l EXCEPT !.on_hold = TRUE]
  <2>1. m' = [m EXCEPT ![n] = Stop(w)]
    BY <1>6 DEF DaemonOff
  <2>2. w \in Lock /\ w.have = l.have
    BY <1>1 DEF Lock
  <2> HIDE DEF w
  <2>3. Stop(w).have = l.have
    BY <2>2, StopFields
  <2> QED
    BY <2>1, <2>3 DEF Gains
<1>7. CASE Retire(n)
  <2> DEFINE w == Stop(l)
             k == [w EXCEPT !.pid = "leaves"]
  <2>1. m' = [m EXCEPT ![n] = k]
    BY <1>7 DEF Retire
  <2>2. w \in Lock /\ w.have = l.have
    BY <1>1, StopFields
  <2> HIDE DEF w
  <2>3. k.have = w.have
    BY <2>2 DEF Lock
  <2> QED
    BY <2>1, <2>2, <2>3 DEF Gains
<1>8. CASE Exits(n)
  <2>1. PICK held \in BOOLEAN :
          m' = [m EXCEPT ![n] = [l EXCEPT !.enabled = FALSE, !.have = FALSE,
                                          !.pid = "none", !.on_hold = held,
                                          !.start = ~held]]
    BY <1>1, <1>8 DEF Exits, Lock
  <2> DEFINE k == [l EXCEPT !.enabled = FALSE, !.have = FALSE, !.pid = "none",
                            !.on_hold = held, !.start = ~held]
  <2>2. k.have = FALSE
    BY <1>1 DEF Lock
  <2> QED
    BY <2>1, <2>2 DEF Gains
<1>9. CASE Reconfig(n)
  <2>1. PICK p \in Periods, h \in Holds :
          m' = [m EXCEPT ![n] =
                  IF l.have /\ h # l.hold
                  THEN [l EXCEPT !.hold = h, !.call = "utime",
                                 !.by = "periods", !.rearm = p]
                  ELSE SetupTimer([l EXCEPT !.hold = h], p)]
    BY ZenonT(60), <1>9 DEF Reconfig
  <2>2. l.have
    BY <1>1, <1>9 DEF Quiet, Reconfig
  <2> QED
    BY <2>1, <2>2 DEF Gains
<1>10. CASE Move(n)
  <2>1. m' = [m EXCEPT ![n] = m'[n]] /\ l.have
    <3>1. \E k : m' = [m EXCEPT ![n] = k]
      BY <1>10 DEF Move
    <3> QED
      BY <1>1, <1>10, <3>1 DEF Quiet, Move, MastersInv, Shape
  <2> QED
    BY <2>1 DEF Gains
<1>11. CASE Remove(n) \/ Retired(n) \/ Crash(n)
  <2>1. m' = [m EXCEPT ![n] = Down(l)]
    BY <1>11 DEF Remove, Retired, Crash
  <2>2. Down(l).have = FALSE
    BY <1>1, DownFields
  <2> QED
    BY <2>1, <2>2 DEF Gains
<1>12. CASE Boot(n)
  <2>1. PICK p \in Periods : m' = [m EXCEPT ![n] = Started(l.url, p, l.hold)]
    BY <1>12 DEF Boot
  <2>2. Started(l.url, p, l.hold).have = FALSE
    BY DEF Started, Start, AcquireLock
  <2> QED
    BY <2>1, <2>2 DEF Gains
<1> QED
  BY <1>3, <1>4, <1>5, <1>6, <1>7, <1>8, <1>9, <1>10, <1>11, <1>12

\* The lock is won by a link that finds no file, and by nothing else.
LEMMA LocksAreLinked ==
    ASSUME MastersInv, [Next]_vars, NEW i \in Node, m'[i].have, ~m[i].have
    PROVE  Link(i) /\ ~file[m[i].url].there
<1>0. m \in [Node -> Lock] /\ Shape
  BY DEF MastersInv, Shape
<1>1. ASSUME NEW n \in Node, Gains(n)
      PROVE  FALSE
  BY <1>0, <1>1 DEF Gains
<1>2. ASSUME NEW n \in Node, Link(n), ~file[m[n].url].there
      PROVE  Link(i) /\ ~file[m[i].url].there
  <2>1. \E k : m' = [m EXCEPT ![n] = k]
    BY <1>2 DEF Link
  <2>2. i = n
    BY <1>0, <2>1
  <2> QED
    BY <1>2, <2>2
<1>3. CASE (\E u \in Urls : Preen(u)) \/ (\E n \in Node : OrphanEnds(n))
           \/ UNCHANGED vars
  BY <1>3 DEF Preen, OrphanEnds, vars
<1>4. CASE Tick \/ TickLate
  BY <1>0, <1>4, PassFields DEF Tick, TickLate, Keeps
<1>5. ASSUME NEW n \in Node, Call(n) \/ Fails(n)
      PROVE  Link(i) /\ ~file[m[i].url].there
  BY <1>1, <1>2, <1>5, CallGains
<1>6. ASSUME NEW n \in Node,
             \/ Poll(n) \/ DoStart(n) \/ Exits(n) \/ DaemonOff(n) \/ DaemonOn(n)
             \/ Reconfig(n) \/ Move(n) \/ Remove(n) \/ Retire(n) \/ Retired(n)
             \/ Boot(n) \/ Crash(n)
      PROVE  FALSE
  BY <1>1, <1>6, CallbackGains
<1> QED
  BY <1>3, <1>4, <1>5, <1>6 DEF Next

\* The file of a lock that nobody has is removed only by those who find it expired,
\* or else by a lapse.
LEMMA FilesLast ==
    ASSUME MastersInv, Lease, [Next]_vars, lapses' \subseteq {"idle", "disabled"},
           \A n \in Node : ~m[n].have, file[TheUrl].there, orphans # {}
    PROVE  file'[TheUrl].there
<1>0. /\ Shape /\ TheUrl \in Urls /\ file \in [Urls -> LockFile]
      /\ \A n \in Node : m[n].url = TheUrl
  BY Constants DEF MastersInv, Shape, Lease, Timely
<1>1. ASSUME NEW n \in Node,
             Stat(n) \/ Creat(n) \/ Verify(n) \/ Fails(n) \/ Poll(n) \/ DoStart(n)
      PROVE  file' = file
  BY <1>1 DEF Stat, Creat, Verify, Fails, Poll, DoStart
<1>2. ASSUME NEW n \in Node,
             \/ DaemonOff(n) \/ DaemonOn(n) \/ Reconfig(n) \/ Retire(n) \/ Boot(n)
             \/ Crash(n) \/ OrphanEnds(n)
      PROVE  file' = file
  BY <1>2 DEF DaemonOff, DaemonOn, Reconfig, Retire, Boot, Crash, OrphanEnds
<1>3. ASSUME NEW n \in Node, Exits(n)
      PROVE  file' = file
  BY <1>3 DEF Exits
<1>4. ASSUME NEW n \in Node, Unlink(n)
      PROVE  file' = file
  <2> SUFFICES ASSUME file' # file
               PROVE  FALSE
    OBVIOUS
  <2>1. "stale" \in lapses' \/ "outlived" \in lapses'
    BY <1>0, <1>4 DEF Unlink
  <2> QED
    BY <2>1
<1>5. ASSUME NEW n \in Node, Link(n)
      PROVE  file' = file
  BY <1>0, <1>5 DEF Link
<1>6. ASSUME NEW n \in Node, Utime(n)
      PROVE  FALSE
  <2>1. m[n].have
    BY <1>6 DEF Utime, MastersInv, Sound, Renewing
  <2> QED
    BY <2>1
<1>7. ASSUME NEW n \in Node, Remove(n) \/ Retired(n) \/ Move(n)
      PROVE  FALSE
  <2>1. "removed" \in lapses' \/ "moved" \in lapses'
    BY <1>0, <1>7 DEF Remove, Retired, Move
  <2> QED
    BY <2>1
<1>8. ASSUME NEW u \in Urls, Preen(u)
      PROVE  FALSE
  BY <1>8 DEF Preen
<1>9. CASE Tick \/ TickLate
  <2>0. Pass
    BY <1>9 DEF Tick, TickLate
  <2>1. file'[TheUrl] = [file[TheUrl] EXCEPT !.left = Less(file[TheUrl].left)]
    BY <1>0, <2>0 DEF Pass
  <2>2. file[TheUrl] \in LockFile
    BY <1>0
  <2> QED
    BY <2>1, <2>2 DEF LockFile
<1>10. CASE UNCHANGED vars
  BY <1>10 DEF vars
<1> QED
  BY <1>1, <1>2, <1>3, <1>4, <1>5, <1>6, <1>7, <1>8, <1>9, <1>10 DEF Next, Call

\* A daemon that is left behind is alone, and the lock it runs under is still there.
LeftAlone ==
    /\ \A n, k \in orphans : n = k
    /\ orphans # {} => file[TheUrl].there /\ \A n \in Node : ~m[n].have

OrphanInv == lapses \subseteq {"idle", "disabled"} => LeftAlone

\* The one who leaves a daemon behind had the lock, so that no other daemon was left
\* behind before; then nobody has the lock while its file is there.
LEMMA OrphanStep ==
    ASSUME MastersInv, LeaseInv, OrphanInv, [Next]_vars
    PROVE  OrphanInv'
<1> SUFFICES ASSUME lapses' \subseteq {"idle", "disabled"}
             PROVE  LeftAlone'
  BY DEF OrphanInv
<1>1. lapses \subseteq {"idle", "disabled"}
  BY LapsesStay
<1>2. Lease /\ LeftAlone
  BY <1>1 DEF LeaseInv, Tolerated, OrphanInv
<1>3. CASE orphans' \subseteq orphans /\ orphans' # {}
  <2>1. /\ orphans # {} /\ file[TheUrl].there /\ \A n \in Node : ~m[n].have
        /\ \A n, k \in orphans : n = k
    BY <1>2, <1>3 DEF LeftAlone
  <2>2. file'[TheUrl].there
    BY <1>2, <2>1, FilesLast
  <2>3. ASSUME NEW i \in Node, m'[i].have
        PROVE  FALSE
    <3>1. ~file[m[i].url].there
      BY <2>1, <2>3, LocksAreLinked
    <3>2. m[i].url = TheUrl
      BY <1>2 DEF Lease, Timely
    <3> QED
      BY <2>1, <3>1, <3>2
  <2>4. \A n, k \in orphans' : n = k
    BY <1>3, <2>1
  <2> QED
    BY <2>2, <2>3, <2>4 DEF LeftAlone
<1>4. ASSUME NEW n \in Node, Crash(n), m[n].pid # "none", orphans' = orphans \union {n}
      PROVE  LeftAlone'
  <2>1. m[n].have
    BY <1>1, <1>4 DEF MastersInv, Fits
  <2>2. orphans = {} /\ file[TheUrl].there
    BY <1>2, <2>1 DEF LeftAlone, Lease, Leased
  <2>3. \A i \in Node : m[i].have => i = n
    BY <1>2, <2>1 DEF Lease
  <2>4. m' = [m EXCEPT ![n] = Down(m[n])] /\ file' = file /\ m \in [Node -> Lock]
    BY <1>4 DEF Crash, MastersInv, Shape
  <2>5. ~Down(m[n]).have
    BY <2>4, DownFields
  <2>6. \A i \in Node : ~m'[i].have
    BY <2>3, <2>4, <2>5
  <2>7. file'[TheUrl].there /\ orphans' = {n}
    BY <1>4, <2>2, <2>4
  <2> QED
    BY <2>6, <2>7 DEF LeftAlone
<1>5. CASE orphans' = {}
  BY <1>5 DEF LeftAlone
<1> QED
  BY <1>3, <1>4, <1>5, OrphansChange

\* A daemon that has outlived its master, as long as check_parent has not noticed, is
\* the only one left behind, and no master has the lock, until that lock is found
\* expired or another of the named lapses happens.
THEOREM OrphansAreAlone == Spec => []OrphanInv
<1>1. Init => OrphanInv
  BY DEF Init, OrphanInv, LeftAlone
<1>2. MastersInv /\ LeaseInv /\ OrphanInv /\ [Next]_vars => OrphanInv'
  BY OrphanStep
<1> QED
  BY <1>1, <1>2, MastersAreSound, LeasesAreKept, PTL DEF Spec

\* One daemon runs at most, for any number of masters: not only of those that the
\* masters run, one that is being stopped included, but with those that a master
\* which ended alone has left behind (check_parent).  The exceptions are the lapses:
\* an expired lock that is unlinked too late or from under a daemon left behind, a
\* lock lost under a running daemon, and what breaks the lease.
THEOREM DaemonIsSingle == Spec => []SingleUnlessLapse
<1>1. MastersInv /\ LeaseInv /\ OrphanInv => SingleUnlessLapse
  <2> SUFFICES ASSUME MastersInv, LeaseInv, OrphanInv,
                      lapses \subseteq {"idle", "disabled"}
               PROVE  SingleSchedd
    BY DEF SingleUnlessLapse
  <2>1. Lease /\ LeftAlone
    BY DEF LeaseInv, Tolerated, OrphanInv
  <2>2. \A n \in Node : Runs(n) => m[n].have
    BY DEF MastersInv, Fits, Runs
  <2>3. \A n, k \in Node : Runs(n) /\ Runs(k) => n = k
    BY <2>1, <2>2 DEF Lease
  <2>4. orphans # {} => \A n \in Node : ~Runs(n)
    BY <2>1, <2>2 DEF LeftAlone
  <2> QED
    BY <2>1, <2>3, <2>4 DEF LeftAlone, SingleSchedd
<1> QED
  BY <1>1, OrphansAreAlone, LeasesAreKept, MastersAreSound, PTL

----------------------------------------------------------------------------
(* The bounds of the times.                                                *)

\* No timer is set further ahead than the longest period, and what a timer is set
\* to after SetPeriods is a period.
Timed(l) ==
    /\ l.last \in Never .. (Longest + 1) /\ l.in \in Never .. Longest
    /\ l.every \in Periods \cup {0} /\ l.rearm \in Never .. Longest
    /\ l.by = "periods" => l.rearm \in Periods

TimesInv ==
    /\ \A n \in Node : Timed(m[n])
    /\ faults \in 0 .. MaxFaults /\ commands \in 0 .. MaxCommands
    /\ orphans \subseteq Node

\* There is a longest period (LongestPeriod).
PeriodsBounded ==
    /\ Longest \in Periods /\ Longest \in Nat
    /\ \A p \in Periods : p \in Nat /\ p <= Longest

\* The daemon's side does not touch the times.
LEMMA TimedKept ==
    ASSUME NEW l, NEW k, Timed(l), KeepsTimes(l, k), k.by \in {l.by, "app"}
    PROVE  Timed(k)
BY DEF Timed, KeepsTimes

\* DoPoll sets the timer, or has it set, to what it is told.
LEMMA DoPollTimed ==
    ASSUME PeriodsBounded, NEW l \in Lock, NEW r \in Never .. Longest, Timed(l)
    PROVE  Timed(DoPoll(l, r))
<1> DEFINE k == DoPoll(l, r)
<1>0. 0 \in Never .. (Longest + 1)
  BY SMTT(30) DEF PeriodsBounded, Never
<1>1. CASE l.have \/ l.enabled
  <2>1. /\ k.last = 0 /\ k.in = l.in /\ k.every = l.every /\ k.rearm = r
        /\ k.by = "poll"
    BY <1>1 DEF DoPoll, Lock
  <2> HIDE DEF k
  <2>2. Timed(k)
    BY <1>0, <2>1 DEF Timed
  <2> QED BY <2>2 DEF k
<1>2. CASE ~l.have /\ ~l.enabled
  <2>1. /\ k.last = 0 /\ k.in = r /\ k.every = l.every /\ k.rearm = l.rearm
        /\ k.by = l.by
    BY <1>2 DEF DoPoll, Lock
  <2> HIDE DEF k
  <2>2. Timed(k)
    BY <1>0, <2>1 DEF Timed
  <2> QED BY <2>2 DEF k
<1> QED BY <1>1, <1>2

\* SetupTimer sets it to a period, to what is left of one, or to the far future.
LEMMA SetupTimerTimed ==
    ASSUME PeriodsBounded, NEW l \in Lock, NEW p \in Periods, Timed(l)
    PROVE  Timed(SetupTimer(l, p))
<1>0. p \in Nat /\ p \in Int /\ Longest \in Nat /\ p <= Longest
  BY SMTT(30) DEF PeriodsBounded
<1>1. CASE p = 0
  BY <1>1 DEF SetupTimer
<1>2. CASE p # 0 /\ l.last = Never
  <2> DEFINE k == [l EXCEPT !.in = p, !.every = p]
  <2>1. /\ k.last = l.last /\ k.in = p /\ k.every = p /\ k.rearm = l.rearm
        /\ k.by = l.by
    BY DEF Lock
  <2>2. SetupTimer(l, p) = k
    BY <1>2 DEF SetupTimer
  <2>3. p \in Never .. Longest
    BY SMTT(30), <1>0 DEF Never
  <2> HIDE DEF k
  <2>4. Timed(k)
    BY <2>1, <2>3 DEF Timed
  <2> QED BY <2>2, <2>4
<1>3. CASE p # 0 /\ l.last # Never
  <2> DEFINE k == [l EXCEPT !.every = p]
             r == Delay(p - l.last)
  <2>1. k \in Lock
    BY <1>0 DEF Lock
  <2>2. /\ k.last = l.last /\ k.in = l.in /\ k.every = p /\ k.rearm = l.rearm
        /\ k.by = l.by
    BY DEF Lock
  <2>3. l.last \in Nat
    BY <1>3 DEF Lock
  <2>4. r \in Never .. Longest
    BY SMTT(30), <1>0, <2>3 DEF Delay, Never
  <2>5. SetupTimer(l, p) = DoPoll(k, r)
    BY <1>3 DEF SetupTimer
  <2> HIDE DEF r, k
  <2>6. Timed(k)
    BY <2>2 DEF Timed
  <2> QED BY <2>1, <2>4, <2>5, <2>6, DoPollTimed
<1> QED BY <1>1, <1>2, <1>3

\* So does what follows a call.
LEMMA ReturnTimed ==
    ASSUME PeriodsBounded, NEW l \in Lock, Timed(l)
    PROVE  Timed(Return(l))
<1> DEFINE done == [l EXCEPT !.call = "none", !.by = "app", !.expire = 0,
                             !.rearm = 0]
<1>0. 0 \in Nat /\ 0 \in Int /\ "none" \in Calls /\ "app" \in Callers
  BY SMTT(30) DEF Calls, Callers
<1>1. done \in Lock
  BY <1>0 DEF Lock
<1>2. /\ done.by = "app" /\ done.rearm = 0 /\ done.in = l.in
      /\ done.every = l.every /\ done.last = l.last
  BY DEF Lock
<1>3. 0 \in Never .. Longest
  BY SMTT(30) DEF PeriodsBounded, Never
<1> HIDE DEF done
<1>4. Timed(done)
  BY <1>2, <1>3 DEF Timed
<1>5. CASE l.by = "app"
  <2>1. Return(l) = done
    BY <1>5 DEF Return, done
  <2> QED BY <1>4, <2>1
<1>6. CASE l.by = "poll"
  <2> DEFINE k == [done EXCEPT !.in = l.rearm]
  <2>1. Return(l) = k
    BY <1>6 DEF Return, done
  <2>2. /\ k.by = "app" /\ k.rearm = 0 /\ k.in = l.rearm /\ k.every = done.every
        /\ k.last = done.last
    BY <1>1, <1>2 DEF Lock
  <2> HIDE DEF k
  <2> QED BY <1>3, <1>4, <2>1, <2>2 DEF Timed
<1>7. CASE l.by = "periods"
  <2>1. Return(l) = SetupTimer(done, l.rearm)
    BY <1>7 DEF Return, done
  <2>2. l.rearm \in Periods
    BY <1>7 DEF Timed
  <2> QED BY <1>1, <1>4, <2>1, <2>2, SetupTimerTimed
<1>8. l.by \in {"app", "poll", "periods"}
  BY DEF Lock, Callers
<1> QED BY <1>5, <1>6, <1>7, <1>8

\* A step of one master.
LEMMA OneTimed ==
    ASSUME Shape, \A n \in Node : Timed(m[n]), NEW n \in Node, NEW k, Timed(k),
           m' = [m EXCEPT ![n] = k]
    PROVE  \A i \in Node : Timed(m'[i])
<1>1. \A i \in Node : m'[i] = IF i = n THEN k ELSE m[i]
  BY DEF Shape
<1> QED BY <1>1

\* The calls.
LEMMA CallTimed ==
    ASSUME PeriodsBounded, MastersInv, \A n \in Node : Timed(m[n]),
           NEW n \in Node, Call(n) \/ Fails(n)
    PROVE  \A i \in Node : Timed(m'[i])
<1> DEFINE l == m[n]
           won(ok) == RealStart([l EXCEPT !.have = TRUE], ok)
           off == [l EXCEPT !.enabled = FALSE]
<1>1. Shape /\ l \in Lock /\ Timed(l)
  BY DEF MastersInv, Shape
<1>2. ASSUME NEW c \in Calls, NEW e, m' = [m EXCEPT ![n] = [l EXCEPT !.call = c, !.expire = e]]
      PROVE  \A i \in Node : Timed(m'[i])
  <2> DEFINE k == [l EXCEPT !.call = c, !.expire = e]
  <2>1. /\ k.last = l.last /\ k.in = l.in /\ k.every = l.every /\ k.rearm = l.rearm
        /\ k.by = l.by
    BY <1>1 DEF Lock
  <2>2. m' = [m EXCEPT ![n] = k]
    BY <1>2
  <2> HIDE DEF k
  <2>3. Timed(k)
    BY <1>1, <2>1 DEF Timed
  <2> QED BY <1>1, <2>2, <2>3, OneTimed
<1>3. ASSUME NEW c \in Calls, m' = [m EXCEPT ![n] = [l EXCEPT !.call = c]]
      PROVE  \A i \in Node : Timed(m'[i])
  <2> DEFINE k == [l EXCEPT !.call = c]
  <2>1. /\ k.last = l.last /\ k.in = l.in /\ k.every = l.every /\ k.rearm = l.rearm
        /\ k.by = l.by
    BY <1>1 DEF Lock
  <2>2. m' = [m EXCEPT ![n] = k]
    BY <1>3
  <2> HIDE DEF k
  <2>3. Timed(k)
    BY <1>1, <2>1 DEF Timed
  <2> QED BY <1>1, <2>2, <2>3, OneTimed
<1>4. ASSUME NEW w \in Lock, KeepsTimes(l, w), w.by = l.by,
             m' = [m EXCEPT ![n] = Return(w)]
      PROVE  \A i \in Node : Timed(m'[i])
  <2>1. Timed(Return(w))
    BY <1>1, <1>4, TimedKept, ReturnTimed
  <2> QED BY <1>1, <1>4, <2>1, OneTimed
<1>5. KeepsTimes(l, l)
  BY DEF KeepsTimes
<1>6. LockLost(l) \in Lock /\ KeepsTimes(l, LockLost(l)) /\ LockLost(l).by = l.by
  BY <1>1, LockLostFields
<1>7. ASSUME NEW ok \in BOOLEAN
      PROVE  won(ok) \in Lock /\ KeepsTimes(l, won(ok)) /\ won(ok).by = l.by
  <2> DEFINE g == [l EXCEPT !.have = TRUE]
  <2>1. g \in Lock /\ KeepsTimes(l, g) /\ g.by = l.by
    BY <1>1 DEF Lock, KeepsTimes
  <2>2. won(ok) = RealStart(g, ok)
    OBVIOUS
  <2> HIDE DEF g, won
  <2>3. /\ RealStart(g, ok) \in Lock /\ KeepsTimes(g, RealStart(g, ok))
        /\ RealStart(g, ok).by = g.by
    BY <2>1, RealStartFields
  <2> QED BY <2>1, <2>2, <2>3 DEF KeepsTimes
<1>8. off \in Lock /\ KeepsTimes(l, off) /\ off.by = l.by
  BY <1>1 DEF Lock, KeepsTimes
<1> HIDE DEF won, off
<1>9. CASE Stat(n)
  <2>1. \/ m' = [m EXCEPT ![n] = [l EXCEPT !.call = "creat"]]
        \/ m' = [m EXCEPT ![n] = [l EXCEPT !.call = "unlink"]]
        \/ m' = [m EXCEPT ![n] = Return(l)]
    BY <1>9 DEF Stat
  <2> QED BY <1>1, <1>3, <1>4, <1>5, <2>1 DEF Calls
<1>10. CASE Unlink(n)
  <2>1. m' = [m EXCEPT ![n] = [l EXCEPT !.call = "creat"]]
    BY <1>10 DEF Unlink
  <2> QED BY <1>3, <2>1 DEF Calls
<1>11. CASE Creat(n)
  <2>1. m' = [m EXCEPT ![n] = [l EXCEPT !.call = "link", !.expire = l.hold + Skew[n]]]
    BY ZenonT(60), <1>1, <1>11 DEF Creat, Shape
  <2> QED BY <1>2, <2>1 DEF Calls
<1>12. CASE Link(n)
  <2>1. \/ m' = [m EXCEPT ![n] = Return(l)]
        \/ \E ok \in BOOLEAN : m' = [m EXCEPT ![n] = Return(won(ok))]
    BY <1>12 DEF Link, won
  <2> QED BY <1>1, <1>4, <1>5, <1>7, <2>1
<1>13. CASE Utime(n)
  <2>1. \/ m' = [m EXCEPT ![n] = [l EXCEPT !.call = "verify", !.expire = l.hold + Skew[n]]]
        \/ m' = [m EXCEPT ![n] = Return(LockLost(l))]
    BY ZenonT(60), <1>1, <1>13 DEF Utime, Shape
  <2> QED BY <1>2, <1>4, <1>6, <2>1 DEF Calls
<1>14. CASE Verify(n)
  <2>1. \/ m' = [m EXCEPT ![n] = Return(l)]
        \/ m' = [m EXCEPT ![n] = Return(LockLost(l))]
    BY <1>14 DEF Verify
  <2> QED BY <1>1, <1>4, <1>5, <1>6, <2>1
<1>15. CASE Fails(n)
  <2>1. \/ m' = [m EXCEPT ![n] = Return(l)]
        \/ m' = [m EXCEPT ![n] = Return(off)]
    BY ZenonT(60), <1>15 DEF Fails, off
  <2> QED BY <1>1, <1>4, <1>5, <1>8, <2>1
<1> QED
  BY <1>9, <1>10, <1>11, <1>12, <1>13, <1>14, <1>15 DEF Call

\* The callbacks, and the ends and starts of masters.
LEMMA CallbackTimed ==
    ASSUME PeriodsBounded, MastersInv, \A n \in Node : Timed(m[n]), NEW n \in Node,
           \/ Poll(n) \/ DoStart(n) \/ Exits(n) \/ DaemonOff(n) \/ DaemonOn(n)
           \/ Reconfig(n) \/ Move(n) \/ Remove(n) \/ Retire(n) \/ Retired(n)
           \/ Boot(n) \/ Crash(n)
    PROVE  \A i \in Node : Timed(m'[i])
<1> DEFINE l == m[n]
<1>1. Shape /\ l \in Lock /\ Timed(l) /\ Quiet(l)
  BY DEF MastersInv, Shape, Sound
<1>2. ASSUME NEW w \in Lock, KeepsTimes(l, w), w.by = l.by, w.call = "none", w.up,
             Quiet(w), m' = [m EXCEPT ![n] = Start(w)]
      PROVE  \A i \in Node : Timed(m'[i])
  <2>1. KeepsTimes(w, Start(w)) /\ Start(w).by \in {w.by, "app"}
    BY <1>2, StartSound
  <2>2. Timed(Start(w))
    BY <1>1, <1>2, <2>1, TimedKept
  <2> QED BY <1>1, <1>2, <2>2, OneTimed
<1>3. ASSUME NEW k, KeepsTimes(l, k), k.by = l.by, m' = [m EXCEPT ![n] = k]
      PROVE  \A i \in Node : Timed(m'[i])
  BY <1>1, <1>3, TimedKept, OneTimed
<1>4. CASE Poll(n)
  <2>1. m' = [m EXCEPT ![n] = DoPoll(l, l.every)]
    BY <1>4 DEF Poll
  <2>2. l.every \in Never .. Longest
    <3>1. Longest \in Nat /\ \A p \in Periods : p \in Nat /\ p <= Longest
      BY DEF PeriodsBounded
    <3>2. CASE l.every \in Periods
      BY SMTT(30), <3>1, <3>2 DEF Never
    <3>3. CASE l.every = 0
      BY SMTT(30), <3>1, <3>3 DEF Never
    <3> QED BY <1>1, <3>2, <3>3 DEF Timed
  <2>3. Timed(DoPoll(l, l.every))
    BY <1>1, <2>2, DoPollTimed
  <2> QED BY <1>1, <2>1, <2>3, OneTimed
<1>5. CASE DoStart(n)
  <2>1. m' = [m EXCEPT ![n] = Start(l)] /\ l.call = "none" /\ l.up /\ KeepsTimes(l, l)
    BY <1>5 DEF DoStart, Idle, KeepsTimes
  <2> QED BY ZenonT(60), <1>1, <1>2, <2>1
<1>6. CASE Exits(n)
  <2>1. PICK held \in BOOLEAN :
          m' = [m EXCEPT ![n] = [l EXCEPT !.enabled = FALSE, !.have = FALSE,
                                          !.pid = "none", !.on_hold = held,
                                          !.start = ~held]]
    BY <1>1, <1>6 DEF Exits, Lock
  <2> DEFINE k == [l EXCEPT !.enabled = FALSE, !.have = FALSE, !.pid = "none",
                            !.on_hold = held, !.start = ~held]
  <2>2. KeepsTimes(l, k) /\ k.by = l.by
    BY <1>1 DEF Lock, KeepsTimes
  <2> QED BY <1>3, <2>1, <2>2
<1>7. CASE DaemonOff(n)
  <2> DEFINE w == [l EXCEPT !.on_hold = TRUE]
  <2>1. m' = [m EXCEPT ![n] = Stop(w)]
    BY <1>7 DEF DaemonOff
  <2>2. w \in Lock /\ KeepsTimes(l, w) /\ w.by = l.by
    BY ZenonT(60), <1>1 DEF Lock, KeepsTimes
  <2> HIDE DEF w
  <2>3. KeepsTimes(l, Stop(w)) /\ Stop(w).by = l.by
    BY <2>2, StopFields DEF KeepsTimes
  <2> QED BY <1>3, <2>1, <2>3
<1>8. CASE DaemonOn(n)
  <2> DEFINE w == [l EXCEPT !.on_hold = FALSE]
  <2>1. m' = [m EXCEPT ![n] = Start(w)] /\ l.call = "none" /\ l.up
    BY <1>8 DEF DaemonOn, Idle
  <2>2. w \in Lock /\ KeepsTimes(l, w) /\ w.by = l.by
    BY ZenonT(60), <1>1 DEF Lock, KeepsTimes
  <2>3. w.call = l.call /\ w.have = l.have /\ w.pid = l.pid /\ w.enabled = l.enabled
    BY <1>1 DEF Lock
  <2> HIDE DEF w
  <2>4. Quiet(w) /\ w.up /\ w.call = "none"
    BY <1>1, <2>1, <2>2, <2>3 DEF Quiet, KeepsTimes
  <2> QED BY <1>2, <2>1, <2>2, <2>4
<1>9. CASE Reconfig(n)
  <2>1. PICK p \in Periods, h \in Holds :
          m' = [m EXCEPT ![n] =
                  IF l.have /\ h # l.hold
                  THEN [l EXCEPT !.hold = h, !.call = "utime",
                                 !.by = "periods", !.rearm = p]
                  ELSE SetupTimer([l EXCEPT !.hold = h], p)]
    BY ZenonT(60), <1>9 DEF Reconfig
  <2> DEFINE k == [l EXCEPT !.hold = h, !.call = "utime", !.by = "periods",
                            !.rearm = p]
             w == [l EXCEPT !.hold = h]
  <2>2. CASE l.have /\ h # l.hold
    <3>1. /\ k.last = l.last /\ k.in = l.in /\ k.every = l.every /\ k.rearm = p
          /\ k.by = "periods"
      BY <1>1 DEF Lock
    <3>2. m' = [m EXCEPT ![n] = k]
      BY <2>1, <2>2
    <3>3. p \in Never .. Longest
      BY SMTT(30) DEF PeriodsBounded, Never
    <3> HIDE DEF k
    <3>4. Timed(k)
      BY ZenonT(60), <1>1, <3>1, <3>3 DEF Timed
    <3> QED BY <1>1, <3>2, <3>4, OneTimed
  <2>3. CASE ~(l.have /\ h # l.hold)
    <3>1. w \in Lock
      BY <1>1 DEF Lock
    <3>2. /\ w.last = l.last /\ w.in = l.in /\ w.every = l.every
          /\ w.rearm = l.rearm /\ w.by = l.by
      BY <1>1 DEF Lock
    <3>3. m' = [m EXCEPT ![n] = SetupTimer(w, p)]
      BY ZenonT(60), <2>1, <2>3
    <3> HIDE DEF w
    <3>4. Timed(w)
      BY <1>1, <3>2 DEF Timed
    <3> QED BY <1>1, <3>1, <3>3, <3>4, SetupTimerTimed, OneTimed
  <2> QED BY <2>2, <2>3
<1>10. CASE Move(n)
  <2> DEFINE a == LockLost(l)
  <2>1. PICK u \in Urls, p \in Periods, h \in Holds :
          m' = [m EXCEPT ![n] =
                  [a EXCEPT !.url = u, !.hold = h, !.enabled = FALSE,
                            !.last = Never, !.in = p, !.every = p]]
    BY ZenonT(60), <1>10 DEF Move
  <2>2. a \in Lock /\ KeepsTimes(l, a) /\ a.by = l.by
    BY <1>1, LockLostFields DEF KeepsTimes
  <2> DEFINE k == [a EXCEPT !.url = u, !.hold = h, !.enabled = FALSE,
                            !.last = Never, !.in = p, !.every = p]
  <2>3. m' = [m EXCEPT ![n] = k]
    BY <2>1
  <2> HIDE DEF a
  <2>4. k.last = Never /\ k.in = p /\ k.every = p /\ k.rearm = a.rearm /\ k.by = a.by
    BY <2>2 DEF Lock
  <2> HIDE DEF k
  <2>5. p \in Never .. Longest /\ Never \in Never .. (Longest + 1)
    BY SMTT(30) DEF PeriodsBounded, Never
  <2>6. Timed(k)
    BY ZenonT(60), <1>1, <2>2, <2>4, <2>5 DEF Timed, KeepsTimes
  <2> QED BY <1>1, <2>3, <2>6, OneTimed
<1>11. CASE Remove(n) \/ Retired(n) \/ Crash(n)
  <2> DEFINE k == Down(l)
  <2>1. m' = [m EXCEPT ![n] = k]
    BY <1>11 DEF Remove, Retired, Crash
  <2>2. k.last = Never /\ k.in = Never /\ k.every = 0 /\ k.rearm = 0 /\ k.by = "app"
    BY <1>1 DEF Lock, Down
  <2>3. /\ 0 \in Never .. Longest /\ Never \in Never .. Longest
        /\ Never \in Never .. (Longest + 1)
    BY SMTT(30) DEF PeriodsBounded, Never
  <2> HIDE DEF k
  <2>4. Timed(k)
    BY <2>2, <2>3 DEF Timed
  <2> QED BY <1>1, <2>1, <2>4, OneTimed
<1>12. CASE Boot(n)
  <2> DEFINE u == l.url
             h == l.hold
  <2>1. PICK p \in Periods : m' = [m EXCEPT ![n] = Started(u, p, h)]
    BY <1>12 DEF Boot
  <2> DEFINE k == Started(u, p, h)
  <2> HIDE DEF u, h
  <2>2. k.last = Never /\ k.in = p /\ k.every = p /\ k.rearm = 0 /\ k.by = "app"
    BY DEF Started, Start, AcquireLock
  <2>3. /\ 0 \in Never .. Longest /\ p \in Never .. Longest
        /\ Never \in Never .. (Longest + 1)
    BY SMTT(30) DEF PeriodsBounded, Never
  <2>4. m' = [m EXCEPT ![n] = k]
    BY <2>1
  <2> HIDE DEF k
  <2>5. Timed(k)
    BY <2>2, <2>3 DEF Timed
  <2> QED BY ZenonT(60), <1>1, <2>4, <2>5, OneTimed
<1>13. CASE Retire(n)
  <2> DEFINE w == Stop(l)
             k == [w EXCEPT !.pid = "leaves"]
  <2>1. m' = [m EXCEPT ![n] = k]
    BY <1>13 DEF Retire
  <2>2. w \in Lock /\ KeepsTimes(l, w) /\ w.by = l.by
    BY <1>1, StopFields
  <2> HIDE DEF w
  <2>3. KeepsTimes(w, k) /\ k.by = w.by
    BY <2>2 DEF Lock, KeepsTimes
  <2> HIDE DEF k
  <2>4. KeepsTimes(l, k) /\ k.by = l.by
    BY <2>2, <2>3 DEF KeepsTimes
  <2> QED BY <1>3, <2>1, <2>4
<1> QED
  BY <1>4, <1>5, <1>6, <1>7, <1>8, <1>9, <1>10, <1>11, <1>12, <1>13

\* Time passes.
LEMMA PassTimed ==
    ASSUME PeriodsBounded, Shape, \A n \in Node : Timed(m[n]), Pass
    PROVE  \A i \in Node : Timed(m'[i])
<1> SUFFICES ASSUME NEW i \in Node PROVE Timed(m'[i])
  OBVIOUS
<1> DEFINE l == m[i]
           k == m'[i]
<1>1. l \in Lock /\ Timed(l)
  BY DEF Shape
<1>2. k = [l EXCEPT !.in = Less(l.in), !.expire = Less(l.expire),
                    !.last = IF l.last = Never \/ l.last > Longest
                             THEN l.last ELSE l.last + 1]
  BY DEF Pass
<1>3. /\ k.in = Less(l.in) /\ k.every = l.every /\ k.rearm = l.rearm /\ k.by = l.by
      /\ k.last = IF l.last = Never \/ l.last > Longest THEN l.last ELSE l.last + 1
  BY <1>1, <1>2 DEF Lock
<1> HIDE DEF l, k
<1>4. Longest \in Nat
  BY DEF PeriodsBounded
<1>5. k.in \in Never .. Longest /\ k.last \in Never .. (Longest + 1)
  BY SMTT(30), <1>1, <1>3, <1>4 DEF Timed, Less, Never
<1>6. Timed(k)
  BY <1>1, <1>3, <1>5 DEF Timed
<1> QED BY <1>6 DEF k

\* What a step does to the counter of the faults, and to that of the commands.
FaultCounted ==
    faults' = faults \/ (faults < MaxFaults /\ faults' = faults + 1)

CommandCounted ==
    commands' = commands \/ (commands < MaxCommands /\ commands' = commands + 1)

\* A fault that happens is one more.
LEMMA FaultIsCounted == \A f : Fault(f) \/ UNCHANGED faults => FaultCounted
BY DEF Fault, FaultCounted

\* Every step counts what it should.
LEMMA StepsCount ==
    ASSUME [Next]_vars
    PROVE  FaultCounted /\ CommandCounted
<1>1. ASSUME NEW n \in Node, Stat(n) \/ Unlink(n) \/ Creat(n)
      PROVE  FaultCounted /\ CommandCounted
  <2>1. (Fault("error") \/ UNCHANGED faults) /\ UNCHANGED commands
    BY <1>1 DEF Stat, Unlink, Creat
  <2> QED BY <2>1, FaultIsCounted DEF CommandCounted
<1>2. ASSUME NEW n \in Node, Link(n)
      PROVE  FaultCounted /\ CommandCounted
  <2>1. (Fault("exec") \/ UNCHANGED faults) /\ UNCHANGED commands
    BY <1>2 DEF Link
  <2> QED BY <2>1, FaultIsCounted DEF CommandCounted
<1>3. ASSUME NEW n \in Node, Utime(n) \/ Verify(n) \/ Fails(n)
      PROVE  FaultCounted /\ CommandCounted
  <2>1. (Fault("error") \/ UNCHANGED faults) /\ UNCHANGED commands
    BY <1>3 DEF Utime, Verify, Fails
  <2> QED BY <2>1, FaultIsCounted DEF CommandCounted
<1>4. ASSUME NEW n \in Node,
             Poll(n) \/ DoStart(n) \/ Retired(n) \/ Boot(n) \/ OrphanEnds(n)
      PROVE  FaultCounted /\ CommandCounted
  BY <1>4 DEF Poll, DoStart, Retired, Boot, OrphanEnds, FaultCounted, CommandCounted
<1>5. ASSUME NEW n \in Node, Exits(n)
      PROVE  FaultCounted /\ CommandCounted
  <2>1. (Fault("error") \/ Fault("exit") \/ UNCHANGED faults) /\ UNCHANGED commands
    BY <1>5 DEF Exits
  <2> QED BY <2>1, FaultIsCounted DEF CommandCounted
<1>6. ASSUME NEW n \in Node, DaemonOff(n) \/ DaemonOn(n)
      PROVE  FaultCounted /\ CommandCounted
  BY <1>6 DEF DaemonOff, DaemonOn, FaultCounted, CommandCounted
<1>7. ASSUME NEW n \in Node,
             Reconfig(n) \/ Move(n) \/ Remove(n) \/ Retire(n) \/ Crash(n)
      PROVE  FaultCounted /\ CommandCounted
  <2>1. (\E f : Fault(f)) /\ UNCHANGED commands
    BY <1>7 DEF Reconfig, Move, Remove, Retire, Crash
  <2> QED BY <2>1, FaultIsCounted DEF CommandCounted
<1>8. ASSUME NEW u \in Urls, Preen(u)
      PROVE  FaultCounted /\ CommandCounted
  BY <1>8, FaultIsCounted DEF Preen, CommandCounted
<1>9. CASE Tick \/ UNCHANGED vars
  BY <1>9 DEF Tick, vars, FaultCounted, CommandCounted
<1>10. CASE TickLate
  BY <1>10, FaultIsCounted DEF TickLate, CommandCounted
<1> QED
  BY <1>1, <1>2, <1>3, <1>4, <1>5, <1>6, <1>7, <1>8, <1>9, <1>10 DEF Next, Call

\* The counters stay within their bounds.
LEMMA CountersBounded ==
    ASSUME faults \in 0 .. MaxFaults, commands \in 0 .. MaxCommands, [Next]_vars
    PROVE  faults' \in 0 .. MaxFaults /\ commands' \in 0 .. MaxCommands
<1>0. MaxFaults \in Nat /\ MaxCommands \in Nat
  BY HALockAssumption
<1>1. FaultCounted /\ CommandCounted
  BY StepsCount
<1>2. faults' \in 0 .. MaxFaults
  BY SMTT(30), <1>0, <1>1 DEF FaultCounted
<1>3. commands' \in 0 .. MaxCommands
  BY SMTT(30), <1>0, <1>1 DEF CommandCounted
<1> QED BY <1>2, <1>3

\* At first no timer is set.
LEMMA TimesInitially == PeriodsBounded /\ Init => TimesInv
<1> SUFFICES ASSUME PeriodsBounded, Init PROVE TimesInv
  OBVIOUS
<1> DEFINE u == CHOOSE x \in Urls : TRUE
           h == CHOOSE x \in Holds : TRUE
           s == Started(u, 0, h)
           k == Down(s)
<1>1. u \in Urls /\ h \in Holds /\ 0 \in Nat /\ MaxFaults \in Nat /\ MaxCommands \in Nat
  BY HALockAssumption
<1>2. \A n \in Node : m[n] = k
  BY DEF Init
<1>3. faults \in 0 .. MaxFaults /\ commands \in 0 .. MaxCommands
  BY SMTT(30), <1>1 DEF Init
<1>o. orphans \subseteq Node
  BY DEF Init
<1> HIDE DEF u, h
<1>4. s \in Lock
  BY <1>1, StartedFields, Zenon
<1> HIDE DEF s
<1>5. k.last = Never /\ k.in = Never /\ k.every = 0 /\ k.rearm = 0 /\ k.by = "app"
  BY <1>4 DEF Lock, Down
<1>6. /\ 0 \in Never .. Longest /\ Never \in Never .. Longest
      /\ Never \in Never .. (Longest + 1)
  BY SMTT(30) DEF PeriodsBounded, Never
<1> HIDE DEF k
<1>7. Timed(k)
  BY <1>5, <1>6 DEF Timed
<1> QED BY <1>2, <1>3, <1>7, <1>o DEF TimesInv

\* Every step keeps the times within their bounds.
LEMMA TimesStep ==
    PeriodsBounded /\ MastersInv /\ TimesInv /\ [Next]_vars => TimesInv'
<1> SUFFICES ASSUME PeriodsBounded, MastersInv, TimesInv, [Next]_vars PROVE TimesInv'
  OBVIOUS
<1>1. Shape /\ \A n \in Node : Timed(m[n])
  BY DEF MastersInv, TimesInv
<1>2. faults' \in 0 .. MaxFaults /\ commands' \in 0 .. MaxCommands
  BY CountersBounded DEF TimesInv
<1>3. \A n \in Node : Timed(m'[n])
  <2>1. ASSUME NEW n \in Node, Call(n) \/ Fails(n)
        PROVE  \A i \in Node : Timed(m'[i])
    BY <1>1, <2>1, CallTimed
  <2>2. ASSUME NEW n \in Node,
               \/ Poll(n) \/ DoStart(n) \/ Exits(n) \/ DaemonOff(n) \/ DaemonOn(n)
               \/ Reconfig(n) \/ Move(n) \/ Remove(n) \/ Retire(n) \/ Retired(n)
               \/ Boot(n) \/ Crash(n)
        PROVE  \A i \in Node : Timed(m'[i])
    BY <1>1, <2>2, CallbackTimed
  <2>3. CASE (\E u \in Urls : Preen(u)) \/ (\E n \in Node : OrphanEnds(n))
             \/ UNCHANGED vars
    BY <1>1, <2>3 DEF Preen, OrphanEnds, vars
  <2>4. CASE Tick \/ TickLate
    BY <1>1, <2>4, PassTimed DEF Tick, TickLate
  <2> QED BY <2>1, <2>2, <2>3, <2>4 DEF Next
<1>4. orphans' \subseteq Node
  BY OrphansChange DEF TimesInv
<1> QED BY <1>2, <1>3, <1>4 DEF TimesInv, Timed

INSTANCE WellFoundedInduction

\* Periods are bounded by every hold time, so that one is the longest.
LEMMA LongestPeriod == PeriodsBounded
<1>1. PICK h \in Holds : h \in Nat /\ \A p \in Periods : p \in Nat /\ h - p \in Nat
  <2>1. PICK h \in Holds : TRUE
    BY HALockAssumption
  <2>2. /\ Periods \subseteq Nat /\ Holds \subseteq Nat /\ MaxSkew \in Nat
        /\ \A p \in Periods : h > p + MaxSkew
    BY HALockAssumption
  <2>3. h \in Nat
    BY <2>2
  <2>4. ASSUME NEW p \in Periods PROVE p \in Nat /\ h - p \in Nat
    <3>1. p \in Nat /\ h > p + MaxSkew
      BY <2>2
    <3> QED BY SMTT(30), <2>2, <2>3, <3>1
  <2> QED BY <2>3, <2>4
<1> DEFINE S == {h - p : p \in Periods}
           R == {ss \in Nat \X Nat : ss[1] < ss[2]}
<1>2. S \in SUBSET Nat /\ S # {}
  <2>1. Periods # {}
    BY HALockAssumption
  <2> QED BY <1>1, <2>1
<1>3. \E x \in S : \A y \in S : <<y, x>> \notin R
  <2>1. IsWellFoundedOn(R, Nat)
    BY NatLessThanWellFounded DEF OpToRel
  <2> HIDE DEF R, S
  <2> QED BY <1>2, <2>1, WFMin
<1>4. PICK q \in Periods : \A p \in Periods : <<h - p, h - q>> \notin R
  BY <1>3
<1>5. ASSUME NEW p \in Periods PROVE p <= q
  <2>1. /\ h \in Nat /\ p \in Nat /\ q \in Nat /\ h - p \in Nat /\ h - q \in Nat
        /\ <<h - p, h - q>> \notin R
    BY <1>1, <1>4
  <2>2. ~(h - p < h - q)
    BY <2>1
  <2> QED BY SMTT(30), <2>1, <2>2
<1>6. \E p \in Periods : \A r \in Periods : r <= p
  BY <1>5
<1>7. Longest \in Periods /\ \A r \in Periods : r <= Longest
  BY <1>6 DEF Longest
<1> QED BY <1>1, <1>7 DEF PeriodsBounded

\* Every variable of every master stays in its type, the times within their bounds:
\* the lock's timer is set for a poll period at most, or for ever (SetupTimer), and a
\* call that SetPeriods has made returns to a period of the configuration.
THEOREM LockTypes == Spec => []TypeOK
<1>1. MastersInv /\ TimesInv => TypeOK
  <2> SUFFICES ASSUME MastersInv, TimesInv PROVE TypeOK
    OBVIOUS
  <2>1. Shape
    BY DEF MastersInv
  <2>2. ASSUME NEW n \in Node PROVE m[n] \in Master
    <3>1. m[n] \in Lock /\ Timed(m[n])
      BY <2>1 DEF Shape, TimesInv
    <3> QED BY <3>1 DEF Lock, Master, Timed
  <2>3. m \in [Node -> Master]
    BY <2>1, <2>2 DEF Shape
  <2> QED BY <2>1, <2>3 DEF Shape, TypeOK, TimesInv
<1>2. Init => TimesInv
  BY LongestPeriod, TimesInitially
<1>3. MastersInv /\ TimesInv /\ [Next]_vars => TimesInv'
  BY LongestPeriod, TimesStep
<1> QED BY <1>1, <1>2, <1>3, MastersAreSound, PTL DEF Spec
=============================================================================
