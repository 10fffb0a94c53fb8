---------------------------- MODULE MasterProofs ----------------------------
(***************************************************************************)
(* What the master promises of stops, of restarts and of its own end, for  *)
(* every set of daemons, every assignment of controllers and every order   *)
(* of commands, timers, failing starts and deaths.                         *)
(*                                                                         *)
(* The callbacks are functions of the state s = [ds, m], so the invariant  *)
(* is stated of such an s, and each function is shown to keep it.          *)
(***************************************************************************)
EXTENDS Master, TLAPS

\* Most leaves are first-order; the ones with arithmetic, or much to rewrite, name SMT.
USE Zenon

State == [ds : [Daemon -> DaemonRecord], m : MasterRecord]

\* The record of one daemon.  A process that does not run is not being stopped,
\* and a fast stop has cancelled the timer of a graceful one.
Plain(r) ==
    /\ r \in DaemonRecord
    /\ ~r.pid => r.stop_state = "NONE" /\ r.stop_fast # "armed"
    /\ r.stop_state = "FAST" => r.stop_fast # "armed"
    /\ r.pid /\ r.stop_state = "KILL" => r.killed

\* A fast stop has a deadline.
Dated(r) ==
    r.pid /\ r.stop_state = "FAST" => r.hard_kill = "armed" \/ r.lost_kill > 0

\* Every stop has one.
RecordOK(d, r) ==
    /\ Plain(r) /\ Dated(r)
    /\ r.pid /\ r.stop_state = "GRACEFUL" /\ Controller[d] = NoDaemon =>
          r.stop_fast = "armed" \/ r.lost_fast > 0

\* All records; and only CHILD_OFF, which the controller sends while it runs,
\* registers a timer for a controllee.
Sound(s) ==
    /\ s \in State
    /\ \A d \in Daemon :
          /\ RecordOK(d, s.ds[d])
          /\ Controller[d] # NoDaemon /\ s.ds[d].stop_fast = "armed" =>
                s.ds[Controller[d]].pid

\* AllReaperEnds, of a state.
Ends(s) ==
    s.m.up = "running" /\ s.m.reaper = "ALL_R" /\ Children(s) = {} =>
        s.m.action # "MASTER_RESET" /\ (s.m.final \/ Running(s) # {})

\* The daemons are not to run: DAEMONS_OFF came, or the master is ending.
Off(k) == k.shutting \/ (k.GotDaemonsOff /\ ~k.StartDaemons)

\* Only these two clear StartDaemons.
Switched(k) == k.StartDaemons \/ k.GotDaemonsOff \/ k.shutting

\* RestartKept, of a state.
Kept(s) ==
    \A d \in Daemon :
        /\ Controller[d] = NoDaemon
        /\ s.m.up = "running" /\ s.m.reaper = "DEFAULT_R"
        /\ s.m.StartDaemons /\ ~s.m.shutting
        /\ ~s.ds[d].pid /\ ~s.ds[d].on_hold
        => s.ds[d].start \/ s.m.retry

Counts ==
    /\ commands \in 0 .. MaxCommands
    /\ deaths \in 0 .. MaxDeaths
    /\ lapses \subseteq Lapses

\* The inductive invariant.
MasterInv ==
    /\ Counts
    /\ Sound(S) /\ Ends(S) /\ Switched(m)
    /\ lapses = {} => Kept(S) /\ (m.reaper = "ALL_R" => Off(m))

----------------------------------------------------------------------------
(* Functions of one daemon object.                                         *)

\* What no stop changes: only the reaper clears a pid, and only a command or the
\* reaper sets a hold.
Stopped(r, q) ==
    /\ q.pid = r.pid /\ q.on_hold = r.on_hold /\ q.restarts = r.restarts
    /\ q.start => r.start

\* A graceful stop has its deadline (daemon::Stop).
LEMMA StopSelfOK ==
    ASSUME NEW d, NEW r, RecordOK(d, r)
    PROVE  /\ RecordOK(d, StopSelf(r)) /\ Stopped(r, StopSelf(r))
           /\ StopSelf(r).stop_fast = "armed" => r.pid
<1> DEFINE q == [r EXCEPT !.start = FALSE]
           p == [q EXCEPT !.stop_state = "GRACEFUL", !.stop_fast = "armed",
                          !.lost_fast = @ + AnyArmed(q.stop_fast)]
<1>1. RecordOK(d, q) /\ Stopped(r, q)
  BY DEF RecordOK, Plain, Dated, DaemonRecord, Stopped
<1>2. q.lost_fast + AnyArmed(q.stop_fast) \in Nat
  BY SMTT(30), <1>1 DEF RecordOK, Plain, Dated, DaemonRecord, AnyArmed
<1>3. CASE ~q.pid \/ q.stop_state = "GRACEFUL"
  BY <1>1, <1>3 DEF StopSelf, RecordOK, Plain, Dated, Stopped
<1>4. CASE ~(~q.pid \/ q.stop_state = "GRACEFUL")
  <2>1. RecordOK(d, p) /\ Stopped(q, p) /\ r.pid
    BY <1>1, <1>2, <1>4, ZenonT(60)
    DEF RecordOK, Plain, Dated, DaemonRecord, Stopped, StopStates, Timer
  <2>2. StopSelf(r) = p
    BY <1>4 DEF StopSelf
  <2> QED
    BY <1>1, <2>1, <2>2 DEF Stopped
<1> QED
  BY <1>3, <1>4

\* A peaceful stop has none (daemon::StopPeaceful).
LEMMA StopPeacefulOK ==
    ASSUME NEW d, NEW r, RecordOK(d, r)
    PROVE  /\ RecordOK(d, StopPeaceful(r)) /\ Stopped(r, StopPeaceful(r))
           /\ StopPeaceful(r).stop_fast = r.stop_fast
BY DEF StopPeaceful, RecordOK, Plain, Dated, DaemonRecord, Stopped, StopStates

\* A fast stop has its deadline, also when the timer of the graceful stop before
\* it has just fired (daemon::StopFast).
LEMMA StopFastSelfOK ==
    ASSUME NEW d, NEW r, Plain(r), Dated(r)
    PROVE  /\ RecordOK(d, StopFastSelf(r)) /\ Stopped(r, StopFastSelf(r))
           /\ StopFastSelf(r).stop_fast # "armed"
           /\ StopFastSelf(r).start = FALSE
<1> DEFINE q == [r EXCEPT !.start = FALSE]
           p == [q EXCEPT !.stop_state = "FAST", !.stop_fast = "none",
                          !.lost_fast = @ + AnyArmed(q.stop_fast),
                          !.hard_kill = "armed",
                          !.lost_kill = @ + AnyArmed(q.hard_kill)]
<1>1. Plain(q) /\ Dated(q) /\ Stopped(r, q) /\ q.start = FALSE
  BY DEF RecordOK, Plain, Dated, DaemonRecord, Stopped
<1>2. /\ q.lost_fast + AnyArmed(q.stop_fast) \in Nat
      /\ q.lost_kill + AnyArmed(q.hard_kill) \in Nat
  BY SMTT(30), <1>1 DEF RecordOK, Plain, Dated, DaemonRecord, AnyArmed
<1>3. CASE ~q.pid \/ q.stop_state = "FAST"
  BY <1>1, <1>3 DEF StopFastSelf, RecordOK, Plain, Dated
<1>4. CASE ~(~q.pid \/ q.stop_state = "FAST")
  <2>1. RecordOK(d, p) /\ Stopped(q, p) /\ p.stop_fast = "none" /\ p.start = FALSE
    BY ZenonT(60), <1>1, <1>2, <1>4
    DEF RecordOK, Plain, Dated, DaemonRecord, Stopped, StopStates, Timer
  <2>2. StopFastSelf(r) = p
    BY <1>4 DEF StopFastSelf
  <2> QED
    BY <1>1, <2>1, <2>2 DEF Stopped
<1> QED
  BY <1>3, <1>4

\* A kill is final, and needs no deadline before it (daemon::HardKill).
LEMMA HardKillOK ==
    ASSUME NEW d, NEW r, Plain(r)
    PROVE  /\ RecordOK(d, HardKill(r)) /\ Stopped(r, HardKill(r))
           /\ HardKill(r).stop_fast = r.stop_fast /\ HardKill(r).start = r.start
<1> DEFINE p == [r EXCEPT !.stop_state = "KILL", !.hard_kill = "none",
                          !.lost_kill = @ + AnyArmed(r.hard_kill), !.killed = TRUE]
<1>2. r.lost_kill + AnyArmed(r.hard_kill) \in Nat
  BY SMTT(30) DEF Plain, DaemonRecord, AnyArmed
<1>3. CASE ~r.pid \/ r.stop_state = "KILL"
  BY <1>3 DEF HardKill, RecordOK, Plain, Dated, Stopped
<1>4. CASE ~(~r.pid \/ r.stop_state = "KILL")
  <2>1. RecordOK(d, p) /\ Stopped(r, p) /\ p.stop_fast = r.stop_fast /\ p.start = r.start
    BY <1>2, <1>4 DEF RecordOK, Plain, Dated, DaemonRecord, Stopped, StopStates, Timer
  <2>2. HardKill(r) = p
    BY <1>4 DEF HardKill
  <2> QED
    BY <2>1, <2>2
<1> QED
  BY <1>3, <1>4

----------------------------------------------------------------------------
(* Stops.                                                                  *)

\* A request ends at a daemon that has no controller.
LEMMA TargetFree ==
    ASSUME NEW d \in Daemon
    PROVE  Target(d) \in Daemon /\ Controller[Target(d)] = NoDaemon
BY MasterAssumption DEF Target

\* What stops do to a state.
Stops(s, t) == t.m = s.m /\ \A d \in Daemon : Stopped(s.ds[d], t.ds[d])

\* A daemon whose timer may be registered.
MayArm(s, d) == Controller[d] = NoDaemon \/ s.ds[Controller[d]].pid

\* Stopping daemons one by one keeps the state sound.
LEMMA Replaced ==
    ASSUME NEW s, Sound(s), NEW f, f = [d \in Daemon |-> f[d]],
           \A d \in Daemon :
               /\ RecordOK(d, f[d]) /\ Stopped(s.ds[d], f[d])
               /\ f[d].stop_fast = "armed" => s.ds[d].stop_fast = "armed" \/ MayArm(s, d)
    PROVE  Sound([s EXCEPT !.ds = f]) /\ Stops(s, [s EXCEPT !.ds = f])
<1> DEFINE t == [s EXCEPT !.ds = f]
<1>1. t.ds = f /\ t.m = s.m /\ s \in State
  BY DEF Sound, State
<1>2. f \in [Daemon -> DaemonRecord]
  BY DEF RecordOK, Plain
<1>3. t \in State
  BY <1>2 DEF Sound, State
<1> HIDE DEF t
<1>4. ASSUME NEW d \in Daemon, Controller[d] # NoDaemon, f[d].stop_fast = "armed"
      PROVE  f[Controller[d]].pid
  <2>1. Controller[d] \in Daemon
    BY <1>4, MasterAssumption
  <2>2. s.ds[Controller[d]].pid
    BY <1>4 DEF Sound, MayArm
  <2> QED
    BY <2>1, <2>2 DEF Stopped
<1>5. Sound(t)
  BY <1>1, <1>3, <1>4 DEF Sound
<1>6. Stops(s, t)
  BY <1>1 DEF Stops
<1> QED
  BY <1>5, <1>6 DEF t

\* The same, with what a daemon that is left alone needs.
LEMMA LeftAlone ==
    ASSUME NEW s, Sound(s), NEW d \in Daemon
    PROVE  RecordOK(d, s.ds[d]) /\ Stopped(s.ds[d], s.ds[d])
BY DEF Sound, Stopped

\* Daemons::Stop*AllDaemons and its like: graceful stops, forwarded.
LEMMA StopOK ==
    ASSUME NEW s, Sound(s), NEW D \in SUBSET Daemon
    PROVE  Sound(Stop(s, D)) /\ Stops(s, Stop(s, D))
<1> DEFINE f == [d \in Daemon |-> IF d \in Targets(D) THEN StopSelf(s.ds[d]) ELSE s.ds[d]]
<1>1. \A d \in Targets(D) : Controller[d] = NoDaemon
  BY TargetFree DEF Targets
<1>2. ASSUME NEW d \in Daemon
      PROVE  /\ RecordOK(d, f[d]) /\ Stopped(s.ds[d], f[d])
             /\ f[d].stop_fast = "armed" => s.ds[d].stop_fast = "armed" \/ MayArm(s, d)
  BY <1>1, LeftAlone, StopSelfOK DEF MayArm
<1>3. Stop(s, D) = [s EXCEPT !.ds = f] /\ f = [d \in Daemon |-> f[d]]
  BY DEF Stop, ToEach
<1> HIDE DEF f
<1> QED
  BY SMTT(30), <1>2, <1>3, Replaced

\* Fast stops, of any daemons.
LEMMA EachFast ==
    ASSUME NEW s, Sound(s), NEW D
    PROVE  /\ Sound(ToEach(s, D, StopFastSelf)) /\ Stops(s, ToEach(s, D, StopFastSelf))
           /\ \A d \in Daemon \cap D : ToEach(s, D, StopFastSelf).ds[d].stop_fast # "armed"
<1> DEFINE f == [d \in Daemon |-> IF d \in D THEN StopFastSelf(s.ds[d]) ELSE s.ds[d]]
<1>2. ASSUME NEW d \in Daemon
      PROVE  /\ RecordOK(d, f[d]) /\ Stopped(s.ds[d], f[d])
             /\ f[d].stop_fast = "armed" => s.ds[d].stop_fast = "armed" /\ d \notin D
  BY LeftAlone, StopFastSelfOK DEF RecordOK
<1>3. ToEach(s, D, StopFastSelf) = [s EXCEPT !.ds = f] /\ f = [d \in Daemon |-> f[d]]
  BY DEF ToEach
<1>4. [s EXCEPT !.ds = f].ds = f
  BY DEF Sound, State
<1> HIDE DEF f
<1> QED
  BY SMTT(30), <1>2, <1>3, <1>4, Replaced

\* Fast stops, forwarded.
LEMMA StopFastOK ==
    ASSUME NEW s, Sound(s), NEW D
    PROVE  Sound(StopFast(s, D)) /\ Stops(s, StopFast(s, D))
BY EachFast DEF StopFast

\* Peaceful stops, of any daemons.
LEMMA EachPeaceful ==
    ASSUME NEW s, Sound(s), NEW D
    PROVE  Sound(ToEach(s, D, StopPeaceful)) /\ Stops(s, ToEach(s, D, StopPeaceful))
<1> DEFINE f == [d \in Daemon |-> IF d \in D THEN StopPeaceful(s.ds[d]) ELSE s.ds[d]]
<1>2. ASSUME NEW d \in Daemon
      PROVE  /\ RecordOK(d, f[d]) /\ Stopped(s.ds[d], f[d])
             /\ f[d].stop_fast = "armed" => s.ds[d].stop_fast = "armed"
  BY LeftAlone, StopPeacefulOK
<1>3. ToEach(s, D, StopPeaceful) = [s EXCEPT !.ds = f] /\ f = [d \in Daemon |-> f[d]]
  BY DEF ToEach
<1> HIDE DEF f
<1> QED
  BY SMTT(30), <1>2, <1>3, Replaced

\* What runs is not changed by a stop.
LEMMA StopsRunning ==
    ASSUME NEW s, NEW t, Stops(s, t)
    PROVE  Running(t) = Running(s) /\ Children(t) = Children(s)
BY DEF Stops, Stopped, Running, Children

----------------------------------------------------------------------------
(* The end of all daemons.                                                 *)

\* What changes nothing of the daemons keeps the state sound.
LEMMA SameDaemons ==
    ASSUME NEW s, Sound(s), NEW t \in State, t.ds = s.ds
    PROVE  /\ Sound(t) /\ Running(t) = Running(s) /\ Children(t) = Children(s)
           /\ \A d \in Daemon : Stopped(s.ds[d], t.ds[d])
BY DEF Sound, Running, Children, Stopped

\* What the stop of all daemons leaves alone of the globals.
SameFlags(k, l) ==
    /\ l.shutting = k.shutting /\ l.StartDaemons = k.StartDaemons
    /\ l.GotDaemonsOff = k.GotDaemonsOff /\ l.action = k.action

\* What the stop of all daemons makes of a state.
Halted(s, t) ==
    /\ Sound(t) /\ Ends(t) /\ SameFlags(s.m, t.m)
    /\ \A d \in Daemon : Stopped(s.ds[d], t.ds[d])

\* With no daemon left, the master goes back to the default reaper, stops those
\* that were kept to the last, or ends (Daemons::AllDaemonsGone).
LEMMA GoneOK ==
    ASSUME NEW s, Sound(s), Children(s) = {}
    PROVE  Halted(s, AllDaemonsGone(s))
<1> DEFINE t == AllDaemonsGone(s)
<1>0. s \in State /\ s.m \in MasterRecord
  BY DEF Sound, State
<1>1. CASE s.m.action = "MASTER_RESET"
  <2>1. t = [s EXCEPT !.m.reaper = "DEFAULT_R"]
    BY <1>1 DEF AllDaemonsGone
  <2>2. t \in State /\ t.ds = s.ds /\ t.m.reaper = "DEFAULT_R" /\ SameFlags(s.m, t.m)
    BY SMTT(30), <1>0, <2>1 DEF State, MasterRecord, SameFlags
  <2> HIDE DEF t
  <2> QED
    BY <2>2, SameDaemons DEF Halted, Ends, t
<1>2. CASE s.m.action # "MASTER_RESET" /\ Running(s) # {}
  <2>1. t = Stop(s, Running(s))
    BY <1>2 DEF AllDaemonsGone
  <2>a. Running(s) \in SUBSET Daemon
    BY DEF Running
  <2> HIDE DEF t
  <2>2. Sound(t) /\ Stops(s, t)
    BY <2>1, <2>a, StopOK
  <2>3. t.m = s.m /\ Running(t) # {}
    BY <1>2, <2>2, StopsRunning DEF Stops
  <2> QED
    BY <1>2, <2>2, <2>3 DEF Halted, Ends, Stops, SameFlags, t
<1>3. CASE s.m.action = "MASTER_RESTART" /\ Running(s) = {}
  <2>1. t = [s EXCEPT !.m.final = TRUE]
    BY <1>3 DEF AllDaemonsGone
  <2> DEFINE k == [s.m EXCEPT !.final = TRUE]
  <2>a. k \in MasterRecord /\ k.final = TRUE /\ SameFlags(s.m, k)
    BY <1>0 DEF MasterRecord, SameFlags
  <2>b. t = [s EXCEPT !.m = k]
    BY <2>1
  <2> HIDE DEF k
  <2>2. t \in State /\ t.ds = s.ds /\ t.m.final = TRUE /\ SameFlags(s.m, t.m)
    BY <1>0, <2>a, <2>b DEF State
  <2> HIDE DEF t
  <2> QED
    BY <1>3, <2>2, SameDaemons DEF Halted, Ends, SameFlags, t
<1>4. CASE s.m.action = "MASTER_EXIT" /\ Running(s) = {}
  <2>1. t = [s EXCEPT !.m.up = "exited"]
    BY <1>4 DEF AllDaemonsGone
  <2>2. t \in State /\ t.ds = s.ds /\ t.m.up = "exited" /\ SameFlags(s.m, t.m)
    BY SMTT(30), <1>0, <2>1 DEF State, MasterRecord, SameFlags
  <2> HIDE DEF t
  <2> QED
    BY <2>2, SameDaemons DEF Halted, Ends, t
<1> QED
  BY <1>0, <1>1, <1>2, <1>3, <1>4 DEF MasterRecord

\* A stop of daemons while others run.
LEMMA StillRuns ==
    ASSUME NEW s, NEW t, NEW u, Sound(s), Sound(t), Stops(s, t), Children(s) # {},
           u \in State, u.ds = t.ds, SameFlags(s.m, u.m)
    PROVE  Halted(s, u)
<1>1. Children(t) = Children(s)
  BY StopsRunning
<1>2. Sound(u) /\ Children(u) = Children(t)
  BY SameDaemons
<1> QED
  BY <1>1, <1>2 DEF Halted, Ends, Stops

\* SetAllReaper and CancelRetry begin every stop of all daemons.
LEMMA ReaperSet ==
    ASSUME NEW s, Sound(s)
    PROVE  LET t == SetAllReaper(CancelRetry(s)) IN
           /\ Sound(t) /\ t.ds = s.ds /\ SameFlags(s.m, t.m) /\ t.m.reaper = "ALL_R"
<1> DEFINE t == SetAllReaper(CancelRetry(s))
<1>1. t \in State /\ t.ds = s.ds /\ SameFlags(s.m, t.m) /\ t.m.reaper = "ALL_R"
  BY DEF Sound, State, MasterRecord, SetAllReaper, CancelRetry, SameFlags
<1> HIDE DEF t
<1>2. Sound(t)
  BY <1>1, SameDaemons
<1> QED
  BY <1>1, <1>2 DEF t

\* Halting after a change of globals that keeps the flags.
LEMMA HaltedAfter ==
    ASSUME NEW s, NEW t, NEW u, t.ds = s.ds, SameFlags(s.m, t.m), Halted(t, u)
    PROVE  Halted(s, u)
BY DEF Halted, SameFlags

\* RestartKept does not speak of daemons that are off.
LEMMA OffKept ==
    ASSUME NEW s, Sound(s), Off(s.m)
    PROVE  Kept(s) /\ Switched(s.m)
BY DEF Off, Kept, Switched

\* Daemons::StopAllDaemons.
LEMMA StopAllOK ==
    ASSUME NEW s, Sound(s)
    PROVE  Halted(s, StopAllDaemons(s))
<1> DEFINE t == SetAllReaper(CancelRetry(s))
           C == Children(t)
           D == C \cap Startds
<1>1. Sound(t) /\ t.ds = s.ds /\ SameFlags(s.m, t.m)
  BY ReaperSet
<1>2. C \in SUBSET Daemon /\ D \in SUBSET Daemon
  BY DEF Children, Running
<1>3. /\ C = {} => StopAllDaemons(s) = AllDaemonsGone(t)
      /\ C # {} /\ D # {} => StopAllDaemons(s) = [Stop(t, D) EXCEPT !.m.stop_others = "GRACEFUL"]
      /\ C # {} /\ D = {} => StopAllDaemons(s) = Stop(t, C)
  BY DEF StopAllDaemons
<1> HIDE DEF t, D
<1>4. CASE C = {}
  BY <1>1, <1>3, <1>4, GoneOK, HaltedAfter
<1>5. CASE C # {} /\ D # {}
  <2> DEFINE v == Stop(t, D)
             u == [v EXCEPT !.m.stop_others = "GRACEFUL"]
  <2>1. Sound(v) /\ Stops(t, v)
    BY <1>1, <1>2, StopOK
  <2> HIDE DEF v
  <2>2. u \in State /\ u.ds = v.ds /\ SameFlags(v.m, u.m)
    BY <2>1 DEF Sound, State, MasterRecord, SameFlags
  <2>3. SameFlags(t.m, u.m)
    BY <2>1, <2>2 DEF Stops
  <2>4. StopAllDaemons(s) = u
    BY <1>3, <1>5 DEF v
  <2> HIDE DEF u
  <2> QED
    BY <1>1, <1>5, <2>1, <2>2, <2>3, <2>4, StillRuns, HaltedAfter
<1>6. CASE C # {} /\ D = {}
  <2>1. Sound(Stop(t, C)) /\ Stops(t, Stop(t, C))
    BY <1>1, <1>2, StopOK
  <2>2. Stop(t, C) \in State /\ SameFlags(t.m, Stop(t, C).m)
    BY <2>1 DEF Sound, Stops, SameFlags
  <2> QED
    BY <1>1, <1>3, <1>6, <2>1, <2>2, StillRuns, HaltedAfter, ZenonT(60)
<1> QED
  BY <1>4, <1>5, <1>6

\* Daemons::StopPeacefulAllDaemons.
LEMMA StopPeacefulAllOK ==
    ASSUME NEW s, Sound(s)
    PROVE  Halted(s, StopPeacefulAllDaemons(s))
<1> DEFINE t == SetAllReaper(CancelRetry(s))
           C == Children(t)
           D == C \cap Startds
<1>1. Sound(t) /\ t.ds = s.ds /\ SameFlags(s.m, t.m)
  BY ReaperSet
<1>3. /\ C = {} => StopPeacefulAllDaemons(s) = AllDaemonsGone(t)
      /\ C # {} /\ D # {} => StopPeacefulAllDaemons(s) =
              [ToEach(t, D, StopPeaceful) EXCEPT !.m.stop_others = "PEACEFUL"]
      /\ C # {} /\ D = {} => StopPeacefulAllDaemons(s) = ToEach(t, C, StopPeaceful)
  BY DEF StopPeacefulAllDaemons
<1> HIDE DEF t, D
<1>4. CASE C = {}
  BY <1>1, <1>3, <1>4, GoneOK, HaltedAfter
<1>5. CASE C # {} /\ D # {}
  <2> DEFINE v == ToEach(t, D, StopPeaceful)
             u == [v EXCEPT !.m.stop_others = "PEACEFUL"]
  <2>1. Sound(v) /\ Stops(t, v)
    BY <1>1, EachPeaceful
  <2> HIDE DEF v
  <2>2. u \in State /\ u.ds = v.ds /\ SameFlags(v.m, u.m)
    BY <2>1 DEF Sound, State, MasterRecord, SameFlags
  <2>3. SameFlags(t.m, u.m)
    BY <2>1, <2>2 DEF Stops
  <2>4. StopPeacefulAllDaemons(s) = u
    BY <1>3, <1>5 DEF v
  <2> HIDE DEF u
  <2> QED
    BY <1>1, <1>5, <2>1, <2>2, <2>3, <2>4, StillRuns, HaltedAfter
<1>6. CASE C # {} /\ D = {}
  <2> DEFINE v == ToEach(t, C, StopPeaceful)
  <2>1. Sound(v) /\ Stops(t, v)
    BY <1>1, EachPeaceful
  <2>3. StopPeacefulAllDaemons(s) = v
    BY <1>3, <1>6
  <2> HIDE DEF v
  <2>2. v \in State /\ SameFlags(t.m, v.m)
    BY <2>1 DEF Sound, Stops, SameFlags
  <2> QED
    BY <1>1, <1>6, <2>1, <2>2, <2>3, StillRuns, HaltedAfter
<1> QED
  BY <1>4, <1>5, <1>6

\* Daemons::StopFastAllDaemons.
LEMMA StopFastAllOK ==
    ASSUME NEW s, Sound(s)
    PROVE  Halted(s, StopFastAllDaemons(s))
<1> DEFINE t == SetAllReaper(CancelRetry(s))
           C == Children(t)
<1>1. Sound(t) /\ t.ds = s.ds /\ SameFlags(s.m, t.m)
  BY ReaperSet
<1>3. /\ C = {} => StopFastAllDaemons(s) = AllDaemonsGone(t)
      /\ C # {} => StopFastAllDaemons(s) = StopFast(t, C)
  BY DEF StopFastAllDaemons
<1> HIDE DEF t
<1>4. CASE C = {}
  BY <1>1, <1>3, <1>4, GoneOK, HaltedAfter
<1>6. CASE C # {}
  <2>1. Sound(StopFast(t, C)) /\ Stops(t, StopFast(t, C))
    BY <1>1, StopFastOK
  <2>2. StopFast(t, C) \in State /\ SameFlags(t.m, StopFast(t, C).m)
    BY <2>1 DEF Sound, Stops, SameFlags
  <2> QED
    BY <1>1, <1>3, <1>6, <2>1, <2>2, StillRuns, HaltedAfter
<1> QED
  BY <1>4, <1>6

----------------------------------------------------------------------------
(* Starts.                                                                 *)

\* A change of one daemon keeps the state sound.
LEMMA OneRecord ==
    ASSUME NEW s, Sound(s), NEW d \in Daemon, NEW r, RecordOK(d, r),
           r.stop_fast = "armed" => s.ds[d].stop_fast = "armed",
           s.ds[d].pid => r.pid
    PROVE  LET t == [s EXCEPT !.ds[d] = r] IN
           /\ Sound(t) /\ t.m = s.m /\ t.ds[d] = r
           /\ \A e \in Daemon \ {d} : t.ds[e] = s.ds[e]
<1> DEFINE f == [s.ds EXCEPT ![d] = r]
           t == [s EXCEPT !.ds = f]
<1>1. s \in State /\ s.ds \in [Daemon -> DaemonRecord] /\ r \in DaemonRecord
  BY DEF Sound, State, RecordOK, Plain
<1>2. f \in [Daemon -> DaemonRecord] /\ f[d] = r /\ \A e \in Daemon \ {d} : f[e] = s.ds[e]
  BY <1>1
<1> HIDE DEF f
<1>3. t.ds = f /\ t.m = s.m /\ t \in State
  BY <1>1, <1>2 DEF State
<1> HIDE DEF t
<1>4. ASSUME NEW e \in Daemon, Controller[e] # NoDaemon, f[e].stop_fast = "armed"
      PROVE  f[Controller[e]].pid
  <2>1. Controller[e] \in Daemon
    BY <1>4, MasterAssumption
  <2>2. s.ds[e].stop_fast = "armed"
    BY <1>2, <1>4
  <2>3. s.ds[Controller[e]].pid
    BY <1>4, <2>2 DEF Sound
  <2> QED
    BY <1>2, <2>1, <2>3
<1>5. \A e \in Daemon : RecordOK(e, f[e])
  BY <1>2 DEF Sound
<1>6. Sound(t)
  BY <1>3, <1>4, <1>5 DEF Sound
<1> QED
  BY <1>2, <1>3, <1>6 DEF t, f

\* A hold is all that Hold changes.
LEMMA HoldOK ==
    ASSUME NEW s, Sound(s), NEW d \in Daemon, NEW h \in BOOLEAN
    PROVE  LET t == HoldSelf(s, d, h) IN
           /\ Sound(t) /\ t.m = s.m /\ t.ds[d] = [s.ds[d] EXCEPT !.on_hold = h]
           /\ \A e \in Daemon \ {d} : t.ds[e] = s.ds[e]
<1> DEFINE r == [s.ds[d] EXCEPT !.on_hold = h]
<1>1. RecordOK(d, s.ds[d])
  BY DEF Sound
<1>2. RecordOK(d, r) /\ r.stop_fast = s.ds[d].stop_fast /\ r.pid = s.ds[d].pid
  BY <1>1 DEF RecordOK, Plain, Dated, DaemonRecord
<1>3. HoldSelf(s, d, h) = [s EXCEPT !.ds[d] = r]
  BY DEF HoldSelf
<1> HIDE DEF r
<1>4. LET t == [s EXCEPT !.ds[d] = r] IN
      /\ Sound(t) /\ t.m = s.m /\ t.ds[d] = r
      /\ \A e \in Daemon \ {d} : t.ds[e] = s.ds[e]
  BY SMTT(30), <1>2, OneRecord
<1> QED
  BY <1>3, <1>4 DEF r

\* Only the controller is stopped when a controllee gives up.
LEMMA StopOne ==
    ASSUME NEW s, Sound(s), NEW d \in Daemon
    PROVE  /\ Sound(Stop(s, {d})) /\ Stops(s, Stop(s, {d}))
           /\ \A e \in Daemon \ {Target(d)} : Stop(s, {d}).ds[e] = s.ds[e]
<1>1. {d} \in SUBSET Daemon /\ Targets({d}) = {Target(d)}
  BY DEF Targets
<1>2. Stop(s, {d}).ds = [e \in Daemon |-> IF e \in Targets({d}) THEN StopSelf(s.ds[e])
                                                            ELSE s.ds[e]]
  BY DEF Stop, ToEach, Sound, State
<1> QED
  BY <1>1, <1>2, StopOK

\* Which daemons may be touched when d is restarted.
Touched(s, d) == {d} \cup (IF GivesUp(s, d) THEN {Controller[d]} ELSE {})

\* What the start or the restart of d makes of a state.
Launched(s, t, d) ==
    /\ Sound(t) /\ t.m = s.m
    /\ \A e \in Daemon :
          /\ s.ds[e].pid => t.ds[e].pid
          /\ s.ds[e].on_hold => t.ds[e].on_hold
          /\ e # d => Stopped(s.ds[e], t.ds[e])
          /\ e \notin Touched(s, d) => t.ds[e] = s.ds[e]
    /\ GivesUp(s, d) \/ t.ds[d].on_hold = s.ds[d].on_hold
    /\ t.ds[d].pid \/ t.ds[d].start \/ t.ds[d].on_hold \/ s.m.shutting

\* A restart that is not held is pending (daemon::Restart).
LEMMA RestartOK ==
    ASSUME NEW s, Sound(s), NEW d \in Daemon
    PROVE  Launched(s, Restart(s, d), d)
<1> DEFINE t == IF GivesUp(s, d) THEN HoldSelf(Stop(s, {d}), d, TRUE) ELSE s
           r == t.ds[d]
           n == IF r.newExec THEN 0 ELSE IF r.restarts < 2 THEN r.restarts + 1 ELSE 2
           q == [r EXCEPT !.restarts = n, !.newExec = FALSE, !.recover = FALSE, !.start = TRUE]
           u == [t EXCEPT !.ds[d] = q]
<1>1. Restart(s, d) = IF r.on_hold THEN t ELSE u
  BY DEF Restart
<1>2. /\ Sound(t) /\ t.m = s.m
      /\ \A e \in Daemon : /\ t.ds[e].pid = s.ds[e].pid
                           /\ s.ds[e].on_hold => t.ds[e].on_hold
                           /\ e # d => Stopped(s.ds[e], t.ds[e])
                           /\ e \notin Touched(s, d) => t.ds[e] = s.ds[e]
      /\ GivesUp(s, d) \/ t.ds[d].on_hold = s.ds[d].on_hold
  <2>1. CASE GivesUp(s, d)
    <3> DEFINE v == Stop(s, {d})
    <3>1. /\ Sound(v) /\ Stops(s, v) /\ Target(d) = Controller[d]
          /\ \A e \in Daemon \ {Controller[d]} : v.ds[e] = s.ds[e]
      BY <2>1, StopOne DEF GivesUp, Target
    <3> HIDE DEF v
    <3>a. t = HoldSelf(v, d, TRUE)
      BY <2>1 DEF v
    <3>b. LET x == HoldSelf(v, d, TRUE) IN
          /\ Sound(x) /\ x.m = v.m /\ x.ds[d] = [v.ds[d] EXCEPT !.on_hold = TRUE]
          /\ \A e \in Daemon \ {d} : x.ds[e] = v.ds[e]
      BY <3>1, HoldOK
    <3>2. /\ Sound(t) /\ t.m = v.m /\ t.ds[d] = [v.ds[d] EXCEPT !.on_hold = TRUE]
          /\ \A e \in Daemon \ {d} : t.ds[e] = v.ds[e]
      BY <3>a, <3>b
    <3> HIDE DEF t
    <3>3. v.ds[d] \in DaemonRecord
      BY <3>1 DEF Sound, RecordOK, Plain
    <3>4. t.ds[d].on_hold = TRUE /\ t.ds[d].pid = v.ds[d].pid
      BY <3>2, <3>3 DEF DaemonRecord
    <3> QED
      BY <2>1, <3>1, <3>2, <3>4, ZenonT(60) DEF Stops, Stopped, Touched
  <2>2. CASE ~GivesUp(s, d)
    BY <2>2 DEF Stopped
  <2> QED
    BY <2>1, <2>2
<1> HIDE DEF t
<1>3. RecordOK(d, r)
  BY <1>2 DEF Sound
<1>a. n \in 0 .. 2
  BY SMTT(30), <1>3 DEF RecordOK, Plain, DaemonRecord
<1> HIDE DEF n
<1>4. /\ RecordOK(d, q) /\ q.stop_fast = r.stop_fast /\ q.pid = r.pid
      /\ q.on_hold = r.on_hold /\ q.start = TRUE
  BY ZenonT(60), <1>3, <1>a DEF RecordOK, Plain, Dated, DaemonRecord
<1> HIDE DEF q
<1>5. /\ Sound(u) /\ u.m = t.m /\ u.ds[d] = q
      /\ \A e \in Daemon \ {d} : u.ds[e] = t.ds[e]
  <2>1. /\ q.stop_fast = "armed" => t.ds[d].stop_fast = "armed"
        /\ t.ds[d].pid => q.pid
    BY <1>4
  <2> QED
    BY SMTT(30), <1>2, <1>4, <2>1, OneRecord
<1> HIDE DEF u
<1>6. CASE r.on_hold
  BY <1>1, <1>2, <1>6 DEF Launched
<1>7. CASE ~r.on_hold
  <2>1. Restart(s, d) = u
    BY <1>1, <1>7
  <2>2. d \in Touched(s, d)
    BY DEF Touched
  <2> QED
    BY <1>2, <1>4, <1>5, <2>1, <2>2 DEF Launched
<1> QED
  BY <1>6, <1>7

\* A change of d that neither starts, holds nor restarts it.
Aside(s, t, d) ==
    /\ t.m = s.m
    /\ t.ds[d].pid = s.ds[d].pid /\ t.ds[d].on_hold = s.ds[d].on_hold
    /\ t.ds[d].restarts = s.ds[d].restarts
    /\ \A e \in Daemon \ {d} : t.ds[e] = s.ds[e]

\* Such a change before a start makes no difference.
LEMMA LaunchedAside ==
    ASSUME NEW s, NEW t, NEW u, NEW d \in Daemon, Aside(s, t, d), Launched(t, u, d)
    PROVE  Launched(s, u, d)
<1>1. GivesUp(s, d) = GivesUp(t, d) /\ Touched(s, d) = Touched(t, d) /\ d \in Touched(t, d)
  BY DEF Aside, GivesUp, Touched
<1> QED
  BY <1>1 DEF Aside, Launched

\* The process runs, or it is started again later (daemon::RealStart).
LEMMA RealStartOK ==
    ASSUME NEW s, Sound(s), NEW d \in Daemon, NEW outcome \in Outcomes
    PROVE  /\ Launched(s, RealStart(s, d, outcome), d)
           /\ outcome = "ok" => \A e \in Daemon \ {d} : RealStart(s, d, outcome).ds[e] = s.ds[e]
<1> DEFINE r == s.ds[d]
           f == r.file /\ d \notin WaitFile
           q == [r EXCEPT !.file = f]
           c == q.recover \/ r.restarts > 0
           p == [q EXCEPT !.pid = TRUE, !.killed = FALSE, !.waiting = TRUE,
                          !.recover = c, !.newExec = FALSE]
           v == [s EXCEPT !.ds[d] = q]
           w == [s EXCEPT !.ds[d] = p]
<1>1. RecordOK(d, r)
  BY DEF Sound
<1>2. f \in BOOLEAN /\ c \in BOOLEAN
  OBVIOUS
<1>3. CASE r.on_hold \/ r.pid \/ s.m.shutting
  <2>1. RealStart(s, d, outcome) = s
    BY <1>3 DEF RealStart
  <2> QED
    BY <1>3, <2>1 DEF Launched, Stopped
<1>4. CASE ~(r.on_hold \/ r.pid \/ s.m.shutting) /\ outcome = "access"
  <2>1. RealStart(s, d, outcome) = Restart(s, d)
    BY <1>4 DEF RealStart
  <2> QED
    BY <1>4, <2>1, RestartOK
<1>5. CASE ~(r.on_hold \/ r.pid \/ s.m.shutting) /\ outcome = "create"
  <2>1. RealStart(s, d, outcome) = Restart(v, d)
    BY <1>5 DEF RealStart
  <2> HIDE DEF f
  <2>2. /\ RecordOK(d, q) /\ q.stop_fast = r.stop_fast /\ q.pid = r.pid
        /\ q.on_hold = r.on_hold /\ q.restarts = r.restarts
    BY <1>1, <1>2 DEF RecordOK, Plain, Dated, DaemonRecord
  <2> HIDE DEF q
  <2>3. /\ Sound(v) /\ v.m = s.m /\ v.ds[d] = q
        /\ \A e \in Daemon \ {d} : v.ds[e] = s.ds[e]
    <3>1. /\ q.stop_fast = "armed" => s.ds[d].stop_fast = "armed"
          /\ s.ds[d].pid => q.pid
      BY <2>2
    <3> QED
      BY SMTT(30), <2>2, <3>1, OneRecord
  <2> HIDE DEF v
  <2>4. Aside(s, v, d)
    BY <2>2, <2>3 DEF Aside
  <2> QED
    BY <1>5, <2>1, <2>3, <2>4, RestartOK, LaunchedAside
<1>6. CASE ~(r.on_hold \/ r.pid \/ s.m.shutting) /\ outcome = "ok"
  <2>1. RealStart(s, d, outcome) = w
    BY <1>6 DEF RealStart
  <2> HIDE DEF f, c
  <2>a. r \in DaemonRecord /\ r.stop_state = "NONE" /\ r.stop_fast # "armed"
    BY <1>1, <1>6 DEF RecordOK, Plain
  <2>b. /\ p \in DaemonRecord /\ p.stop_state = "NONE" /\ p.stop_fast = r.stop_fast
        /\ p.pid = TRUE /\ p.on_hold = r.on_hold
    BY <1>2, <2>a, ZenonT(60) DEF DaemonRecord
  <2> HIDE DEF p
  <2>2. RecordOK(d, p)
    BY <2>a, <2>b DEF RecordOK, Plain, Dated
  <2>3. /\ Sound(w) /\ w.m = s.m /\ w.ds[d] = p
        /\ \A e \in Daemon \ {d} : w.ds[e] = s.ds[e]
    <3>1. /\ p.stop_fast = "armed" => s.ds[d].stop_fast = "armed"
          /\ s.ds[d].pid => p.pid
      BY <2>b
    <3> QED
      BY SMTT(30), <2>2, <3>1, OneRecord
  <2> HIDE DEF w
  <2>4. d \in Touched(s, d) /\ w.ds[d].pid /\ w.ds[d].on_hold = s.ds[d].on_hold
    BY <2>b, <2>3 DEF Touched
  <2>5. Launched(s, w, d)
    BY <2>3, <2>4 DEF Launched, Stopped
  <2> QED
    BY <2>1, <2>3, <2>5
<1> QED
  BY <1>3, <1>4, <1>5, <1>6 DEF Outcomes

\* Start forgets the pending start and starts (daemon::Start, DoStart).
LEMMA StartSelfOK ==
    ASSUME NEW s, Sound(s), NEW d \in Daemon, NEW outcome \in Outcomes
    PROVE  /\ Launched(s, StartSelf(s, d, outcome), d)
           /\ outcome = "ok" => \A e \in Daemon \ {d} : StartSelf(s, d, outcome).ds[e] = s.ds[e]
<1> DEFINE r == s.ds[d]
           q == [r EXCEPT !.start = FALSE]
           v == [s EXCEPT !.ds[d] = q]
<1>1. RecordOK(d, r)
  BY DEF Sound
<1>2. /\ RecordOK(d, q) /\ q.stop_fast = r.stop_fast /\ q.pid = r.pid
      /\ q.on_hold = r.on_hold /\ q.restarts = r.restarts
  BY <1>1 DEF RecordOK, Plain, Dated, DaemonRecord
<1>3. StartSelf(s, d, outcome) = RealStart(v, d, outcome)
  BY DEF StartSelf
<1> HIDE DEF q
<1>4. /\ Sound(v) /\ v.m = s.m /\ v.ds[d] = q
      /\ \A e \in Daemon \ {d} : v.ds[e] = s.ds[e]
  <2>1. /\ q.stop_fast = "armed" => s.ds[d].stop_fast = "armed"
        /\ s.ds[d].pid => q.pid
    BY <1>2
  <2> QED
    BY SMTT(30), <1>2, <2>1, OneRecord
<1> HIDE DEF v
<1>5. Aside(s, v, d)
  BY <1>2, <1>4 DEF Aside
<1>6. /\ Launched(v, RealStart(v, d, outcome), d)
      /\ outcome = "ok" => \A e \in Daemon \ {d} : RealStart(v, d, outcome).ds[e] = v.ds[e]
  BY <1>4, RealStartOK
<1> QED
  BY <1>3, <1>4, <1>5, <1>6, LaunchedAside

----------------------------------------------------------------------------
(* StartAllDaemons, by induction over the set of the numbers for which the *)
(* claim holds.                                                            *)

INSTANCE WellFoundedInduction

\* A set with 0 and all successors of its numbers has all of them.
LEMMA NatInductionOnSet ==
    ASSUME NEW T, 0 \in T, \A n \in Nat : n \in T => n + 1 \in T
    PROVE  Nat \subseteq T
<1> DEFINE R == {ss \in Nat \X Nat : ss[1] < ss[2]}
<1> SUFFICES ASSUME Nat \ T # {} PROVE FALSE
  OBVIOUS
<1>1. IsWellFoundedOn(R, Nat)
  BY NatLessThanWellFounded DEF OpToRel
<1>2. \A i, n \in Nat : i < n => <<i, n>> \in R
  OBVIOUS
<1> HIDE DEF R
<1>3. PICK n \in Nat \ T : \A i \in Nat \ T : <<i, n>> \notin R
  BY <1>1, WFMin
<1>4. n # 0 /\ n - 1 \in Nat /\ n - 1 < n /\ (n - 1) + 1 = n
  BY SMTT(30), <1>3
<1>5. n - 1 \in T
  BY <1>2, <1>3, <1>4
<1> QED BY <1>3, <1>4, <1>5

\* A daemon that runs, will be started, or is not to run.
Settled(s, d) ==
    s.ds[d].pid \/ s.ds[d].start \/ s.ds[d].on_hold \/ s.m.shutting

\* StartAllDaemons begun at s has got to acc, past the first i daemons.
Began(s, acc, i) ==
    /\ acc.go \in BOOLEAN
    /\ Sound(acc.s) /\ acc.s.m \in {s.m, [s.m EXCEPT !.retry = TRUE]}
    /\ \A e \in Daemon : s.ds[e].pid => acc.s.ds[e].pid
    /\ acc.go => \A j \in 1 .. i : Controller[Order[j]] = NoDaemon =>
                                       Settled(acc.s, Order[j])
    /\ ~acc.go => acc.s.m.retry

\* A daemon that does not run is released and started, or its controller is.
LEMMA ReleasedOK ==
    ASSUME NEW s, Sound(s), NEW d \in Daemon, NEW outcome \in Outcomes
    PROVE  LET t == Start(Hold(s, d, FALSE), d, outcome) IN
           /\ Sound(t) /\ t.m = s.m
           /\ \A e \in Daemon : s.ds[e].pid => t.ds[e].pid
           /\ \A e \in Daemon : e # Target(d) => t.ds[e] = s.ds[e]
           /\ Settled(t, Target(d))
<1> DEFINE c == Target(d)
           v == HoldSelf(s, c, FALSE)
           t == StartSelf(v, c, outcome)
<1>1. c \in Daemon /\ Controller[c] = NoDaemon
  BY TargetFree
<1>2. Start(Hold(s, d, FALSE), d, outcome) = t
  BY DEF Start, Hold, HoldSelf
<1> HIDE DEF c
<1>3. /\ Sound(v) /\ v.m = s.m /\ v.ds[c] = [s.ds[c] EXCEPT !.on_hold = FALSE]
      /\ \A e \in Daemon \ {c} : v.ds[e] = s.ds[e]
  BY <1>1, HoldOK
<1> HIDE DEF v
<1>4. Launched(v, t, c)
  BY <1>1, <1>3, StartSelfOK
<1> HIDE DEF t
<1>5. v.ds[c].pid = s.ds[c].pid
  BY SMTT(30), <1>1, <1>3 DEF Sound, State, DaemonRecord
<1>6. Touched(v, c) = {c}
  BY <1>1 DEF Touched, GivesUp
<1>7. /\ Sound(t) /\ t.m = s.m
      /\ \A e \in Daemon : s.ds[e].pid => t.ds[e].pid
      /\ \A e \in Daemon : e # c => t.ds[e] = s.ds[e]
      /\ Settled(t, c)
  BY ZenonT(60), <1>1, <1>3, <1>4, <1>5, <1>6 DEF Launched, Settled
<1> QED
  BY <1>2, <1>7 DEF c

\* One more daemon (the loop of Daemons::StartAllDaemons).
LEMMA StartNextOK ==
    ASSUME NEW s, Sound(s), NEW acc, NEW i \in Nat, i + 1 \in 1 .. Len(Order),
           Began(s, acc, i), NEW outcome \in [Daemon -> Outcomes]
    PROVE  Began(s, StartNext(acc, Order[i + 1], outcome), i + 1)
<1> DEFINE d == Order[i + 1]
           x == Start(Hold(acc.s, d, FALSE), d, outcome[Target(d)])
           t == IF acc.s.ds[d].pid THEN acc.s ELSE x
           k == [t.m EXCEPT !.retry = TRUE]
           u == [t EXCEPT !.m.retry = TRUE]
           r == [t.ds[d] EXCEPT !.waiting = FALSE]
           w == [t EXCEPT !.ds[d].waiting = FALSE]
<1>0. d \in Daemon /\ Target(d) \in Daemon /\ outcome[Target(d)] \in Outcomes
  <2>1. d \in Daemon
    BY DEF Daemon
  <2> QED
    BY <2>1, TargetFree
<1>a. \A j \in 1 .. i + 1 : j \in 1 .. i \/ j = i + 1
  BY SMTT(30)
<1>1. CASE ~acc.go
  <2>1. StartNext(acc, d, outcome) = acc
    BY <1>1 DEF StartNext
  <2> QED
    BY <1>1, <2>1 DEF Began
<1>2. CASE acc.go
  <2>1. /\ Sound(t) /\ t.m = acc.s.m
        /\ \A e \in Daemon : acc.s.ds[e].pid => t.ds[e].pid
        /\ \A e \in Daemon : e # Target(d) => t.ds[e] = acc.s.ds[e]
        /\ t = acc.s \/ Settled(t, Target(d))
        /\ Controller[d] = NoDaemon => Settled(t, d)
    <3>1. CASE acc.s.ds[d].pid
      BY <3>1 DEF Began, Settled
    <3>2. CASE ~acc.s.ds[d].pid
      <4>1. Sound(acc.s) /\ t = x
        BY <3>2 DEF Began
      <4> HIDE DEF t, d
      <4>2. /\ Sound(x) /\ x.m = acc.s.m
            /\ \A e \in Daemon : acc.s.ds[e].pid => x.ds[e].pid
            /\ \A e \in Daemon : e # Target(d) => x.ds[e] = acc.s.ds[e]
            /\ Settled(x, Target(d))
        BY <1>0, <4>1, ReleasedOK
      <4>3. Controller[d] = NoDaemon => Target(d) = d
        BY DEF Target
      <4> HIDE DEF x
      <4> QED
        BY <4>1, <4>2, <4>3
    <3> QED
      BY <3>1, <3>2
  <2>2. StartNext(acc, d, outcome) = IF HasToWait(t.ds[d], d) THEN [s |-> u, go |-> FALSE]
                                                              ELSE [s |-> w, go |-> TRUE]
    BY <1>2 DEF StartNext
  <2> HIDE DEF t
  <2>3. ASSUME NEW j \in 1 .. i + 1, Controller[Order[j]] = NoDaemon
        PROVE  Settled(t, Order[j])
    <3>1. CASE j = i + 1
      BY <2>1, <2>3, <3>1
    <3>2. CASE j \in 1 .. i
      <4>1. Order[j] \in Daemon /\ Settled(acc.s, Order[j])
        BY SMTT(30), <1>2, <2>3, <3>2 DEF Daemon, Began
      <4> HIDE DEF d
      <4> QED
        BY <2>1, <4>1 DEF Settled
    <3> QED
      BY <1>a, <3>1, <3>2
  <2> HIDE DEF d
  <2>4. t \in State /\ t.m \in MasterRecord /\ s.m \in MasterRecord
    BY <2>1 DEF Sound, State
  <2>5. CASE HasToWait(t.ds[d], d)
    <3>1. k \in MasterRecord /\ k.retry = TRUE /\ k \in {s.m, [s.m EXCEPT !.retry = TRUE]}
      <4>1. k \in MasterRecord /\ k.retry = TRUE
        BY <2>4 DEF MasterRecord
      <4>2. t.m \in {s.m, [s.m EXCEPT !.retry = TRUE]}
        BY <2>1 DEF Began
      <4>3. k = [s.m EXCEPT !.retry = TRUE]
        BY <2>4, <4>2 DEF MasterRecord
      <4> QED
        BY <4>1, <4>3
    <3>2. u = [t EXCEPT !.m = k]
      OBVIOUS
    <3> HIDE DEF k
    <3>3. u \in State /\ u.ds = t.ds /\ u.m = k
      BY <2>4, <3>1, <3>2 DEF State
    <3> HIDE DEF u
    <3>4. Sound(u)
      BY <2>1, <3>3, SameDaemons
    <3> QED
      BY SMTT(30), <2>1, <2>2, <2>5, <3>1, <3>3, <3>4 DEF Began, d
  <2>6. CASE ~HasToWait(t.ds[d], d)
    <3>1. RecordOK(d, t.ds[d])
      BY <1>0, <2>1 DEF Sound
    <3>2. /\ RecordOK(d, r) /\ r.stop_fast = t.ds[d].stop_fast /\ r.pid = t.ds[d].pid
          /\ r.start = t.ds[d].start /\ r.on_hold = t.ds[d].on_hold
      BY ZenonT(60), <3>1 DEF RecordOK, Plain, Dated, DaemonRecord
    <3>3. w = [t EXCEPT !.ds[d] = r]
      OBVIOUS
    <3> HIDE DEF r, w
    <3>4. LET v == [t EXCEPT !.ds[d] = r] IN
          /\ Sound(v) /\ v.m = t.m /\ v.ds[d] = r
          /\ \A e \in Daemon \ {d} : v.ds[e] = t.ds[e]
      BY SMTT(30), <1>0, <2>1, <3>2, OneRecord
    <3>5. /\ Sound(w) /\ w.m = t.m
          /\ \A e \in Daemon : /\ w.ds[e].pid = t.ds[e].pid /\ w.ds[e].start = t.ds[e].start
                               /\ w.ds[e].on_hold = t.ds[e].on_hold
      BY <3>2, <3>3, <3>4
    <3>6. \A j \in 1 .. i + 1 : Controller[Order[j]] = NoDaemon => Settled(w, Order[j])
      <4>1. \A j \in 1 .. i + 1 : Order[j] \in Daemon
        BY SMTT(30) DEF Daemon
      <4> QED
        BY <2>3, <3>5, <4>1 DEF Settled
    <3> QED
      BY SMTT(30), <2>1, <2>2, <2>6, <3>5, <3>6 DEF Began, d
  <2> QED
    BY <2>5, <2>6
<1> QED
  BY <1>1, <1>2 DEF Began

\* What StartAllDaemons makes of a state: a daemon that should run does, or it
\* will be started, or the start of the others will be tried again.
StartedAll(s, t) ==
    /\ Sound(t) /\ Kept(t)
    /\ t.m \in {s.m, [s.m EXCEPT !.retry = TRUE]}
    /\ \A e \in Daemon : s.ds[e].pid => t.ds[e].pid

\* The first i rounds of the loop, from first.
Follows(f, first, i, outcome) ==
    /\ f = [j \in 0 .. i |-> f[j]] /\ f[0] = first
    /\ \A j \in 1 .. i : f[j] = StartNext(f[j - 1], Order[j], outcome)

\* Daemons::StartAllDaemons, for any number of daemons.
LEMMA StartAllOK ==
    ASSUME NEW s, Sound(s), NEW outcome \in [Daemon -> Outcomes]
    PROVE  StartedAll(s, StartAllDaemons(s, outcome))
<1> DEFINE n == Len(Order)
           first == [s |-> s, go |-> TRUE]
           after == CHOOSE f : f = [i \in 0 .. n |->
                        IF i = 0 THEN first ELSE StartNext(f[i - 1], Order[i], outcome)]
           Defined == {i \in Nat : i <= n => \E f : Follows(f, first, i, outcome)}
           Good == {i \in Nat : i <= n => Began(s, after[i], i)}
<1>0. n \in Nat
  BY SMTT(30), MasterAssumption
<1>1. StartAllDaemons(s, outcome) = after[n].s
  BY DEF StartAllDaemons
<1> HIDE DEF first
<1>2. 0 \in Defined
  <2>1. Follows([i \in 0 .. 0 |-> first], first, 0, outcome)
    BY SMTT(30) DEF Follows
  <2> QED BY <2>1
<1>3. ASSUME NEW i \in Nat, i \in Defined PROVE i + 1 \in Defined
  <2> SUFFICES ASSUME i + 1 <= n PROVE \E f : Follows(f, first, i + 1, outcome)
    BY SMTT(30)
  <2>1. PICK f : Follows(f, first, i, outcome)
    BY SMTT(30), <1>0, <1>3
  <2> DEFINE g == [j \in 0 .. i + 1 |-> IF j <= i THEN f[j]
                                        ELSE StartNext(f[i], Order[i + 1], outcome)]
  <2>2. g = [j \in 0 .. i + 1 |-> g[j]]
    OBVIOUS
  <2>a. g[0] = first
    BY SMTT(30), <2>1 DEF Follows
  <2>3. ASSUME NEW j \in 1 .. i + 1 PROVE g[j] = StartNext(g[j - 1], Order[j], outcome)
    <3>1. CASE j <= i
      <4>1. f[j] = StartNext(f[j - 1], Order[j], outcome)
        BY SMTT(30), <2>1, <3>1 DEF Follows
      <4>2. g[j] = f[j] /\ g[j - 1] = f[j - 1]
        BY SMTT(30), <3>1
      <4> HIDE DEF g
      <4> QED BY <4>1, <4>2
    <3>2. CASE j = i + 1
      BY SMTT(30), <3>2
    <3> QED BY SMTT(30), <3>1, <3>2
  <2> HIDE DEF g
  <2> QED BY <2>2, <2>a, <2>3 DEF Follows
<1>4. n \in Defined
  <2> HIDE DEF Defined
  <2> QED BY <1>0, <1>2, <1>3, NatInductionOnSet
<1>5. PICK f : Follows(f, first, n, outcome)
  BY SMTT(30), <1>0, <1>4
<1>6. f = [i \in 0 .. n |-> IF i = 0 THEN first ELSE StartNext(f[i - 1], Order[i], outcome)]
  <2> HIDE DEF n
  <2>1. ASSUME NEW i \in 0 .. n
        PROVE  f[i] = IF i = 0 THEN first ELSE StartNext(f[i - 1], Order[i], outcome)
    <3>1. i = 0 \/ i \in 1 .. n
      BY SMTT(30), <1>0
    <3>2. f[0] = first /\ \A j \in 1 .. n : f[j] = StartNext(f[j - 1], Order[j], outcome)
      BY <1>5 DEF Follows
    <3>3. CASE i = 0
      BY <3>2, <3>3
    <3>4. CASE i \in 1 .. n
      BY <1>0, <3>2, <3>4
    <3> QED
      BY <3>1, <3>3, <3>4
  <2>2. f = [i \in 0 .. n |-> f[i]]
    BY <1>5 DEF Follows
  <2> QED BY <2>1, <2>2
<1>7. after = [i \in 0 .. n |-> IF i = 0 THEN first
                                ELSE StartNext(after[i - 1], Order[i], outcome)]
  BY <1>6, Zenon
<1> HIDE DEF after
<1>8. 0 \in Good
  <2>1. after[0] = first
    BY SMTT(30), <1>0, <1>7
  <2>2. after[0].s = s /\ after[0].go = TRUE
    BY SMTT(30), <2>1 DEF first
  <2>3. 0 \in Nat /\ 1 .. 0 = {}
    BY SMTT(30)
  <2>4. Began(s, after[0], 0)
    BY <2>2, <2>3 DEF Began
  <2> QED BY <2>4
<1>9. ASSUME NEW i \in Nat, i \in Good PROVE i + 1 \in Good
  <2> SUFFICES ASSUME i + 1 <= n PROVE Began(s, after[i + 1], i + 1)
    BY SMTT(30)
  <2>1. Began(s, after[i], i) /\ i + 1 \in 1 .. n
    BY SMTT(30), <1>0, <1>9
  <2>2. after[i + 1] = StartNext(after[i], Order[i + 1], outcome)
    <3>1. i + 1 \in 0 .. n /\ i + 1 # 0 /\ (i + 1) - 1 = i
      BY SMTT(30), <1>0
    <3> QED BY <1>7, <3>1
  <2> QED BY <2>1, <2>2, StartNextOK
<1>10. n \in Good
  <2> HIDE DEF Good
  <2> QED BY <1>0, <1>8, <1>9, NatInductionOnSet
<1> DEFINE t == after[n].s
<1>11. Began(s, after[n], n)
  BY SMTT(30), <1>0, <1>10
<1> HIDE DEF n
<1>12. Kept(t)
  <2> SUFFICES ASSUME NEW d \in Daemon, Controller[d] = NoDaemon, ~t.m.shutting,
                      ~t.ds[d].pid, ~t.ds[d].on_hold
               PROVE  t.ds[d].start \/ t.m.retry
    BY DEF Kept
  <2>1. PICK j \in 1 .. n : d = Order[j]
    BY DEF Daemon, n
  <2> QED
    BY <1>11, <2>1 DEF Began, Settled
<1> QED
  BY <1>1, <1>11, <1>12 DEF StartedAll, Began

----------------------------------------------------------------------------
(* Reapers.                                                                *)

\* What the end of the process of d makes of a state.
Ended(s, t, d) ==
    /\ Sound(t) /\ t.m = s.m /\ ~t.ds[d].pid
    /\ t.ds[d].restarts = s.ds[d].restarts
    /\ \A e \in Daemon :
          /\ s.ds[e].on_hold => t.ds[e].on_hold
          /\ e # d => Stopped(s.ds[e], t.ds[e])
          /\ e \notin Touched(s, d) \cup Controllees(d) => t.ds[e] = s.ds[e]

\* The timers of d are cancelled, and its controllees stopped (daemon::Exited).
LEMMA ExitedOK ==
    ASSUME NEW s, Sound(s), NEW d \in Daemon, NEW status
    PROVE  Ended(s, Exited(s, d, status), d)
<1> DEFINE h == s.ds[d].on_hold \/ status = "DAEMON_NO_RESTART" \/ GivesUp(s, d)
           s1 == HoldSelf(s, d, h)
           s2 == IF GivesUp(s, d) /\ s.ds[d].stop_state = "NONE" THEN Stop(s1, {d}) ELSE s1
           s3 == ToEach(s2, Controllees(d), StopFastSelf)
           q == [CancelAllTimers(s3.ds[d]) EXCEPT !.pid = FALSE, !.killed = FALSE,
                                                  !.stop_state = "NONE"]
           f == [s3.ds EXCEPT ![d] = q]
           t == [s3 EXCEPT !.ds = f]
<1>1. Exited(s, d, status) = t
  BY DEF Exited
<1>2. h \in BOOLEAN /\ (s.ds[d].on_hold => h)
  OBVIOUS
<1> HIDE DEF h
<1>3. /\ Sound(s1) /\ s1.m = s.m /\ s1.ds[d] = [s.ds[d] EXCEPT !.on_hold = h]
      /\ \A e \in Daemon \ {d} : s1.ds[e] = s.ds[e]
  BY SMTT(30), <1>2, HoldOK
<1> HIDE DEF s1
<1>4. s1.ds[d].on_hold = h /\ s1.ds[d].restarts = s.ds[d].restarts
  BY SMTT(30), <1>3 DEF Sound, State, DaemonRecord
<1>5. /\ Sound(s2) /\ Stops(s1, s2)
      /\ \A e \in Daemon \ Touched(s, d) : s2.ds[e] = s1.ds[e]
  <2>1. CASE GivesUp(s, d) /\ s.ds[d].stop_state = "NONE"
    <3>1. Target(d) \in Touched(s, d)
      BY <2>1 DEF Touched, GivesUp, Target
    <3>2. s2 = Stop(s1, {d})
      BY <2>1
    <3> HIDE DEF s2
    <3> QED
      BY SMTT(30), <1>3, <3>1, <3>2, StopOne
  <2>2. CASE ~(GivesUp(s, d) /\ s.ds[d].stop_state = "NONE")
    BY <1>3, <2>2 DEF Stops, Stopped
  <2> QED
    BY <2>1, <2>2
<1> HIDE DEF s2
<1>6. /\ Sound(s3) /\ Stops(s2, s3)
      /\ \A e \in Daemon \cap Controllees(d) : s3.ds[e].stop_fast # "armed"
  BY <1>5, EachFast
<1>7. \A e \in Daemon \ Controllees(d) : s3.ds[e] = s2.ds[e]
  BY <1>5 DEF ToEach, Sound, State
<1> HIDE DEF s3
<1>8. s3.ds[d] \in DaemonRecord /\ s3.ds \in [Daemon -> DaemonRecord] /\ s3 \in State
  BY <1>6 DEF Sound, State
<1>9. /\ q \in DaemonRecord /\ q.pid = FALSE /\ q.stop_state = "NONE" /\ q.stop_fast = "none"
      /\ q.on_hold = s3.ds[d].on_hold /\ q.restarts = s3.ds[d].restarts
  BY ZenonT(60), <1>8 DEF CancelAllTimers, CancelRestartTimers, DaemonRecord,
     StopStates, Timer
<1> HIDE DEF q
<1>10. f \in [Daemon -> DaemonRecord] /\ f[d] = q /\ \A e \in Daemon \ {d} : f[e] = s3.ds[e]
  BY <1>8, <1>9
<1> HIDE DEF f
<1>11. t \in State /\ t.ds = f /\ t.m = s3.m
  BY <1>8, <1>10 DEF State
<1> HIDE DEF t
<1>12. \A e \in Daemon : RecordOK(e, f[e])
  <2>1. RecordOK(d, q)
    BY <1>9 DEF RecordOK, Plain, Dated
  <2> QED
    BY <1>6, <1>10, <2>1 DEF Sound
<1>13. ASSUME NEW e \in Daemon, Controller[e] # NoDaemon, f[e].stop_fast = "armed"
       PROVE  f[Controller[e]].pid
  <2>1. Controller[e] \in Daemon
    BY <1>13, MasterAssumption
  <2>2. e # d /\ s3.ds[e].stop_fast = "armed"
    BY <1>9, <1>10, <1>13
  <2>3. Controller[e] # d
    BY <1>6, <2>2 DEF Controllees
  <2>4. s3.ds[Controller[e]].pid
    BY <1>6, <1>13, <2>2 DEF Sound
  <2> QED
    BY <1>10, <2>1, <2>3, <2>4
<1>14. Sound(t)
  BY <1>11, <1>12, <1>13 DEF Sound
<1>15. t.m = s.m /\ ~t.ds[d].pid
  BY <1>3, <1>5, <1>6, <1>9, <1>10, <1>11 DEF Stops
<1>16. t.ds[d].restarts = s.ds[d].restarts /\ (s.ds[d].on_hold => t.ds[d].on_hold)
  BY SMTT(30), <1>2, <1>4, <1>5, <1>6, <1>9, <1>10, <1>11 DEF Stops, Stopped
<1>17. \A e \in Daemon \ {d} : Stopped(s.ds[e], t.ds[e])
  BY SMTT(30), <1>3, <1>5, <1>6, <1>10, <1>11 DEF Stops, Stopped
<1>18. \A e \in Daemon \ (Touched(s, d) \cup Controllees(d)) : t.ds[e] = s.ds[e]
  <2>1. d \in Touched(s, d)
    BY DEF Touched
  <2> QED
    BY SMTT(30), <1>3, <1>5, <1>7, <1>10, <1>11, <2>1
<1>19. \A e \in Daemon : s.ds[e].on_hold => t.ds[e].on_hold
  BY <1>16, <1>17 DEF Stopped
<1>20. Ended(s, t, d)
  BY <1>14, <1>15, <1>16, <1>17, <1>18, <1>19 DEF Ended
<1> QED
  BY <1>1, <1>20

\* After the last startd the others are stopped, too (Daemons::AllStartdsGone).
LEMMA StartdsGoneOK ==
    ASSUME NEW s, Sound(s), Children(s) # {}
    PROVE  Halted(s, AllStartdsGone(s))
<1> DEFINE t == [s EXCEPT !.m.stop_others = "NONE"]
           C == Children(s)
<1>1. t \in State /\ t.ds = s.ds /\ SameFlags(s.m, t.m)
  BY DEF Sound, State, MasterRecord, SameFlags
<1>2. C \in SUBSET Daemon
  BY DEF Children, Running
<1>3. /\ s.m.stop_others = "NONE" => AllStartdsGone(s) = t
      /\ s.m.stop_others = "PEACEFUL" => AllStartdsGone(s) = ToEach(t, C, StopPeaceful)
      /\ s.m.stop_others = "GRACEFUL" => AllStartdsGone(s) = Stop(t, C)
      /\ s.m.stop_others \in {"NONE", "PEACEFUL", "GRACEFUL"}
  BY DEF AllStartdsGone, Sound, State, MasterRecord
<1> HIDE DEF t
<1>4. Sound(t) /\ Children(t) # {} /\ Stops(t, t)
  BY <1>1, SameDaemons DEF Stops, Stopped
<1> HIDE DEF C
<1>5. /\ Sound(Stop(t, C)) /\ Stops(t, Stop(t, C))
      /\ Sound(ToEach(t, C, StopPeaceful)) /\ Stops(t, ToEach(t, C, StopPeaceful))
  BY <1>2, <1>4, StopOK, EachPeaceful
<1>6. PICK u : u = AllStartdsGone(s)
  OBVIOUS
<1>7. Sound(u) /\ Stops(t, u)
  BY <1>3, <1>4, <1>5, <1>6
<1>8. u \in State /\ SameFlags(t.m, u.m)
  BY <1>7 DEF Sound, Stops, SameFlags
<1> QED
  BY <1>1, <1>4, <1>6, <1>7, <1>8, StillRuns, HaltedAfter

\* The reaper that waits for all (Daemons::AllReaper).
LEMMA AllReaperOK ==
    ASSUME NEW s, Sound(s), NEW d \in Daemon, NEW status
    PROVE  /\ Ended(s, Exited(s, d, status), d)
           /\ Halted(Exited(s, d, status), AllReaper(s, d, status))
<1> DEFINE t == Exited(s, d, status)
<1>1. Ended(s, t, d)
  BY ExitedOK
<1>2. /\ Children(t) = {} => AllReaper(s, d, status) = AllDaemonsGone(t)
      /\ Children(t) # {} => AllReaper(s, d, status) \in {AllStartdsGone(t), t}
  BY DEF AllReaper
<1> HIDE DEF t
<1>3. Sound(t)
  BY <1>1 DEF Ended
<1>4. Children(t) # {} => Halted(t, t)
  BY <1>3 DEF Halted, Ends, SameFlags, Stopped
<1>5. Halted(t, AllReaper(s, d, status))
  BY <1>2, <1>3, <1>4, GoneOK, StartdsGoneOK
<1> QED
  BY <1>1, <1>5 DEF t

----------------------------------------------------------------------------
(* The invariant.                                                          *)

\* A callback that leaves the state t.
LEMMA Became ==
    ASSUME NEW t, Becomes(t), Counts', Sound(t), Ends(t), Switched(t.m),
           lapses' = {} => Kept(t) /\ (t.m.reaper = "ALL_R" => Off(t.m))
    PROVE  MasterInv'
<1>1. t \in State /\ ds' = t.ds /\ m' = t.m
  BY DEF Becomes, Sound
<1>2. S' = t
  BY <1>1 DEF S, State
<1>4. Sound(S') /\ Ends(S') /\ (Kept(t) => Kept(S'))
  BY <1>2
<1> QED
  BY <1>1, <1>4 DEF MasterInv

\* More processes do not end the wait for all.
LEMMA EndsOn ==
    ASSUME NEW s, NEW t, Ends(s), \A e \in Daemon : s.ds[e].pid => t.ds[e].pid,
           t.m.up = s.m.up, t.m.reaper = s.m.reaper, t.m.action = s.m.action,
           t.m.final = s.m.final
    PROVE  Ends(t)
<1>1. Running(s) \subseteq Running(t) /\ Children(s) \subseteq Children(t)
  BY DEF Running, Children
<1> QED
  BY <1>1 DEF Ends

\* A daemon whose restart, if any, is still pending.
Undisturbed(r, q) == q.pid = r.pid /\ q.on_hold = r.on_hold /\ (r.start => q.start)

\* No process has ended.
Lives(t) == \A e \in Daemon : ds[e].pid => t.ds[e].pid

\* No pending restart has been lost.
Calm(t) ==
    \A e \in Daemon : Controller[e] = NoDaemon =>
        \/ Settled(t, e) \/ Undisturbed(ds[e], t.ds[e])
        \/ ds[e].on_hold = t.ds[e].on_hold /\ ~ds[e].start

\* A callback that leaves the globals alone and ends no process.
LEMMA Sideways ==
    ASSUME MasterInv, NEW t, Becomes(t), Counts', Sound(t), t.m = m, Lives(t),
           lapses' = {} => lapses = {} /\ Calm(t)
    PROVE  MasterInv'
<1>1. S.ds = ds /\ S.m = m
  BY DEF S
<1>2. Ends(t)
  BY <1>1, EndsOn DEF MasterInv, Lives
<1>3. ASSUME lapses' = {}
      PROVE  Kept(t) /\ (t.m.reaper = "ALL_R" => Off(t.m))
  <2>1. Kept(S) /\ (m.reaper = "ALL_R" => Off(m))
    BY <1>3 DEF MasterInv
  <2> SUFFICES ASSUME NEW e \in Daemon, Controller[e] = NoDaemon,
                      m.up = "running", m.reaper = "DEFAULT_R",
                      m.StartDaemons, ~m.shutting,
                      ~t.ds[e].pid, ~t.ds[e].on_hold, ~t.ds[e].start
               PROVE  m.retry
    BY <2>1 DEF Kept
  <2>2. ~Settled(t, e)
    BY DEF Settled
  <2>3. ~ds[e].pid /\ ~ds[e].on_hold /\ ~ds[e].start
    BY <1>3, <2>2 DEF Undisturbed, Calm, Lives
  <2> QED
    BY <1>1, <2>1, <2>3 DEF Kept
<1> QED
  BY <1>2, <1>3, Became DEF MasterInv

\* A callback that stops all daemons.
LEMMA HaltingStep ==
    ASSUME NEW s, NEW t, Off(s.m), Halted(s, t), Becomes(t), Counts'
    PROVE  MasterInv'
<1>1. Off(t.m) /\ Sound(t) /\ Ends(t)
  BY DEF Off, Halted, SameFlags
<1> QED
  BY <1>1, OffKept, Became

\* The counters.
LEMMA CountsOK ==
    ASSUME Counts
    PROVE  /\ Command => commands' \in 0 .. MaxCommands
           /\ \A failed \in BOOLEAN : MayFail(failed) => deaths' \in 0 .. MaxDeaths
           /\ \A kind \in Lapses, cond \in BOOLEAN :
                 Lapse(kind, cond) => /\ lapses' \subseteq Lapses
                                      /\ lapses' = {} => lapses = {} /\ ~cond
BY SMTT(30), MasterAssumption DEF Counts, Command, MayFail, Lapse

\* A state that differs from S in the globals.
LEMMA GlobalsOK ==
    ASSUME MasterInv, NEW k \in MasterRecord
    PROVE  Sound([S EXCEPT !.m = k]) /\ [S EXCEPT !.m = k] = [ds |-> ds, m |-> k]
<1>1. S \in State /\ S = [ds |-> ds, m |-> m] /\ Sound(S)
  BY DEF MasterInv, Sound, S
<1>2. [S EXCEPT !.m = k] \in State /\ [S EXCEPT !.m = k].ds = S.ds
      /\ [S EXCEPT !.m = k] = [ds |-> ds, m |-> k]
  BY SMTT(30), <1>1 DEF State
<1> QED
  BY <1>1, <1>2, SameDaemons

\* Daemons that are all started keep the invariant.
LEMMA AllStarted ==
    ASSUME MasterInv, NEW k \in MasterRecord, NEW outcome \in AllOutcomes,
           k.up = m.up, k.reaper = m.reaper, k.action = m.action, k.final = m.final,
           Switched(k), lapses' = {} /\ k.reaper = "ALL_R" => Off(k), Counts',
           Becomes(StartAllDaemons([S EXCEPT !.m = k], outcome))
    PROVE  MasterInv'
<1> DEFINE s == [S EXCEPT !.m = k]
           t == StartAllDaemons(s, outcome)
<1>1. Sound(s) /\ s = [ds |-> ds, m |-> k]
  BY GlobalsOK
<1>2. outcome \in [Daemon -> Outcomes]
  BY SMTT(30) DEF AllOutcomes, AllWell, Outcomes
<1> HIDE DEF s
<1>3. StartedAll(s, t)
  BY <1>1, <1>2, StartAllOK
<1>4. Becomes(t)
  BY DEF s
<1> HIDE DEF t
<1>5. s.m = k /\ s.ds = ds /\ S.ds = ds /\ S.m = m
  BY <1>1 DEF S
<1>6. t.m \in {k, [k EXCEPT !.retry = TRUE]} /\ Sound(t) /\ Kept(t)
      /\ \A e \in Daemon : ds[e].pid => t.ds[e].pid
  BY <1>3, <1>5 DEF StartedAll
<1>7. /\ t.m.up = k.up /\ t.m.reaper = k.reaper /\ t.m.action = k.action
      /\ t.m.final = k.final /\ t.m.shutting = k.shutting
      /\ t.m.StartDaemons = k.StartDaemons /\ t.m.GotDaemonsOff = k.GotDaemonsOff
  BY <1>6 DEF MasterRecord
<1>8. Ends(t)
  BY SMTT(30), <1>5, <1>6, <1>7, EndsOn DEF MasterInv
<1>9. Switched(t.m) /\ (Off(k) => Off(t.m))
  BY <1>7 DEF Switched, Off
<1> QED
  BY <1>4, <1>6, <1>7, <1>8, <1>9, Became

\* DAEMONS_ON.
LEMMA DaemonsOnKeeps ==
    ASSUME MasterInv, DaemonsOn
    PROVE  MasterInv'
<1> DEFINE k == [m EXCEPT !.StartDaemons = TRUE, !.GotDaemonsOff = FALSE]
<1>1. m \in MasterRecord /\ Counts
  BY DEF MasterInv, Sound, State, S
<1>2. PICK outcome \in AllOutcomes :
          /\ MayFail(outcome # AllWell)
          /\ Becomes(StartAllDaemons([S EXCEPT !.m.StartDaemons = TRUE,
                                               !.m.GotDaemonsOff = FALSE], outcome))
  BY DEF DaemonsOn
<1>3. [S EXCEPT !.m.StartDaemons = TRUE, !.m.GotDaemonsOff = FALSE] = [S EXCEPT !.m = k]
  BY DEF S
<1>4. /\ k \in MasterRecord /\ k.up = m.up /\ k.reaper = m.reaper
      /\ k.action = m.action /\ k.final = m.final /\ k.StartDaemons = TRUE
  BY <1>1 DEF MasterRecord
<1> HIDE DEF k
<1>5. commands' \in 0 .. MaxCommands /\ deaths' \in 0 .. MaxDeaths
  <2>1. (outcome # AllWell) \in BOOLEAN
    OBVIOUS
  <2> QED
    BY <1>1, <1>2, <2>1, CountsOK DEF DaemonsOn
<1>6. lapses' \subseteq Lapses /\ (lapses' = {} => m.reaper # "ALL_R")
  <2>1. "early" \in Lapses /\ (m.reaper = "ALL_R") \in BOOLEAN
    BY DEF Lapses
  <2> QED
    BY ZenonT(60), <1>1, <2>1, CountsOK DEF DaemonsOn
<1> QED
  BY <1>2, <1>3, <1>4, <1>5, <1>6, AllStarted DEF Counts, Switched

\* The retry of StartAllDaemons.
LEMMA RetryKeeps ==
    ASSUME MasterInv, RetryStartAllDaemons
    PROVE  MasterInv'
<1> DEFINE k == [m EXCEPT !.retry = FALSE]
<1>1. m \in MasterRecord /\ Counts
  BY DEF MasterInv, Sound, State, S
<1>2. PICK outcome \in AllOutcomes :
          /\ MayFail(outcome # AllWell)
          /\ Becomes(StartAllDaemons([S EXCEPT !.m.retry = FALSE], outcome))
  BY DEF RetryStartAllDaemons
<1>3. [S EXCEPT !.m.retry = FALSE] = [S EXCEPT !.m = k]
  BY DEF S
<1>4. /\ k \in MasterRecord /\ k.up = m.up /\ k.reaper = m.reaper
      /\ k.action = m.action /\ k.final = m.final
      /\ k.StartDaemons = m.StartDaemons /\ k.GotDaemonsOff = m.GotDaemonsOff
      /\ k.shutting = m.shutting
  BY <1>1 DEF MasterRecord
<1> HIDE DEF k
<1>5. deaths' \in 0 .. MaxDeaths
  <2>1. (outcome # AllWell) \in BOOLEAN
    OBVIOUS
  <2> QED
    BY <1>1, <1>2, <2>1, CountsOK
<1>6. Switched(k) /\ (lapses' = {} /\ k.reaper = "ALL_R" => Off(k))
  BY <1>4 DEF RetryStartAllDaemons, MasterInv, Switched, Off
<1>7. Counts'
  BY <1>1, <1>5 DEF Counts, RetryStartAllDaemons
<1> QED
  BY <1>2, <1>3, <1>4, <1>6, <1>7, AllStarted

\* What DAEMONS_OFF sets before it stops all daemons.
LEMMA GoOffOK ==
    ASSUME NEW s, Sound(s)
    PROVE  Sound(GoOff(s)) /\ Off(GoOff(s).m)
<1>1. GoOff(s) \in State /\ GoOff(s).ds = s.ds /\ Off(GoOff(s).m)
  BY DEF Sound, State, MasterRecord, GoOff, Off
<1> QED
  BY <1>1, SameDaemons

\* DAEMONS_OFF, in all its forms.
LEMMA DaemonsOffKeeps ==
    ASSUME MasterInv, DaemonsOff
    PROVE  MasterInv'
<1>1. Sound(GoOff(S)) /\ Off(GoOff(S).m) /\ Counts
  BY GoOffOK DEF MasterInv
<1>2. Counts'
  BY <1>1, CountsOK DEF DaemonsOff, Counts
<1>3. CASE Becomes(StopAllDaemons(GoOff(S)))
  BY <1>1, <1>2, <1>3, StopAllOK, HaltingStep
<1>4. CASE Becomes(StopFastAllDaemons(GoOff(S)))
  BY <1>1, <1>2, <1>4, StopFastAllOK, HaltingStep
<1>5. CASE Becomes(StopPeacefulAllDaemons(GoOff(S)))
  BY <1>1, <1>2, <1>5, StopPeacefulAllOK, HaltingStep
<1> QED
  BY <1>3, <1>4, <1>5 DEF DaemonsOff

\* RESTART and RESTART_PEACEFUL.
LEMMA RestartMasterKeeps ==
    ASSUME MasterInv, RestartMaster
    PROVE  MasterInv'
<1> DEFINE k == [m EXCEPT !.shutting = TRUE, !.action = "MASTER_RESTART",
                          !.StartDaemons = FALSE]
           s == [S EXCEPT !.m = k]
<1>1. m \in MasterRecord /\ Counts
  BY DEF MasterInv, Sound, State, S
<1>2. k \in MasterRecord /\ k.shutting = TRUE
  BY <1>1 DEF MasterRecord
<1>3. Command /\ UNCHANGED <<deaths, lapses>>
      /\ (Becomes(StopAllDaemons(s)) \/ Becomes(StopPeacefulAllDaemons(s)))
  BY DEF RestartMaster, S
<1> HIDE DEF k
<1>4. Sound(s) /\ s.m = k
  BY <1>2, GlobalsOK
<1> HIDE DEF s
<1>5. Off(s.m) /\ Counts'
  BY <1>1, <1>2, <1>3, <1>4, CountsOK DEF Off, Counts
<1> QED
  BY <1>3, <1>4, <1>5, StopAllOK, StopPeacefulAllOK, HaltingStep

\* SIGTERM and SIGQUIT (main_shutdown_graceful, main_shutdown_fast).
LEMMA MainShutdownKeeps ==
    ASSUME MasterInv, MainShutdown
    PROVE  MasterInv'
<1> DEFINE k == [m EXCEPT !.shutting = TRUE, !.action = "MASTER_EXIT"]
           s == [S EXCEPT !.m = k]
           t == IF Children(s) = {} THEN AllDaemonsGone(s) ELSE s
           f == [d \in Daemon |-> IF d \in Daemon THEN CancelRestartTimers(t.ds[d])
                                                  ELSE t.ds[d]]
           u == [t EXCEPT !.ds = f]
<1>1. m \in MasterRecord /\ Counts
  BY DEF MasterInv, Sound, State, S
<1>2. k \in MasterRecord /\ k.shutting = TRUE /\ k.up = m.up
  BY <1>1 DEF MasterRecord
<1>3. /\ Command /\ UNCHANGED <<deaths, lapses>>
      /\ \/ t.m.up = "exited" /\ Becomes(t)
         \/ Becomes(StopAllDaemons(u)) \/ Becomes(StopFastAllDaemons(u))
  BY DEF MainShutdown, S, ToEach
<1> HIDE DEF k
<1>4. Sound(s) /\ s.m = k
  BY ZenonT(60), <1>2, GlobalsOK
<1> HIDE DEF s
<1>5. Off(s.m) /\ Counts'
  BY <1>1, <1>2, <1>3, <1>4, CountsOK DEF Off, Counts
<1>6. /\ Sound(t) /\ SameFlags(s.m, t.m)
      /\ t.m.up = "exited" => Halted(s, t)
  <2>1. CASE Children(s) = {}
    BY <1>4, <2>1, GoneOK DEF Halted
  <2>2. CASE Children(s) # {}
    BY <1>2, <1>3, <1>4, <2>2 DEF SameFlags, Command
  <2> QED
    BY <2>1, <2>2
<1> HIDE DEF t
<1>7. CASE t.m.up = "exited" /\ Becomes(t)
  BY <1>5, <1>6, <1>7, HaltingStep
<1>8. CASE Becomes(StopAllDaemons(u)) \/ Becomes(StopFastAllDaemons(u))
  <2>1. ASSUME NEW d \in Daemon
        PROVE  /\ RecordOK(d, f[d]) /\ Stopped(t.ds[d], f[d])
               /\ f[d].stop_fast = "armed" => t.ds[d].stop_fast = "armed" \/ MayArm(t, d)
    <3>1. RecordOK(d, t.ds[d]) /\ f[d] = CancelRestartTimers(t.ds[d])
      BY <1>6 DEF Sound
    <3> QED
      BY <3>1 DEF CancelRestartTimers, RecordOK, Plain, Dated, DaemonRecord, Stopped
  <2>2. f = [d \in Daemon |-> f[d]]
    OBVIOUS
  <2> HIDE DEF f
  <2>3. Sound(u) /\ Stops(t, u)
    BY <1>6, <2>1, <2>2, Replaced
  <2>4. Off(u.m)
    BY <1>5, <1>6, <2>3 DEF Stops, SameFlags, Off
  <2> HIDE DEF u
  <2> QED
    BY <1>5, <1>8, <2>3, <2>4, StopAllOK, StopFastAllOK, HaltingStep
<1> QED
  BY <1>3, <1>7, <1>8

\* A reconfiguration (main_config).
LEMMA MainConfigKeeps ==
    ASSUME MasterInv, MainConfig
    PROVE  MasterInv'
<1>1. PICK changed \in SUBSET Daemon :
          Becomes(IF m.GotDaemonsOff
                  THEN StopAllDaemons(GoOff(
                         [ds |-> [d \in Daemon |-> [ds[d] EXCEPT !.newExec = @ \/ d \in changed]],
                          m |-> [m EXCEPT !.StartDaemons = ~ m.GotDaemonsOff]]))
                  ELSE [ds |-> [d \in Daemon |-> [ds[d] EXCEPT !.newExec = @ \/ d \in changed]],
                        m |-> [m EXCEPT !.StartDaemons = ~ m.GotDaemonsOff]])
  BY DEF MainConfig
<1> DEFINE f == [d \in Daemon |-> [ds[d] EXCEPT !.newExec = @ \/ d \in changed]]
           k == [m EXCEPT !.StartDaemons = ~ m.GotDaemonsOff]
           s == [ds |-> f, m |-> k]
<1>2. m \in MasterRecord /\ Counts /\ Sound(S) /\ S = [ds |-> ds, m |-> m] /\ S \in State
  BY DEF MasterInv, Sound, State, S
<1>3. /\ k \in MasterRecord /\ k.up = m.up /\ k.reaper = m.reaper
      /\ k.action = m.action /\ k.final = m.final /\ k.retry = m.retry
      /\ k.StartDaemons = ~m.GotDaemonsOff /\ k.GotDaemonsOff = m.GotDaemonsOff
      /\ k.shutting = m.shutting
  BY <1>2 DEF MasterRecord
<1>4. Becomes(IF m.GotDaemonsOff THEN StopAllDaemons(GoOff(s)) ELSE s)
  BY <1>1
<1>5. Counts'
  BY <1>2, CountsOK DEF MainConfig, Counts
<1>6. ASSUME NEW d \in Daemon
      PROVE  /\ RecordOK(d, f[d]) /\ f[d].stop_fast = ds[d].stop_fast
             /\ f[d].pid = ds[d].pid /\ f[d].on_hold = ds[d].on_hold
             /\ f[d].restarts = ds[d].restarts /\ f[d].start = ds[d].start
  <2> DEFINE b == ds[d].newExec \/ d \in changed
  <2>1. RecordOK(d, ds[d]) /\ b \in BOOLEAN
    BY <1>2 DEF Sound
  <2>2. f[d] = [ds[d] EXCEPT !.newExec = b]
    OBVIOUS
  <2> HIDE DEF b, f
  <2> QED
    BY <2>1, <2>2 DEF RecordOK, Plain, Dated, DaemonRecord
<1>7. f = [d \in Daemon |-> f[d]]
  OBVIOUS
<1> HIDE DEF f, k
<1>8. Sound([S EXCEPT !.ds = f])
  <2>1. \A d \in Daemon :
            /\ RecordOK(d, f[d]) /\ Stopped(S.ds[d], f[d])
            /\ f[d].stop_fast = "armed" => S.ds[d].stop_fast = "armed" \/ MayArm(S, d)
    BY <1>2, <1>6 DEF Stopped
  <2> QED
    BY <1>2, <1>7, <2>1, Replaced
<1>9. Sound(s)
  <2>1. s \in State /\ s.ds = [S EXCEPT !.ds = f].ds
    BY <1>2, <1>3, <1>8 DEF State, Sound
  <2> QED
    BY ZenonT(60), <1>8, <2>1, SameDaemons
<1>10. CASE m.GotDaemonsOff
  BY <1>4, <1>5, <1>9, <1>10, GoOffOK, StopAllOK, HaltingStep
<1>11. CASE ~m.GotDaemonsOff
  <2>1. Becomes(s) /\ s.ds = f /\ s.m = k /\ k.StartDaemons
    BY ZenonT(60), <1>3, <1>4, <1>11
  <2>2. Ends(s)
    BY SMTT(30), <1>2, <1>3, <1>6, <2>1, EndsOn DEF MasterInv
  <2>3. m.StartDaemons \/ m.shutting
    BY <1>11 DEF MasterInv, Switched
  <2>4. ASSUME lapses' = {}
        PROVE  Kept(s) /\ (s.m.reaper = "ALL_R" => Off(s.m))
    <3>1. Kept(S) /\ (m.reaper = "ALL_R" => Off(m))
      BY <2>4 DEF MainConfig, MasterInv
    <3> QED
      BY SMTT(30), <1>2, <1>3, <1>6, <1>11, <2>1, <2>3, <3>1 DEF Kept, Off
  <2>5. Switched(s.m)
    BY <2>1 DEF Switched
  <2> HIDE DEF s
  <2> QED
    BY <1>5, <1>9, <2>1, <2>2, <2>4, <2>5, Became
<1> QED
  BY <1>10, <1>11

\* What most callbacks begin with.
LEMMA Beginning ==
    ASSUME MasterInv
    PROVE  /\ Sound(S) /\ S.ds = ds /\ S.m = m /\ Counts /\ m \in MasterRecord
           /\ \A d \in Daemon : RecordOK(d, ds[d])
BY DEF MasterInv, Sound, State, S

\* A command that changes a hold.
LEMMA HeldOK ==
    ASSUME MasterInv, NEW d \in Daemon, NEW h \in BOOLEAN
    PROVE  LET v == HoldSelf(S, d, h) IN
           /\ Sound(v) /\ v.m = m /\ v.ds[d].on_hold = h /\ v.ds[d].pid = ds[d].pid
           /\ \A e \in Daemon \ {d} : v.ds[e] = ds[e]
<1> DEFINE v == HoldSelf(S, d, h)
<1>1. Sound(S) /\ S.ds = ds /\ S.m = m /\ ds[d] \in DaemonRecord
  BY Beginning DEF RecordOK, Plain
<1>2. /\ Sound(v) /\ v.m = S.m /\ v.ds[d] = [S.ds[d] EXCEPT !.on_hold = h]
      /\ \A e \in Daemon \ {d} : v.ds[e] = S.ds[e]
  BY SMTT(30), <1>1, HoldOK
<1> HIDE DEF v
<1>3. v.ds[d].on_hold = h /\ v.ds[d].pid = ds[d].pid
  BY <1>1, <1>2 DEF DaemonRecord
<1> QED
  BY <1>1, <1>2, <1>3 DEF v

\* DAEMON_ON.
LEMMA DaemonOnKeeps ==
    ASSUME MasterInv, NEW d \in Daemon, DaemonOn(d)
    PROVE  MasterInv'
<1>1. PICK outcome \in Outcomes :
          /\ MayFail(outcome # "ok")
          /\ Becomes(Start(Hold(S, d, FALSE), d, outcome))
  BY DEF DaemonOn
<1> DEFINE t == Start(Hold(S, d, FALSE), d, outcome)
<1>2. /\ Sound(t) /\ t.m = S.m
      /\ \A e \in Daemon : S.ds[e].pid => t.ds[e].pid
      /\ \A e \in Daemon : e # Target(d) => t.ds[e] = S.ds[e]
      /\ Settled(t, Target(d))
  BY Beginning, ReleasedOK
<1>3. Becomes(t)
  BY <1>1
<1> HIDE DEF t
<1>4. Counts'
  <2>1. (outcome # "ok") \in BOOLEAN
    OBVIOUS
  <2> QED
    BY <1>1, <2>1, Beginning, CountsOK DEF DaemonOn, Counts
<1>5. lapses' = lapses
  BY DEF DaemonOn
<1>6. Lives(t) /\ Calm(t)
  BY <1>2, Beginning DEF Undisturbed, Lives, Calm
<1> QED
  BY <1>2, <1>3, <1>4, <1>5, <1>6, Beginning, Sideways

\* DAEMON_OFF, DAEMON_OFF_FAST and DAEMON_OFF_PEACEFUL.
LEMMA DaemonOffKeeps ==
    ASSUME MasterInv, NEW d \in Daemon, DaemonOff(d)
    PROVE  MasterInv'
<1> DEFINE c == Target(d)
           v == HoldSelf(S, c, TRUE)
<1>1. c \in Daemon /\ Controller[c] = NoDaemon /\ (Controller[d] = NoDaemon => c = d)
  BY TargetFree DEF Target
<1>2. \/ Becomes(Stop(v, {d})) \/ Becomes(StopFast(v, {d}))
      \/ Becomes(ToEach(v, {d}, StopPeaceful))
  BY DEF DaemonOff, Hold, HoldSelf
<1>a. Targets({d}) = {c} /\ {d} \in SUBSET Daemon
  BY DEF Targets
<1> HIDE DEF c
<1>3. /\ Sound(v) /\ v.m = m /\ v.ds[c].on_hold = TRUE /\ v.ds[c].pid = ds[c].pid
      /\ \A e \in Daemon \ {c} : v.ds[e] = ds[e]
  BY ZenonT(60), <1>1, HeldOK
<1> HIDE DEF v
<1>5. Counts' /\ lapses' = lapses
  BY Beginning, CountsOK DEF DaemonOff, Counts
<1>6. ASSUME NEW t, Becomes(t), Sound(t), Stops(v, t),
             \A e \in Daemon : Controller[e] = NoDaemon /\ e # c => t.ds[e] = v.ds[e]
      PROVE  MasterInv'
  <2>1. Lives(t)
    BY <1>3, <1>6 DEF Stops, Stopped, Lives
  <2>2. t.m = m /\ t.ds[c].on_hold
    BY <1>1, <1>3, <1>6 DEF Stops, Stopped
  <2>3. Calm(t)
    BY <1>3, <1>6, <2>2 DEF Settled, Undisturbed, Calm
  <2> QED
    BY <1>5, <1>6, <2>1, <2>2, <2>3, Sideways
<1>7. ASSUME Becomes(Stop(v, {d}))
      PROVE  MasterInv'
  <2>1. Target(d) = c
    BY DEF c
  <2>2. /\ Sound(Stop(v, {d})) /\ Stops(v, Stop(v, {d}))
        /\ \A e \in Daemon \ {c} : Stop(v, {d}).ds[e] = v.ds[e]
    BY <1>3, <2>1, StopOne
  <2> QED
    BY <1>6, <1>7, <2>2
<1>8. ASSUME Becomes(StopFast(v, {d}))
      PROVE  MasterInv'
  <2>1. \A e \in Daemon \ {c} : StopFast(v, {d}).ds[e] = v.ds[e]
    BY <1>a, <1>3 DEF StopFast, ToEach, Sound, State
  <2>2. Sound(StopFast(v, {d})) /\ Stops(v, StopFast(v, {d}))
    BY <1>3, StopFastOK
  <2> QED
    BY <1>6, <1>8, <2>1, <2>2
<1>9. ASSUME Becomes(ToEach(v, {d}, StopPeaceful))
      PROVE  MasterInv'
  <2> DEFINE t == ToEach(v, {d}, StopPeaceful)
  <2>1. \A e \in Daemon \ {d} : t.ds[e] = v.ds[e]
    BY <1>3 DEF ToEach, Sound, State
  <2>2. Sound(t) /\ Stops(v, t) /\ Becomes(t)
    BY <1>3, <1>9, EachPeaceful
  <2> HIDE DEF t
  <2> QED
    BY <1>1, <1>6, <2>1, <2>2
<1> QED
  BY <1>2, <1>7, <1>8, <1>9

\* CHILD_ON: the controller runs, so that its own restart is not pending.
LEMMA ChildOnKeeps ==
    ASSUME MasterInv, NEW d \in Daemon, ChildOn(d)
    PROVE  MasterInv'
<1> DEFINE v == HoldSelf(S, d, FALSE)
<1>1. PICK outcome \in Outcomes :
          MayFail(outcome # "ok") /\ Becomes(StartSelf(v, d, outcome))
  BY DEF ChildOn
<1>2. Controller[d] \in Daemon /\ Controller[d] # NoDaemon /\ ds[Controller[d]].pid
  BY MasterAssumption DEF ChildOn, ChildCommand
<1>3. /\ Sound(v) /\ v.m = m /\ v.ds[d].on_hold = FALSE /\ v.ds[d].pid = ds[d].pid
      /\ \A e \in Daemon \ {d} : v.ds[e] = ds[e]
  BY HeldOK
<1> HIDE DEF v
<1> DEFINE t == StartSelf(v, d, outcome)
<1>5. Launched(v, t, d) /\ Becomes(t)
  BY <1>1, <1>3, StartSelfOK
<1> HIDE DEF t
<1>6. Counts' /\ lapses' = lapses
  <2>1. (outcome # "ok") \in BOOLEAN
    OBVIOUS
  <2> QED
    BY <1>1, <2>1, Beginning, CountsOK DEF ChildOn, ChildCommand, Counts
<1>7. Lives(t)
  BY <1>3, <1>5 DEF Launched, Lives
<1>8. Calm(t)
  <2> SUFFICES ASSUME NEW e \in Daemon, Controller[e] = NoDaemon
               PROVE  Settled(t, e) \/ Undisturbed(ds[e], t.ds[e])
    BY DEF Calm
  <2>1. e # d
    BY <1>2
  <2>2. CASE e = Controller[d]
    BY <1>2, <1>7, <2>2 DEF Settled, Lives
  <2>3. CASE e # Controller[d]
    <3>1. e \notin Touched(v, d)
      BY <2>1, <2>3 DEF Touched
    <3> QED
      BY <1>3, <1>5, <2>1, <3>1 DEF Launched, Undisturbed
  <2> QED
    BY <2>2, <2>3
<1>9. Sound(t) /\ t.m = m
  BY <1>3, <1>5 DEF Launched
<1> QED
  BY <1>5, <1>6, <1>7, <1>8, <1>9, Sideways

\* CHILD_OFF: the controller runs, so that a timer may be registered.
LEMMA ChildOffKeeps ==
    ASSUME MasterInv, NEW d \in Daemon, ChildOff(d)
    PROVE  MasterInv'
<1> DEFINE v == HoldSelf(S, d, TRUE)
<1>1. Becomes(ToEach(v, {d}, StopSelf)) \/ Becomes(ToEach(v, {d}, StopFastSelf))
  BY DEF ChildOff
<1>2. Controller[d] \in Daemon /\ Controller[d] # NoDaemon /\ ds[Controller[d]].pid
      /\ Controller[d] # d
  BY MasterAssumption DEF ChildOff, ChildCommand
<1>3. /\ Sound(v) /\ v.m = m /\ v.ds[d].on_hold = TRUE /\ v.ds[d].pid = ds[d].pid
      /\ \A e \in Daemon \ {d} : v.ds[e] = ds[e]
  BY ZenonT(60), HeldOK
<1> HIDE DEF v
<1>5. Counts' /\ lapses' = lapses
  BY Beginning, CountsOK DEF ChildOff, ChildCommand, Counts
<1>6. ASSUME NEW t, Becomes(t), Sound(t), Stops(v, t),
             \A e \in Daemon \ {d} : t.ds[e] = v.ds[e]
      PROVE  MasterInv'
  <2>1. Lives(t)
    BY <1>3, <1>6 DEF Stops, Stopped, Lives
  <2>2. Calm(t)
    BY <1>2, <1>3, <1>6 DEF Undisturbed, Calm
  <2> QED
    BY <1>3, <1>5, <1>6, <2>1, <2>2, Sideways DEF Stops
<1>7. ASSUME Becomes(ToEach(v, {d}, StopSelf))
      PROVE  MasterInv'
  <2> DEFINE f == [e \in Daemon |-> IF e \in {d} THEN StopSelf(v.ds[e]) ELSE v.ds[e]]
             t == [v EXCEPT !.ds = f]
  <2>1. Becomes(t) /\ f = [e \in Daemon |-> f[e]]
    BY <1>7 DEF ToEach
  <2>2. ASSUME NEW e \in Daemon
        PROVE  /\ RecordOK(e, f[e]) /\ Stopped(v.ds[e], f[e])
               /\ f[e].stop_fast = "armed" => v.ds[e].stop_fast = "armed" \/ MayArm(v, e)
    <3>1. CASE e = d
      <4>1. RecordOK(d, v.ds[d]) /\ f[e] = StopSelf(v.ds[d]) /\ MayArm(v, d)
        BY <1>2, <1>3, <3>1 DEF Sound, MayArm
      <4> HIDE DEF f
      <4> QED
        BY <3>1, <4>1, StopSelfOK
    <3>2. CASE e # d
      BY <1>3, <3>2, LeftAlone
    <3> QED
      BY <3>1, <3>2
  <2>3. \A e \in Daemon \ {d} : f[e] = v.ds[e]
    OBVIOUS
  <2> HIDE DEF f
  <2>4. Sound(t) /\ Stops(v, t)
    BY <1>3, <2>1, <2>2, Replaced
  <2>5. t.ds = f
    BY <1>3 DEF Sound, State
  <2> HIDE DEF t
  <2> QED
    BY <1>6, <2>1, <2>3, <2>4, <2>5
<1>8. ASSUME Becomes(ToEach(v, {d}, StopFastSelf))
      PROVE  MasterInv'
  <2> DEFINE t == ToEach(v, {d}, StopFastSelf)
  <2>1. \A e \in Daemon \ {d} : t.ds[e] = v.ds[e]
    BY <1>3 DEF ToEach, Sound, State
  <2>2. Sound(t) /\ Stops(v, t) /\ Becomes(t)
    BY <1>3, <1>8, EachFast
  <2> HIDE DEF t
  <2> QED
    BY <1>6, <2>1, <2>2
<1> QED
  BY <1>1, <1>7, <1>8

\* A callback that releases no daemon.
Holding == \A e \in Daemon : ds[e].on_hold => ds'[e].on_hold

\* The start timer of d fires (daemon::DoStart).
LEMMA DoStartKeeps ==
    ASSUME MasterInv, NEW d \in Daemon, DoStart(d)
    PROVE  MasterInv' /\ Holding
<1>1. PICK outcome \in Outcomes :
          /\ MayFail(outcome # "ok") /\ Becomes(StartSelf(S, d, outcome))
          /\ Lapse("controllee", outcome # "ok" /\ GivesUpAlone(d))
  BY DEF DoStart
<1> DEFINE t == StartSelf(S, d, outcome)
<1>2. Sound(S) /\ S.ds = ds /\ S.m = m /\ Counts
  BY Beginning
<1>3. /\ Launched(S, t, d) /\ Becomes(t)
      /\ outcome = "ok" => \A e \in Daemon \ {d} : t.ds[e] = S.ds[e]
  BY <1>1, <1>2, StartSelfOK
<1> HIDE DEF t
<1>4. Counts' /\ (lapses' = {} => lapses = {} /\ ~(outcome # "ok" /\ GivesUpAlone(d)))
  <2>1. /\ (outcome # "ok") \in BOOLEAN /\ "controllee" \in Lapses
        /\ (outcome # "ok" /\ GivesUpAlone(d)) \in BOOLEAN
    BY DEF Lapses
  <2>2. deaths' \in 0 .. MaxDeaths
    BY <1>1, <1>2, <2>1, CountsOK
  <2>3. /\ lapses' \subseteq Lapses
        /\ lapses' = {} => lapses = {} /\ ~(outcome # "ok" /\ GivesUpAlone(d))
    BY ZenonT(60), <1>1, <1>2, <2>1, CountsOK
  <2> QED
    BY <1>2, <2>2, <2>3 DEF DoStart, Counts
<1>5. Sound(t) /\ t.m = m /\ Lives(t)
  BY <1>2, <1>3 DEF Launched, Lives
<1>6. ASSUME ~(outcome # "ok" /\ GivesUpAlone(d))
      PROVE  Calm(t)
  <2> SUFFICES ASSUME NEW e \in Daemon, Controller[e] = NoDaemon
               PROVE  \/ Settled(t, e) \/ Undisturbed(ds[e], t.ds[e])
                      \/ ds[e].on_hold = t.ds[e].on_hold /\ ~ds[e].start
    BY DEF Calm
  <2>1. CASE e = d
    BY ZenonT(60), <1>2, <1>3, <1>5, <2>1 DEF Launched, Settled
  <2>2. CASE e # d /\ (e \notin Touched(S, d) \/ outcome = "ok")
    BY <1>2, <1>3, <2>2 DEF Launched, Undisturbed
  <2>3. CASE e # d /\ e \in Touched(S, d) /\ outcome # "ok"
    <3>1. e = Controller[d] /\ GivesUp(S, d)
      BY <2>3 DEF Touched
    <3>2. ~ds[e].start
      BY <1>6, <2>3, <3>1 DEF GivesUpAlone
    <3> QED
      BY ZenonT(60), <1>2, <1>3, <2>3, <3>2 DEF Launched, Stopped
  <2> QED
    BY ZenonT(60), <2>1, <2>2, <2>3
<1>7. Holding
  BY <1>2, <1>3 DEF Launched, Becomes, Holding
<1> QED
  BY <1>3, <1>4, <1>5, <1>6, <1>7, Sideways

\* A change of the record of d that starts and stops nothing.
LEMMA OneSideways ==
    ASSUME MasterInv, NEW d \in Daemon, NEW r, RecordOK(d, r),
           r.stop_fast = ds[d].stop_fast, Undisturbed(ds[d], r),
           ds' = [ds EXCEPT ![d] = r], UNCHANGED <<m, commands, deaths, lapses>>
    PROVE  MasterInv' /\ Holding
<1> DEFINE t == [S EXCEPT !.ds[d] = r]
<1>1. Sound(S) /\ S.ds = ds /\ S.m = m /\ Counts /\ S \in State
  BY Beginning DEF Sound
<1>2. /\ r.stop_fast = "armed" => S.ds[d].stop_fast = "armed"
      /\ S.ds[d].pid => r.pid
  BY <1>1 DEF Undisturbed
<1>3. /\ Sound(t) /\ t.m = S.m /\ t.ds[d] = r
      /\ \A e \in Daemon \ {d} : t.ds[e] = S.ds[e]
  BY SMTT(30), <1>1, <1>2, OneRecord
<1>4. Becomes(t)
  BY <1>1 DEF Becomes, S
<1> HIDE DEF t
<1>5. Counts' /\ lapses' = lapses
  BY <1>1 DEF Counts
<1>6. Lives(t) /\ Calm(t)
  BY <1>1, <1>2, <1>3 DEF Lives, Calm, Undisturbed
<1>7. Holding
  BY <1>1, <1>3, <1>4 DEF Becomes, Undisturbed, Holding
<1> QED
  BY ZenonT(60), <1>1, <1>3, <1>4, <1>5, <1>6, <1>7, Sideways

\* daemon::Recover.
LEMMA RecoverKeeps ==
    ASSUME MasterInv, NEW d \in Daemon, Recover(d)
    PROVE  MasterInv' /\ Holding
<1> DEFINE r == [ds[d] EXCEPT !.restarts = 0, !.recover = FALSE]
<1>1. RecordOK(d, ds[d])
  BY Beginning
<1>a. 0 \in 0 .. 2
  BY SMTT(30)
<1>b. /\ r \in DaemonRecord /\ r.stop_fast = ds[d].stop_fast /\ r.pid = ds[d].pid
      /\ r.on_hold = ds[d].on_hold /\ r.start = ds[d].start /\ r.killed = ds[d].killed
      /\ r.stop_state = ds[d].stop_state /\ r.hard_kill = ds[d].hard_kill
      /\ r.lost_kill = ds[d].lost_kill /\ r.lost_fast = ds[d].lost_fast
  BY <1>1, <1>a DEF RecordOK, Plain, DaemonRecord
<1>2. RecordOK(d, r) /\ r.stop_fast = ds[d].stop_fast /\ Undisturbed(ds[d], r)
  BY <1>1, <1>b DEF RecordOK, Plain, Dated, Undisturbed
<1>3. ds' = [ds EXCEPT ![d] = r] /\ UNCHANGED <<m, commands, deaths, lapses>>
  <2>1. ds \in [Daemon -> DaemonRecord]
    BY Beginning DEF Sound, State
  <2>2. [ds EXCEPT ![d].restarts = 0, ![d].recover = FALSE] = [ds EXCEPT ![d] = r]
    BY <2>1
  <2> QED
    BY <2>2 DEF Recover
<1> HIDE DEF r
<1> QED
  BY <1>2, <1>3, OneSideways

\* The file that others wait for appears.
LEMMA FileAppearsKeeps ==
    ASSUME MasterInv, NEW d \in Daemon, FileAppears(d)
    PROVE  MasterInv' /\ Holding
<1> DEFINE r == [ds[d] EXCEPT !.file = TRUE]
<1>1. RecordOK(d, ds[d])
  BY Beginning
<1>2. RecordOK(d, r) /\ r.stop_fast = ds[d].stop_fast /\ Undisturbed(ds[d], r)
  BY ZenonT(60), <1>1 DEF RecordOK, Plain, Dated, DaemonRecord, Undisturbed
<1>3. ds' = [ds EXCEPT ![d] = r] /\ UNCHANGED <<m, commands, deaths, lapses>>
  BY DEF FileAppears
<1> HIDE DEF r
<1> QED
  BY <1>2, <1>3, OneSideways

\* FinalRestartMaster.
LEMMA FinalKeeps ==
    ASSUME MasterInv, FinalRestartMaster
    PROVE  MasterInv'
<1> DEFINE k == [m EXCEPT !.up = "restarted"]
           t == [S EXCEPT !.m = k]
<1>1. m \in MasterRecord /\ Counts /\ S.ds = ds
  BY Beginning
<1>2. /\ k \in MasterRecord /\ k.up = "restarted" /\ k.reaper = m.reaper
      /\ k.StartDaemons = m.StartDaemons /\ k.GotDaemonsOff = m.GotDaemonsOff
      /\ k.shutting = m.shutting
  BY <1>1 DEF MasterRecord
<1>3. m' = k /\ UNCHANGED <<ds, commands, deaths, lapses>>
  BY DEF FinalRestartMaster
<1> HIDE DEF k
<1>4. Sound(t) /\ t = [ds |-> ds, m |-> k]
  BY <1>2, GlobalsOK
<1> HIDE DEF t
<1>5. Becomes(t) /\ Counts' /\ t.m = k
  BY <1>1, <1>3, <1>4 DEF Becomes, Counts
<1>6. Ends(t) /\ Kept(t)
  BY <1>2, <1>5 DEF Ends, Kept
<1>7. Switched(t.m) /\ (lapses' = {} => (t.m.reaper = "ALL_R" => Off(t.m)))
  BY <1>2, <1>3, <1>5 DEF MasterInv, Switched, Off
<1> QED
  BY <1>4, <1>5, <1>6, <1>7, Became

----------------------------------------------------------------------------
(* The timers of stops, and the reaping of a process.                      *)

\* The timer of a stop has fired: the record p of d no longer counts it.
LEMMA Spent ==
    ASSUME MasterInv, NEW d \in Daemon, NEW p, p \in DaemonRecord
    PROVE  LET v == [S EXCEPT !.ds[d] = p] IN
           v.m = m /\ v.ds[d] = p /\ \A e \in Daemon \ {d} : v.ds[e] = ds[e]
<1>1. S \in State /\ S.ds = ds /\ S.m = m /\ ds \in [Daemon -> DaemonRecord]
  BY Beginning DEF Sound, State
<1> QED
  BY <1>1 DEF State

\* A timer of StopFast, of which p is left: the target of d is stopped fast, in
\* time when p was the deadline of d.
LEMMA FastStops ==
    ASSUME MasterInv, NEW d \in Daemon, NEW p, Plain(p), Dated(p),
           Controller[d] # NoDaemon => RecordOK(d, p),
           Stopped(ds[d], p), p.start = ds[d].start,
           p.stop_fast = "armed" => ds[d].stop_fast = "armed"
    PROVE  LET t == StopFast([S EXCEPT !.ds[d] = p], {d}) IN
           /\ Sound(t) /\ t.m = m /\ Lives(t)
           /\ \A e \in Daemon : /\ t.ds[e].on_hold = ds[e].on_hold
                                /\ e # Target(d) => Undisturbed(ds[e], t.ds[e])
<1> DEFINE c == Target(d)
           v == [S EXCEPT !.ds[d] = p]
           f == [e \in Daemon |-> IF e \in Targets({d}) THEN StopFastSelf(v.ds[e]) ELSE v.ds[e]]
           t == StopFast(v, {d})
           u == [S EXCEPT !.ds = f]
<1>1. c \in Daemon /\ Controller[c] = NoDaemon /\ (Controller[d] = NoDaemon => c = d)
  BY TargetFree DEF Target
<1>2. Targets({d}) = {c}
  BY DEF Targets
<1>3. Sound(S) /\ S.ds = ds /\ S.m = m /\ S \in State
  BY Beginning DEF Sound
<1>4. v.m = m /\ v.ds[d] = p /\ \A e \in Daemon \ {d} : v.ds[e] = ds[e]
  BY SMTT(30), Spent DEF Plain
<1>5. t = u
  BY ZenonT(60), <1>3 DEF StopFast, ToEach, State
<1> HIDE DEF v, c
<1>6. /\ f = [e \in Daemon |-> f[e]] /\ f[c] = StopFastSelf(v.ds[c])
      /\ \A e \in Daemon \ {c} : f[e] = v.ds[e]
  BY <1>1, <1>2
<1> HIDE DEF f
<1>7. /\ RecordOK(c, f[c]) /\ Stopped(ds[c], f[c]) /\ f[c].stop_fast # "armed"
  <2>1. Plain(v.ds[c]) /\ Dated(v.ds[c]) /\ Stopped(ds[c], v.ds[c])
    <3>1. CASE c = d
      BY <1>4, <3>1
    <3>2. CASE c # d
      <4>1. v.ds[c] = ds[c] /\ RecordOK(c, ds[c])
        BY <1>1, <1>4, <3>2, Beginning
      <4> QED
        BY <4>1 DEF RecordOK, Stopped
    <3> QED
      BY <3>1, <3>2
  <2>2. /\ RecordOK(c, f[c]) /\ Stopped(v.ds[c], f[c]) /\ f[c].stop_fast # "armed"
    BY ZenonT(60), <1>6, <2>1, StopFastSelfOK
  <2> QED
    BY <2>1, <2>2 DEF Stopped
<1>8. ASSUME NEW e \in Daemon, e # c
      PROVE  /\ RecordOK(e, f[e]) /\ Stopped(ds[e], f[e]) /\ f[e].start = ds[e].start
             /\ f[e].stop_fast = "armed" => ds[e].stop_fast = "armed"
  <2>1. CASE e = d
    BY <1>1, <1>4, <1>6, <1>8, <2>1
  <2>2. CASE e # d
    <3>1. f[e] = ds[e] /\ RecordOK(e, ds[e])
      BY <1>4, <1>6, <1>8, <2>2, Beginning
    <3> QED
      BY <3>1 DEF Stopped
  <2> QED
    BY <2>1, <2>2
<1>9. Sound(u) /\ Stops(S, u)
  <2>1. \A e \in Daemon :
            /\ RecordOK(e, f[e]) /\ Stopped(S.ds[e], f[e])
            /\ f[e].stop_fast = "armed" => S.ds[e].stop_fast = "armed" \/ MayArm(S, e)
    BY <1>3, <1>7, <1>8
  <2> QED
    BY <1>3, <1>6, <2>1, Replaced
<1>10. u.ds = f
  BY <1>3 DEF State
<1> HIDE DEF u
<1>11. /\ Sound(u) /\ u.m = m /\ Lives(u)
       /\ \A e \in Daemon : /\ u.ds[e].on_hold = ds[e].on_hold
                            /\ e # c => Undisturbed(ds[e], u.ds[e])
  BY <1>3, <1>8, <1>9, <1>10 DEF Stops, Stopped, Lives, Undisturbed
<1> QED
  BY ZenonT(60), <1>5, <1>11 DEF c, v

\* The timer of a graceful stop fires, whether or not its id is stored.
LEMMA StopFastTimerKeeps ==
    ASSUME MasterInv, NEW d \in Daemon, StopFastTimer(d)
    PROVE  MasterInv' /\ Holding
<1> DEFINE r == ds[d]
<1>1. RecordOK(d, r) /\ S.ds = ds /\ Counts /\ Sound(S)
  BY Beginning
<1>2. CASE r.stop_fast = "armed" /\ lapses' = lapses
           /\ Becomes(StopFast([S EXCEPT !.ds[d].stop_fast = "fired"], {d}))
  <2> DEFINE p == [r EXCEPT !.stop_fast = "fired"]
             t == StopFast([S EXCEPT !.ds[d] = p], {d})
  <2>1. Becomes(t)
    BY <1>2 DEF S
  <2>2. /\ Plain(p) /\ Dated(p) /\ (Controller[d] # NoDaemon => RecordOK(d, p))
        /\ Stopped(r, p) /\ p.start = r.start /\ p.stop_fast # "armed"
    BY SMTT(30), <1>1 DEF RecordOK, Plain, Dated, DaemonRecord, Timer, Stopped
  <2> HIDE DEF p
  <2>3. /\ Sound(t) /\ t.m = m /\ Lives(t)
        /\ \A e \in Daemon : /\ t.ds[e].on_hold = ds[e].on_hold
                             /\ e # Target(d) => Undisturbed(ds[e], t.ds[e])
    BY <2>2, FastStops
  <2> HIDE DEF t
  <2>4. ds[Target(d)].pid /\ Target(d) \in Daemon
    <3>1. CASE Controller[d] = NoDaemon
      BY <1>1, <1>2, <3>1 DEF RecordOK, Plain, Target
    <3>2. CASE Controller[d] # NoDaemon
      BY <1>1, <1>2, <3>2, TargetFree DEF Sound, Target
    <3> QED
      BY <3>1, <3>2
  <2>5. Calm(t)
    BY <2>3, <2>4 DEF Calm, Lives, Settled
  <2>6. Counts'
    BY <1>1, <1>2 DEF Counts, StopFastTimer
  <2>7. Holding
    BY <2>1, <2>3 DEF Becomes, Holding
  <2> QED
    BY <1>2, <2>1, <2>3, <2>5, <2>6, <2>7, Sideways
<1>3. CASE r.lost_fast > 0 /\ Lapse("stale", ds[Target(d)].start)
           /\ Becomes(StopFast([S EXCEPT !.ds[d].lost_fast = @ - 1], {d}))
  <2> DEFINE p == [r EXCEPT !.lost_fast = @ - 1]
             t == StopFast([S EXCEPT !.ds[d] = p], {d})
  <2>1. Becomes(t)
    BY <1>3 DEF S
  <2>a. r.lost_fast - 1 \in Nat
    BY SMTT(30), <1>1, <1>3 DEF RecordOK, Plain, DaemonRecord
  <2>2. /\ Plain(p) /\ Dated(p) /\ (Controller[d] # NoDaemon => RecordOK(d, p))
        /\ Stopped(r, p) /\ p.start = r.start /\ p.stop_fast = r.stop_fast
    BY <1>1, <2>a DEF RecordOK, Plain, Dated, DaemonRecord, Stopped
  <2> HIDE DEF p
  <2>3. /\ Sound(t) /\ t.m = m /\ Lives(t)
        /\ \A e \in Daemon : /\ t.ds[e].on_hold = ds[e].on_hold
                             /\ e # Target(d) => Undisturbed(ds[e], t.ds[e])
    BY ZenonT(60), <2>2, FastStops
  <2> HIDE DEF t
  <2>4. ds[Target(d)].start \in BOOLEAN /\ "stale" \in Lapses
    BY TargetFree, Beginning DEF RecordOK, Plain, DaemonRecord, Lapses
  <2>5. lapses' \subseteq Lapses /\ (lapses' = {} => lapses = {} /\ ~ds[Target(d)].start)
    BY <1>1, <1>3, <2>4, CountsOK
  <2>6. ~ds[Target(d)].start => Calm(t)
    BY <2>3 DEF Calm
  <2>7. Counts'
    BY <1>1, <2>5 DEF Counts, StopFastTimer
  <2>8. Holding
    BY <2>1, <2>3 DEF Becomes, Holding
  <2> QED
    BY <2>1, <2>3, <2>5, <2>6, <2>7, <2>8, Sideways
<1> QED
  BY <1>2, <1>3 DEF StopFastTimer

\* The timer of a fast stop fires: the process is killed, in time when this was
\* its deadline.
LEMMA HardKillTimerKeeps ==
    ASSUME MasterInv, NEW d \in Daemon, HardKillTimer(d)
    PROVE  MasterInv' /\ Holding
<1> DEFINE r == ds[d]
<1>1. RecordOK(d, r) /\ S.ds = ds /\ S.m = m /\ Counts /\ Sound(S) /\ S \in State
  BY Beginning DEF Sound
<1>2. PICK p : /\ Plain(p) /\ p.stop_fast = r.stop_fast /\ p.start = r.start /\ Stopped(r, p)
               /\ Becomes(ToEach([S EXCEPT !.ds[d] = p], {d}, HardKill))
  <2>1. CASE Becomes(ToEach([S EXCEPT !.ds[d].hard_kill = "fired"], {d}, HardKill))
    <3> DEFINE p == [r EXCEPT !.hard_kill = "fired"]
    <3>1. Becomes(ToEach([S EXCEPT !.ds[d] = p], {d}, HardKill))
      BY <2>1 DEF S
    <3>2. Plain(p) /\ p.stop_fast = r.stop_fast /\ p.start = r.start /\ Stopped(r, p)
      BY <1>1 DEF RecordOK, Plain, DaemonRecord, Timer, Stopped
    <3> HIDE DEF p
    <3> QED
      BY <3>1, <3>2
  <2>2. CASE r.lost_kill > 0
             /\ Becomes(ToEach([S EXCEPT !.ds[d].lost_kill = @ - 1], {d}, HardKill))
    <3> DEFINE p == [r EXCEPT !.lost_kill = @ - 1]
    <3>1. Becomes(ToEach([S EXCEPT !.ds[d] = p], {d}, HardKill))
      BY <2>2 DEF S
    <3>a. r.lost_kill - 1 \in Nat
      BY SMTT(30), <1>1, <2>2 DEF RecordOK, Plain, DaemonRecord
    <3>2. Plain(p) /\ p.stop_fast = r.stop_fast /\ p.start = r.start /\ Stopped(r, p)
      BY <1>1, <3>a DEF RecordOK, Plain, DaemonRecord, Stopped
    <3> HIDE DEF p
    <3> QED
      BY <3>1, <3>2
  <2> QED
    BY <2>1, <2>2 DEF HardKillTimer
<1> DEFINE q == HardKill(p)
           v == [S EXCEPT !.ds[d] = p]
           f == [e \in Daemon |-> IF e \in {d} THEN HardKill(v.ds[e]) ELSE v.ds[e]]
           t == [S EXCEPT !.ds[d] = q]
<1>3. RecordOK(d, q) /\ Stopped(p, q) /\ q.stop_fast = p.stop_fast /\ q.start = p.start
  BY <1>2, HardKillOK
<1>4. Becomes(t)
  <2>1. v.m = m /\ v.ds[d] = p /\ \A e \in Daemon \ {d} : v.ds[e] = ds[e]
    BY SMTT(30), <1>2, Spent DEF Plain
  <2>2. Becomes([v EXCEPT !.ds = f])
    BY <1>2 DEF ToEach
  <2>3. v \in State
    BY <1>1, <1>2 DEF State, Plain
  <2>4. [v EXCEPT !.ds = f].ds = f /\ [v EXCEPT !.ds = f].m = m
    BY <2>1, <2>3 DEF State
  <2> HIDE DEF v
  <2>5. f[d] = q /\ \A e \in Daemon \ {d} : f[e] = ds[e]
    BY <2>1
  <2>6. f = [ds EXCEPT ![d] = q]
    <3>1. ds \in [Daemon -> DaemonRecord] /\ f = [e \in Daemon |-> f[e]]
      BY <1>1 DEF State
    <3> HIDE DEF f, q
    <3> QED
      BY ZenonT(60), <2>5, <3>1
  <2> HIDE DEF f, q
  <2>7. t.ds = [ds EXCEPT ![d] = q] /\ t.m = m
    BY <1>1 DEF State
  <2> QED
    BY <2>2, <2>4, <2>6, <2>7 DEF Becomes
<1> HIDE DEF q
<1>5. ds' = [ds EXCEPT ![d] = q] /\ m' = m
  BY <1>1, <1>4 DEF Becomes, State
<1>6. Undisturbed(ds[d], q) /\ q.stop_fast = ds[d].stop_fast
  BY <1>2, <1>3 DEF Stopped, Undisturbed
<1> QED
  BY <1>3, <1>5, <1>6, OneSideways DEF HardKillTimer

\* A process is reaped.
LEMMA ReapKeeps ==
    ASSUME MasterInv, NEW d \in Daemon, Reap(d)
    PROVE  MasterInv' /\ Holding
<1>1. PICK status : Becomes(IF m.reaper = "DEFAULT_R" THEN DefaultReaper(S, d, status)
                                                      ELSE AllReaper(S, d, status))
  BY DEF Reap
<1> DEFINE t == Exited(S, d, status)
<1>2. S.ds = ds /\ S.m = m /\ Counts /\ Sound(S) /\ m.reaper \in {"DEFAULT_R", "ALL_R"}
  BY Beginning DEF MasterRecord
<1>3. Ended(S, t, d)
  BY <1>2, ExitedOK
<1>4. Counts' /\ (lapses' = {} => lapses = {} /\ ~GivesUpAlone(d))
  <2>1. "controllee" \in Lapses /\ GivesUpAlone(d) \in BOOLEAN
    BY <1>2, MasterAssumption, Beginning
    DEF Lapses, GivesUpAlone, GivesUp, RecordOK, Plain, DaemonRecord
  <2>2. lapses' \subseteq Lapses /\ (lapses' = {} => lapses = {} /\ ~GivesUpAlone(d))
    BY <1>2, <2>1, CountsOK DEF Reap
  <2>3. deaths' \in 0 .. MaxDeaths
    BY SMTT(30), <1>2, MasterAssumption DEF Reap, Counts
  <2> QED
    BY <1>2, <2>2, <2>3 DEF Counts, Reap
<1>5. CASE m.reaper = "DEFAULT_R"
  <2> DEFINE u == Restart(t, d)
  <2>1. Becomes(u)
    BY <1>1, <1>5 DEF DefaultReaper
  <2> HIDE DEF t
  <2>2. Launched(t, u, d)
    BY ZenonT(60), <1>3, RestartOK DEF Ended
  <2> HIDE DEF u
  <2>3. Sound(u) /\ u.m = m
    BY ZenonT(60), <1>2, <1>3, <2>2 DEF Ended, Launched
  <2>4. Holding
    BY ZenonT(60), <1>2, <1>3, <2>1, <2>2 DEF Becomes, Holding, Ended, Launched
  <2>5. Ends(u) /\ Switched(u.m) /\ u.m.reaper # "ALL_R"
    BY ZenonT(60), <1>5, <2>3 DEF Ends, MasterInv
  <2>6. ASSUME lapses' = {}
        PROVE  Kept(u)
    <3>1. Kept(S) /\ ~GivesUpAlone(d)
      BY <1>4, <2>6 DEF MasterInv
    <3>2. GivesUp(S, d) = GivesUp(t, d) /\ Touched(S, d) = Touched(t, d)
      BY <1>3 DEF Ended, GivesUp, Touched
    <3> SUFFICES ASSUME NEW e \in Daemon, Controller[e] = NoDaemon,
                        m.up = "running", m.StartDaemons, ~m.shutting,
                        ~u.ds[e].pid, ~u.ds[e].on_hold, ~u.ds[e].start
                 PROVE  m.retry
      BY <2>3 DEF Kept
    <3>3. e # d
      BY ZenonT(60), <2>2, <2>3 DEF Launched
    <3>4. e \notin Controllees(d)
      BY MasterAssumption DEF Controllees
    <3>5. ~ds[e].pid /\ ~ds[e].on_hold
      BY ZenonT(60), <1>2, <1>3, <2>2, <3>3 DEF Ended, Launched, Stopped
    <3>6. ~ds[e].start
      <4>1. CASE e \in Touched(S, d)
        BY <3>1, <3>3, <4>1 DEF Touched, GivesUpAlone
      <4>2. CASE e \notin Touched(S, d)
        BY ZenonT(60), <1>2, <1>3, <2>2, <3>2, <3>4, <4>2 DEF Ended, Launched
      <4> QED
        BY <4>1, <4>2
    <3> QED
      BY <1>2, <1>5, <3>1, <3>5, <3>6 DEF Kept
  <2> QED
    BY <1>4, <2>1, <2>3, <2>4, <2>5, <2>6, Became
<1>6. CASE m.reaper = "ALL_R"
  <2> DEFINE u == AllReaper(S, d, status)
  <2>1. Becomes(u)
    BY <1>1, <1>6
  <2>2. Halted(t, u)
    BY <1>2, AllReaperOK
  <2> HIDE DEF t, u
  <2>3. Sound(u) /\ Ends(u) /\ SameFlags(m, u.m)
    BY <1>2, <1>3, <2>2 DEF Ended, Halted
  <2>4. Holding
    BY ZenonT(60), <1>2, <1>3, <2>1, <2>2 DEF Becomes, Holding, Ended, Halted, Stopped
  <2>5. Switched(u.m)
    BY <2>3 DEF MasterInv, Switched, SameFlags
  <2>6. lapses' = {} => Off(u.m)
    BY <1>4, <1>6, <2>3 DEF MasterInv, Off, SameFlags
  <2>7. lapses' = {} => Kept(u)
    BY <2>3, <2>6, OffKept
  <2> QED
    BY ZenonT(60), <1>4, <2>1, <2>3, <2>4, <2>5, <2>6, <2>7, Became
<1> QED
  BY <1>2, <1>5, <1>6

----------------------------------------------------------------------------
(* The theorems.                                                           *)

\* The master has started all daemons when it begins to serve.
LEMMA MasterInitially == Init => MasterInv
<1> SUFFICES ASSUME Init
             PROVE  MasterInv
  OBVIOUS
<1> DEFINE s == [ds |-> [d \in Daemon |-> NewDaemon], m |-> NewMaster]
           t == StartAllDaemons(s, AllWell)
<1>1. ds = t.ds /\ m = t.m /\ commands = 0 /\ deaths = 0 /\ lapses = {}
  BY DEF Init
<1>2. NewDaemon \in DaemonRecord /\ NewDaemon.pid = FALSE /\ NewDaemon.stop_state = "NONE"
      /\ NewDaemon.stop_fast = "none"
  BY SMTT(30) DEF NewDaemon, DaemonRecord, StopStates, Timer
<1>3. \A d \in Daemon : RecordOK(d, NewDaemon)
  BY <1>2 DEF RecordOK, Plain, Dated
<1>4. NewMaster \in MasterRecord
  BY DEF NewMaster, MasterRecord
<1>5. Sound(s) /\ s.m = NewMaster
  <2>1. s \in State /\ \A d \in Daemon : s.ds[d] = NewDaemon
    BY <1>2, <1>4 DEF State
  <2> HIDE DEF s
  <2>2. Sound(s)
    BY <1>2, <1>3, <2>1 DEF Sound
  <2> QED
    BY <2>2 DEF s
<1> HIDE DEF s
<1>6. AllWell \in [Daemon -> Outcomes]
  BY DEF AllWell, Outcomes
<1>7. StartedAll(s, t)
  BY <1>5, <1>6, StartAllOK
<1> HIDE DEF t
<1>8. Sound(t) /\ Kept(t) /\ t.m \in {NewMaster, [NewMaster EXCEPT !.retry = TRUE]}
  BY <1>5, <1>7 DEF StartedAll
<1>9. t.m.reaper = "DEFAULT_R" /\ t.m.StartDaemons = TRUE
  BY SMTT(30), <1>8 DEF NewMaster
<1>10. S = t
  BY <1>1, <1>8 DEF S, Sound, State
<1>11. Ends(t) /\ Switched(t.m)
  BY <1>9 DEF Ends, Switched
<1>12. Counts
  BY SMTT(30), <1>1, MasterAssumption DEF Counts
<1> QED
  BY <1>1, <1>8, <1>9, <1>10, <1>11, <1>12 DEF MasterInv

\* What a step keeps: the invariant, and the holds unless a command arrives or
\* StartAllDaemons is tried again.
LEMMA MasterStep ==
    ASSUME MasterInv, [Next]_vars
    PROVE  MasterInv' /\ (Holding \/ commands' # commands \/ m.retry)
<1>0. ASSUME Command PROVE commands' # commands
  BY SMTT(30), <1>0 DEF MasterInv, Counts, Command
<1>1. CASE DaemonsOn
  BY <1>0, <1>1, DaemonsOnKeeps DEF DaemonsOn
<1>2. CASE DaemonsOff
  BY <1>0, <1>2, DaemonsOffKeeps DEF DaemonsOff
<1>3. CASE RestartMaster
  BY <1>0, <1>3, RestartMasterKeeps DEF RestartMaster
<1>4. CASE MainShutdown
  BY <1>0, <1>4, MainShutdownKeeps DEF MainShutdown
<1>5. CASE MainConfig
  BY <1>0, <1>5, MainConfigKeeps DEF MainConfig
<1>6. CASE RetryStartAllDaemons
  BY ZenonT(60), <1>6, RetryKeeps DEF RetryStartAllDaemons
<1>7. CASE FinalRestartMaster
  <2>1. Holding
    BY <1>7 DEF FinalRestartMaster, Holding
  <2> QED
    BY <1>7, <2>1, FinalKeeps
<1>8. ASSUME NEW d \in Daemon, DaemonNext(d)
      PROVE  MasterInv' /\ (Holding \/ commands' # commands \/ m.retry)
  <2>1. CASE DaemonOn(d)
    BY <1>0, <2>1, DaemonOnKeeps DEF DaemonOn
  <2>2. CASE DaemonOff(d)
    BY ZenonT(60), <1>0, <2>2, DaemonOffKeeps DEF DaemonOff
  <2>3. CASE ChildOn(d)
    BY <1>0, <2>3, ChildOnKeeps DEF ChildOn, ChildCommand
  <2>4. CASE ChildOff(d)
    BY <1>0, <2>4, ChildOffKeeps DEF ChildOff, ChildCommand
  <2>5. CASE DoStart(d)
    BY <2>5, DoStartKeeps
  <2>6. CASE Recover(d) \/ FileAppears(d)
    BY <2>6, RecoverKeeps, FileAppearsKeeps
  <2>7. CASE StopFastTimer(d)
    BY <2>7, StopFastTimerKeeps
  <2>8. CASE HardKillTimer(d)
    BY <2>8, HardKillTimerKeeps
  <2>9. CASE Reap(d)
    BY <2>9, ReapKeeps
  <2> QED
    BY <1>8, <2>1, <2>2, <2>3, <2>4, <2>5, <2>6, <2>7, <2>8, <2>9 DEF DaemonNext
<1>9. CASE UNCHANGED vars
  <2>1. ds' = ds /\ m' = m /\ lapses' = lapses /\ commands' = commands /\ deaths' = deaths
    BY <1>9 DEF vars
  <2>2. S' = S
    BY <2>1 DEF S
  <2>3. Sound(S') /\ Ends(S') /\ (Kept(S) => Kept(S'))
    BY <2>2 DEF MasterInv
  <2> QED
    BY <2>1, <2>3 DEF MasterInv, Counts, Holding
<1> QED
  BY <1>1, <1>2, <1>3, <1>4, <1>5, <1>6, <1>7, <1>8, <1>9 DEF Next

\* The invariant holds at all times.
LEMMA MasterAlways == Spec => []MasterInv
BY MasterInitially, MasterStep, PTL DEF Spec

\* The daemon objects and the globals of the master keep their types.
THEOREM MasterTypes == Spec => []TypeOK
<1>1. MasterInv => TypeOK
  BY Beginning DEF MasterInv, Counts, Sound, State, TypeOK
<1> QED
  BY <1>1, MasterAlways, PTL

\* A stop runs to its end: whatever mix of graceful, fast and peaceful stops was
\* asked for, and whichever timers were lost on the way, a process that is being
\* stopped has been killed or has a timer that takes it further.
THEOREM StopsHaveDeadlines == Spec => []StopHasDeadline
<1>1. MasterInv => StopHasDeadline
  BY Beginning DEF RecordOK, Plain, Dated, StopHasDeadline
<1> QED
  BY <1>1, MasterAlways, PTL

\* When the last daemon that the master waits for has gone, the master has gone
\* back to the default reaper or is about to end.
THEOREM AllReapersEnd == Spec => []AllReaperEnds
<1>1. MasterInv => AllReaperEnds
  BY Beginning DEF MasterInv, Ends, AllReaperEnds
<1> QED
  BY <1>1, MasterAlways, PTL

\* A daemon that should run and does not will be started, unless one of the three
\* lapses has happened.
THEOREM RestartsKept == Spec => []RestartLostOnlyByLapse
<1>1. MasterInv => RestartLostOnlyByLapse
  BY Beginning DEF MasterInv, Kept, RestartLostOnlyByLapse, RestartKept, Down
<1> QED
  BY <1>1, MasterAlways, PTL

\* Only a command releases a daemon that is held.
THEOREM HoldsKept == Spec => HoldKept
<1>1. ASSUME MasterInv, [Next]_vars
      PROVE  [\A d \in Daemon : ds[d].on_hold /\ ~ ds'[d].on_hold =>
                 commands' # commands \/ m.retry]_vars
  BY <1>1, MasterStep DEF Holding
<1> QED
  BY <1>1, MasterAlways, PTL DEF Spec, HoldKept
=============================================================================
