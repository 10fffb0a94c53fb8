------------------------------- MODULE HALock -------------------------------
(***************************************************************************)
(* The lease that lets one condor_master of several run a daemon of        *)
(* MASTER_HA_LIST (CondorLockImpl and CondorLockFile): a file in a shared  *)
(* directory whose st_mtime is the time the lease expires, polled and      *)
(* renewed by a timer; with the part of class daemon that asks for the     *)
(* lease, starts the daemon when it is acquired and stops it when it is    *)
(* lost (see Master for the rest of that class).                           *)
(*                                                                         *)
(* A master is single-threaded but the shared directory is not: one action *)
(* is one system call on the lock file, or one DaemonCore callback up to   *)
(* its first such call.  Times are relative: "left" is how far in the      *)
(* future of a reference clock the file expires, and the clock of host n   *)
(* is Skew[n] ahead of the reference clock.  A timer that is due, and a    *)
(* callback that has begun, are served before time passes, except in       *)
(* TickLate.                                                               *)
(*                                                                         *)
(* A definition that no other one uses, just before the definition it      *)
(* varies, is a faulty variant of it: it shows that a property is able to  *)
(* fail.                                                                   *)
(***************************************************************************)
EXTENDS Integers, FiniteSets

CONSTANTS
    Node,       \* the hosts that may run the daemon
    Urls,       \* the values of HA_LOCK_URL
    Periods,    \* the values of HA_POLL_PERIOD
    Holds,      \* the values of HA_LOCK_HOLD_TIME
    Skew,       \* how far the clock of a host is ahead
    MaxSkew,    \* how far it may be
    Faults,     \* the faults that may happen
    MaxFaults,  \* how many of them may happen
    MaxCommands \* how many condor_on and condor_off there are

\* "crash": a host ends; "kill": a master ends, and nothing else on its host;
\* "error": a system call on the shared directory fails; "late": time passes while
\* a callback is due or running; "exec": the daemon cannot be executed; "exit": the
\* daemon ends on its own; "preen": the lock file is removed by somebody else;
\* "reconfig": a master is told to reconfigure; "move": and finds a new
\* HA_LOCK_URL; "remove": and finds that the daemon is not in its list any more.
FaultKinds == {"crash", "kill", "error", "late", "exec", "exit", "preen",
               "reconfig", "move", "remove"}

ASSUME HALockAssumption ==
    /\ Urls # {} /\ Holds # {}
    /\ Periods \subseteq Nat /\ Holds \subseteq Nat
    /\ \E p \in Periods : p > 0
    /\ MaxSkew \in Nat /\ Skew \in [Node -> 0 .. MaxSkew]
    /\ \A p \in Periods, h \in Holds : h > p + MaxSkew
    /\ Faults \subseteq FaultKinds
    /\ MaxFaults \in Nat /\ MaxCommands \in Nat

Never == -1

Longest == CHOOSE p \in Periods : \A q \in Periods : q <= p

\* Where a callback is in GetLock (stat, unlink, creat, link), in UpdateLock
\* (utime, verify), or nowhere.
Calls == {"none", "stat", "unlink", "creat", "link", "utime", "verify"}

\* Who called: AcquireLock, DoPoll, or SetPeriods before it sets up the timer.
Callers == {"app", "poll", "periods"}

\* A master: is it up, and does it have the daemon in its list; CondorLockImpl's
\* have_lock, lock_enabled, lock_hold_time, the URL, the time since last_poll
\* and until the timer fires, with its period; the running call, its caller, the
\* expiration it has set, and what the timer is set to when it returns; and the
\* daemon's process ("leaves": it is being stopped, and not in the list any more),
\* on_hold and start_tid.
Master == [up : BOOLEAN, have : BOOLEAN, enabled : BOOLEAN, hold : Holds,
           url : Urls, last : Never .. (Longest + 1), in : Never .. Longest,
           every : Periods \union {0}, call : Calls, by : Callers,
           expire : Nat, rearm : Never .. Longest,
           pid : {"none", "runs", "stops", "leaves"},
           on_hold : BOOLEAN, start : BOOLEAN]

LockFile == [there : BOOLEAN, left : Nat]

VARIABLES
    m,        \* the masters
    orphans,  \* the hosts where a daemon runs whose master has ended
    file,     \* the lock file at a URL
    faults,   \* how many faults have happened
    commands, \* how many commands have been given
    lapses    \* what has happened that the lease does not withstand

\* An expired lock was removed that was not the one found expired; one was removed
\* while the daemon of a master that has ended still ran; a lock was acquired and
\* no daemon started; AcquireLock failed; a lock was lost under a running daemon,
\* for whose end nobody waits; the first poll was put off by a reconfiguration; the
\* next one was put off for ever; the URL was changed; the lock of a removed daemon
\* was unlinked; somebody else removed the lock; a callback was late.
Lapses == {"stale", "outlived", "idle", "disabled", "stopping", "postponed",
           "wrapped", "moved", "removed", "preened", "late"}

vars == <<m, orphans, file, faults, commands, lapses>>

NoFile == [there |-> FALSE, left |-> 0]

Fault(f) ==
    /\ f \in Faults /\ faults < MaxFaults
    /\ faults' = faults + 1

Idle(n) == m[n].up /\ m[n].call = "none"

-----------------------------------------------------------------------------
(* class daemon. *)

\* HaLockAcquired: a daemon that is on hold or runs already is left alone, and
\* one that cannot be executed is tried again later.
RealStart(l, ok) ==
    IF l.on_hold \/ l.pid # "none" THEN l
    ELSE IF ok THEN [l EXCEPT !.pid = "runs"]
    ELSE [l EXCEPT !.start = TRUE]

\* Stop, StopFast.
Stop(l) ==
    [l EXCEPT !.start = FALSE, !.pid = IF @ = "runs" THEN "stops" ELSE @]

\* HaLockLost, called for what the poll detects, without its effect.
LostUnnoticed(l) == [l EXCEPT !.have = FALSE]

LockLost(l) == Stop([l EXCEPT !.have = FALSE])

\* Nobody waits for the daemon that is stopped.
Abandons(l) == IF l.pid = "none" THEN {} ELSE {"stopping"}

\* AcquireLock up to its first system call.
AcquireLockOnce(l) ==
    IF l.have THEN l ELSE [l EXCEPT !.call = "stat", !.by = "app"]

AcquireLock(l) ==
    IF l.have THEN [l EXCEPT !.enabled = TRUE]
    ELSE [l EXCEPT !.enabled = TRUE, !.call = "stat", !.by = "app"]

Start(l) ==
    LET s == [l EXCEPT !.start = FALSE] IN
    IF l.on_hold \/ l.pid # "none" THEN s ELSE AcquireLock(s)

-----------------------------------------------------------------------------
(* CondorLockImpl: the timer. *)

\* DoPoll up to its first system call; r is what the timer is set to when it
\* returns.
DoPollOwn(l, r) ==
    IF l.have
    THEN [l EXCEPT !.last = 0, !.call = "utime", !.by = "poll", !.rearm = r]
    ELSE [l EXCEPT !.last = 0, !.in = r]

DoPoll(l, r) ==
    LET polled == [l EXCEPT !.last = 0] IN
    IF l.have THEN [polled EXCEPT !.call = "utime", !.by = "poll", !.rearm = r]
    ELSE IF l.enabled
    THEN [polled EXCEPT !.call = "stat", !.by = "poll", !.rearm = r]
    ELSE [polled EXCEPT !.in = r]

\* The delay of the timer is unsigned: one in the past is one in the far future.
Delay(d) == IF d < 0 THEN Never ELSE d

SetupTimerFromNow(l, p) ==
    IF p = 0 THEN l
    ELSE IF l.last = Never THEN [l EXCEPT !.in = p, !.every = p]
    ELSE DoPoll([l EXCEPT !.every = p], Delay(p + l.last))

\* SetupTimer.  old_poll_period is always zero, so that only a period of zero
\* counts as unchanged.
SetupTimer(l, p) ==
    IF p = 0 THEN l
    ELSE IF l.last = Never THEN [l EXCEPT !.in = p, !.every = p]
    ELSE DoPoll([l EXCEPT !.every = p], Delay(p - l.last))

\* What follows a call, in the function that made it.
Return(l) ==
    LET done == [l EXCEPT !.call = "none", !.by = "app", !.expire = 0,
                          !.rearm = 0] IN
    CASE l.by = "app"     -> done
      [] l.by = "poll"    -> [done EXCEPT !.in = l.rearm]
      [] l.by = "periods" -> SetupTimer(done, l.rearm)

\* A master starts, with what its configuration says: a new lock, whose timer is
\* set for the first poll, and StartAllDaemons.
Started(u, p, h) ==
    Start([up |-> TRUE, have |-> FALSE, enabled |-> FALSE, hold |-> h,
           url |-> u, last |-> Never, in |-> p,
           every |-> p, call |-> "none", by |-> "app", expire |-> 0,
           rearm |-> 0, pid |-> "none", on_hold |-> FALSE, start |-> FALSE])

Down(l) ==
    [l EXCEPT !.up = FALSE, !.have = FALSE, !.enabled = FALSE, !.last = Never,
              !.in = Never, !.every = 0, !.call = "none", !.by = "app", !.expire = 0,
              !.rearm = 0, !.pid = "none", !.on_hold = FALSE, !.start = FALSE]

-----------------------------------------------------------------------------
(* CondorLockFile: one system call each. *)

\* The clock of a host has reached the time the file expires.
ExpiredSoon(n, u) == file[u].left <= Skew[n] + 1

Expired(n, u) == file[u].left <= Skew[n]

Unlinked(u) == [file EXCEPT ![u] = NoFile]

\* GetLock, step 1.
Stat(n) ==
    /\ m[n].call = "stat"
    /\ LET f == file[m[n].url] IN
       m' = [m EXCEPT ![n] =
               IF ~f.there THEN [@ EXCEPT !.call = "creat"]
               ELSE IF Expired(n, @.url) THEN [@ EXCEPT !.call = "unlink"]
               ELSE Return(@)]
    /\ UNCHANGED <<orphans, file, faults, commands, lapses>>

\* The expired lock is removed, whatever file the name stands for by now, and
\* whether or not the daemon that ran under it has ended.
Unlink(n) ==
    /\ m[n].call = "unlink"
    /\ \/ /\ file' = Unlinked(m[n].url)
          /\ lapses' = lapses \union
               (IF ~file[m[n].url].there THEN {}
                ELSE IF ~Expired(n, m[n].url) THEN {"stale"}
                ELSE IF orphans # {} THEN {"outlived"} ELSE {})
          /\ UNCHANGED faults
       \/ Fault("error") /\ UNCHANGED <<file, lapses>>
    /\ m' = [m EXCEPT ![n].call = "creat"]
    /\ UNCHANGED <<orphans, commands>>

\* Steps 2 and 3: the temporary file, which is this master's own, and its
\* expiration time.
Creat(n) ==
    /\ m[n].call = "creat"
    /\ m' = [m EXCEPT ![n].call = "link", ![n].expire = m[n].hold + Skew[n]]
    /\ UNCHANGED <<orphans, file, faults, commands, lapses>>

\* Step 4, the link race, and LockAcquired for the one who wins it.
Link(n) ==
    /\ m[n].call = "link"
    /\ IF file[m[n].url].there
       THEN /\ m' = [m EXCEPT ![n] = Return(@)]
            /\ UNCHANGED <<file, faults, lapses>>
       ELSE \E ok \in BOOLEAN :
            LET won == RealStart([m[n] EXCEPT !.have = TRUE], ok) IN
            /\ IF ok THEN UNCHANGED faults
               ELSE Fault("exec") /\ won.start # m[n].start
            /\ file' = [file EXCEPT ![m[n].url] =
                            [there |-> TRUE, left |-> m[n].expire]]
            /\ m' = [m EXCEPT ![n] = Return(won)]
            /\ lapses' = IF won.pid = "none" THEN lapses \union {"idle"}
                         ELSE lapses
    /\ UNCHANGED <<orphans, commands>>

\* GetLock fails: AcquireLock gives up, a poll does not.
Fails(n) ==
    /\ m[n].call \in {"stat", "creat", "link"}
    /\ Fault("error")
    /\ m' = [m EXCEPT ![n] =
               Return(IF @.by = "app" THEN [@ EXCEPT !.enabled = FALSE] ELSE @)]
    /\ lapses' = IF m[n].by = "app" THEN lapses \union {"disabled"} ELSE lapses
    /\ UNCHANGED <<orphans, file, commands>>

\* SetExpireTime of the lock file, by whoever believes to hold it.
Utime(n) ==
    LET e == m[n].hold + Skew[n] IN
    /\ m[n].call = "utime"
    /\ \/ /\ file[m[n].url].there
          /\ file' = [file EXCEPT ![m[n].url].left = e]
          /\ m' = [m EXCEPT ![n].call = "verify", ![n].expire = e]
          /\ UNCHANGED <<faults, lapses>>
       \/ /\ IF file[m[n].url].there THEN Fault("error") ELSE UNCHANGED faults
          /\ m' = [m EXCEPT ![n] = Return(LockLost(@))]
          /\ lapses' = lapses \union Abandons(m[n])
          /\ UNCHANGED file
    /\ UNCHANGED <<orphans, commands>>

Verify(n) ==
    /\ m[n].call = "verify"
    /\ LET f == file[m[n].url] IN
       \/ /\ f.there /\ f.left = m[n].expire
          /\ m' = [m EXCEPT ![n] = Return(@)]
          /\ UNCHANGED <<faults, lapses>>
       \/ /\ IF f.there /\ f.left = m[n].expire
             THEN Fault("error") ELSE UNCHANGED faults
          /\ m' = [m EXCEPT ![n] = Return(LockLost(@))]
          /\ lapses' = lapses \union Abandons(m[n])
    /\ UNCHANGED <<orphans, file, commands>>

-----------------------------------------------------------------------------
(* The callbacks. *)

Poll(n) ==
    /\ Idle(n) /\ m[n].in = 0
    /\ m' = [m EXCEPT ![n] = DoPoll(@, @.every)]
    /\ UNCHANGED <<orphans, file, faults, commands, lapses>>

\* The timer start_tid.
DoStart(n) ==
    /\ Idle(n) /\ m[n].start
    /\ m' = [m EXCEPT ![n] = Start(@)]
    /\ UNCHANGED <<orphans, file, faults, commands, lapses>>

\* Exited, then Restart: the daemon has ended, asked to or not, with
\* DAEMON_NO_RESTART or without.
ExitsKeepingLock(n) ==
    /\ Idle(n) /\ m[n].pid \in {"runs", "stops"}
    /\ m' = [m EXCEPT ![n].pid = "none", ![n].start = ~m[n].on_hold]
    /\ UNCHANGED <<orphans, file, faults, commands, lapses>>

Exits(n) ==
    /\ Idle(n) /\ m[n].pid \in {"runs", "stops"}
    /\ \E no_restart, freed \in BOOLEAN :
        /\ no_restart => m[n].pid = "runs"
        /\ ~freed => m[n].have
        /\ IF ~freed THEN Fault("error")
           ELSE IF m[n].pid = "runs" THEN Fault("exit") ELSE UNCHANGED faults
        /\ file' = IF m[n].have /\ freed THEN Unlinked(m[n].url) ELSE file
        /\ LET held == m[n].on_hold \/ no_restart IN
           m' = [m EXCEPT ![n] = [@ EXCEPT !.enabled = FALSE, !.have = FALSE,
                                           !.pid = "none", !.on_hold = held,
                                           !.start = ~held]]
    /\ UNCHANGED <<orphans, commands, lapses>>

\* condor_off and condor_on of the daemon, which has to be in the list.
DaemonOffAtOnce(n) ==
    /\ Idle(n) /\ m[n].pid # "leaves" /\ commands < MaxCommands
    /\ m' = [m EXCEPT ![n] = Stop([@ EXCEPT !.on_hold = TRUE, !.have = FALSE,
                                            !.enabled = FALSE])]
    /\ file' = IF m[n].have THEN Unlinked(m[n].url) ELSE file
    /\ commands' = commands + 1
    /\ UNCHANGED <<orphans, faults, lapses>>

DaemonOff(n) ==
    /\ Idle(n) /\ m[n].pid # "leaves" /\ commands < MaxCommands
    /\ m' = [m EXCEPT ![n] = Stop([@ EXCEPT !.on_hold = TRUE])]
    /\ commands' = commands + 1
    /\ UNCHANGED <<orphans, file, faults, lapses>>

DaemonOn(n) ==
    /\ Idle(n) /\ m[n].pid # "leaves" /\ commands < MaxCommands
    /\ m' = [m EXCEPT ![n] = Start([@ EXCEPT !.on_hold = FALSE])]
    /\ commands' = commands + 1
    /\ UNCHANGED <<orphans, file, faults, lapses>>

\* daemon::Reconfig, which only a daemon that runs and is not being stopped gets to:
\* SetLockParams with the URL it had, SetPeriods.  A poll is put off when there has
\* not been any, and for ever when the next one should have been already.
Reconfig(n) ==
    /\ Idle(n) /\ m[n].pid = "runs" /\ Fault("reconfig")
    /\ \E p \in Periods, h \in Holds :
        /\ m' = [m EXCEPT ![n] =
                   IF @.have /\ h # @.hold
                   THEN [@ EXCEPT !.hold = h, !.call = "utime",
                                  !.by = "periods", !.rearm = p]
                   ELSE SetupTimer([@ EXCEPT !.hold = h], p)]
        /\ lapses' = lapses \union
             (IF p > 0 /\ m[n].last = Never /\ m[n].have THEN {"postponed"}
              ELSE IF p > 0 /\ m[n].last > p THEN {"wrapped"} ELSE {})
    /\ UNCHANGED <<orphans, file, commands>>

\* SetLockParams with another URL: the lock is deleted, which unlinks the file
\* whoever holds it, and a new one is built that nobody has asked for yet.
Move(n) ==
    /\ Idle(n) /\ m[n].pid = "runs" /\ Fault("move")
    /\ \E u \in Urls \ {m[n].url}, p \in Periods \ {0}, h \in Holds :
        m' = [m EXCEPT ![n] =
                [LockLost(m[n]) EXCEPT !.url = u, !.hold = h, !.enabled = FALSE,
                                       !.last = Never, !.in = p, !.every = p]]
    /\ file' = Unlinked(m[n].url)
    /\ lapses' = lapses \union {"moved"}
    /\ UNCHANGED <<orphans, commands>>

\* StopDaemon of a daemon that does not run: it is deleted, and its lock.
Remove(n) ==
    /\ Idle(n) /\ m[n].pid = "none" /\ Fault("remove")
    /\ m' = [m EXCEPT ![n] = Down(@)]
    /\ file' = Unlinked(m[n].url)
    /\ lapses' = lapses \union (IF file[m[n].url].there THEN {"removed"} ELSE {})
    /\ UNCHANGED <<orphans, commands>>

\* And of one that does: it is taken off the list, and its lock renewed until it
\* has ended,
Retire(n) ==
    /\ Idle(n) /\ m[n].pid \in {"runs", "stops"} /\ Fault("remove")
    /\ m' = [m EXCEPT ![n] = [Stop(@) EXCEPT !.pid = "leaves"]]
    /\ UNCHANGED <<orphans, file, commands, lapses>>

\* when DefaultReaper gives the lock back, if it is held, and deletes it.
Retired(n) ==
    /\ Idle(n) /\ m[n].pid = "leaves"
    /\ m' = [m EXCEPT ![n] = Down(@)]
    /\ file' = Unlinked(m[n].url)
    /\ lapses' = lapses \union (IF file[m[n].url].there /\ ~m[n].have
                                THEN {"removed"} ELSE {})
    /\ UNCHANGED <<orphans, faults, commands>>

Boot(n) ==
    /\ ~m[n].up
    /\ \E p \in Periods \ {0} : m' = [m EXCEPT ![n] = Started(@.url, p, @.hold)]
    /\ UNCHANGED <<orphans, file, faults, commands, lapses>>

-----------------------------------------------------------------------------
(* The environment. *)

\* The host ends, or the master alone, whose daemon runs on; the lock file stays.
Crash(n) ==
    /\ m[n].up
    /\ \/ Fault("crash") /\ orphans' = orphans \ {n}
       \/ /\ Fault("kill")
          /\ orphans' = IF m[n].pid = "none" THEN orphans ELSE orphans \union {n}
    /\ m' = [m EXCEPT ![n] = Down(@)]
    /\ UNCHANGED <<file, commands, lapses>>

\* check_parent, every two minutes, finds that the master has ended: the daemon
\* stops as if it were told to, which takes the time it takes.
OrphanEnds(n) ==
    /\ n \in orphans
    /\ orphans' = orphans \ {n}
    /\ UNCHANGED <<m, file, faults, commands, lapses>>

\* condor_preen, for instance, removes the lock file.
Preen(u) ==
    /\ file[u].there /\ Fault("preen")
    /\ file' = Unlinked(u)
    /\ lapses' = lapses \union {"preened"}
    /\ UNCHANGED <<m, orphans, commands>>

Less(t) == IF t > 0 THEN t - 1 ELSE t

\* A second passes.
Pass ==
    /\ file' = [u \in Urls |-> [file[u] EXCEPT !.left = Less(@)]]
    /\ m' = [n \in Node |->
               [m[n] EXCEPT !.in = Less(@), !.expire = Less(@),
                            !.last = IF @ = Never \/ @ > Longest
                                     THEN @ ELSE @ + 1]]

Prompt(n) == m[n].up => m[n].call = "none" /\ m[n].in # 0

Tick ==
    /\ \A n \in Node : Prompt(n)
    /\ Pass
    /\ UNCHANGED <<orphans, faults, commands, lapses>>

\* And somebody who is not ready for it is late.  A verification is not held up
\* beyond the time it verifies.
TickLate ==
    /\ \E n \in Node : ~Prompt(n)
    /\ \A n \in Node : m[n].call = "verify" => m[n].expire > 0
    /\ Fault("late")
    /\ Pass
    /\ lapses' = lapses \union {"late"}
    /\ UNCHANGED <<orphans, commands>>

-----------------------------------------------------------------------------
Init ==
    /\ m = [n \in Node |-> Down(Started(CHOOSE u \in Urls : TRUE, 0,
                                         CHOOSE h \in Holds : TRUE))]
    /\ orphans = {} /\ file = [v \in Urls |-> NoFile]
    /\ faults = 0 /\ commands = 0 /\ lapses = {}

Call(n) ==
    Stat(n) \/ Unlink(n) \/ Creat(n) \/ Link(n) \/ Utime(n) \/ Verify(n)

Next ==
    \/ \E n \in Node :
        \/ Call(n) \/ Fails(n)
        \/ Poll(n) \/ DoStart(n) \/ Exits(n) \/ DaemonOff(n) \/ DaemonOn(n)
        \/ Reconfig(n) \/ Move(n) \/ Remove(n) \/ Retire(n) \/ Retired(n)
        \/ Boot(n) \/ Crash(n) \/ OrphanEnds(n)
    \/ \E u \in Urls : Preen(u)
    \/ Tick \/ TickLate

Spec == Init /\ [][Next]_vars

\* A master makes its next call, its timers fire, and time passes.
FairSpec ==
    /\ Spec
    /\ WF_vars(Tick)
    /\ \A n \in Node : WF_vars(Call(n)) /\ WF_vars(Poll(n)) /\ WF_vars(DoStart(n))

-----------------------------------------------------------------------------
TypeOK ==
    /\ m \in [Node -> Master]
    /\ orphans \subseteq Node
    /\ file \in [Urls -> LockFile]
    /\ faults \in 0 .. MaxFaults
    /\ commands \in 0 .. MaxCommands
    /\ lapses \subseteq Lapses

Runs(n) == m[n].pid # "none"

\* have_lock is true in one master at most, for as long as its renewals are on
\* time: whatever crashes and restarts, fails, ends or is told off and on, and
\* with clocks that differ by less than a lease outlives a poll.  What breaks it
\* is in lapses.
OneHolder ==
    lapses \subseteq {"idle", "disabled", "stopping"} =>
        \A n, k \in Node : m[n].have /\ m[k].have => n = k

\* "To prevent multiple condor_schedd daemons from running at the same time, a
\* lock (semaphore-like) is held over the job queue" (ha.tex): not when two
\* masters find the same lock expired, and the second one unlinks the lock that
\* the first one has just made.
SingleSchedd ==
    /\ \A n, k \in Node : Runs(n) /\ Runs(k) => n = k
    /\ \A n, k \in orphans : n = k
    /\ orphans # {} => \A n \in Node : ~Runs(n)

\* One daemon runs at most, one that is being stopped and one whose master has ended
\* included, unless there has been a lapse: in particular a daemon that outlives its
\* master is alone until the lease of that master is over, which nothing renews.
SingleUnlessLapse == lapses \subseteq {"idle", "disabled"} => SingleSchedd

\* A daemon that runs and has not been told to stop has its master's lock: when
\* a poll detects that the lock is lost the daemon is stopped.
RunsUnderLock == \A n \in Node : m[n].pid = "runs" => m[n].have

\* A master that has the lock has the daemon: the lock is given back when the
\* daemon ends.  The exception is a lock that is acquired by a poll while the
\* daemon is on hold, or whose daemon could not be executed: it is kept, and
\* renewed, for nothing.
LockIsServed ==
    "idle" \notin lapses => \A n \in Node : m[n].have => Runs(n)

\* A master that is up, and whose daemon is not on hold, runs the daemon, or
\* polls the lock, or is going to start the daemon, also after the URL of the lock
\* has changed; except when asking for the lock has failed.
Competes ==
    "disabled" \notin lapses =>
        \A n \in Node : m[n].up /\ ~m[n].on_hold =>
            Runs(n) \/ m[n].enabled \/ m[n].start

\* "If the machine running the condor_schedd daemon fails to renew the lock ...
\* one machine will be the first to notice that the lock has timed out" (ha.tex):
\* while there is a master that may run the daemon, one does in the end.
TakenOver ==
    \A n \in Node :
        m[n].up /\ ~m[n].on_hold
            ~> \/ \E k \in Node : Runs(k)
               \/ ~m[n].up \/ m[n].on_hold
               \/ lapses \intersect {"idle", "disabled", "wrapped"} # {}

=============================================================================
