------------------------------- MODULE Master -------------------------------
(***************************************************************************)
(* The condor_master and the daemons it runs: one record per daemon object *)
(* (class daemon), one record for the Daemons object and the globals beside *)
(* it.  The master is single-threaded: one action is one whole callback of *)
(* DaemonCore, a command, a signal, a timer or the reaping of a child, with *)
(* every member function it calls.                                         *)
(*                                                                         *)
(* A member function that only touches its own object is an operator on    *)
(* the record of that daemon; one that reaches others is an operator on    *)
(* the whole state [ds, m].  A controllee (MASTER_<name>_CONTROLLER) sends *)
(* most requests on to its controller.                                     *)
(*                                                                         *)
(* A stored timer id is "none", "armed" (the timer is registered) or       *)
(* "fired"; a timer whose id was overwritten while it was registered is    *)
(* only counted.  restarts is only compared with 0 and 2, so it counts to  *)
(* 2.  Delays are left out: a registered timer fires at some later time.   *)
(*                                                                         *)
(* A definition that no other one uses, just before the definition it      *)
(* varies, is a faulty variant of it.                                      *)
(***************************************************************************)
EXTENDS Integers, Sequences, FiniteSets

CONSTANTS
    Order,        \* ordered_daemon_names: the daemons that run here
    Controller,   \* Controller[d]: the daemon that controls d, or NoDaemon
    NoDaemon,
    Startds,      \* those of type DT_STARTD
    OnlyLast,     \* those with m_only_stop_when_master_stops
    WaitFile,     \* those with m_after_startup_wait_for_file
    MaxCommands,  \* how many commands, signals and reconfigurations arrive
    MaxDeaths     \* how many daemons end unasked or fail to start

Daemon == {Order[i] : i \in 1 .. Len(Order)}
Controllees(d) == {e \in Daemon : Controller[e] = d}

ASSUME MasterAssumption ==
    /\ Order \in Seq(Daemon)
    /\ Controller \in [Daemon -> Daemon \cup {NoDaemon}]
    /\ NoDaemon \notin Daemon
    /\ \A d \in Daemon : Controller[d] # NoDaemon =>
                             Controller[Controller[d]] = NoDaemon
    /\ Startds \cup OnlyLast \cup WaitFile \subseteq Daemon
    /\ MaxCommands \in Nat /\ MaxDeaths \in Nat

StopStates == {"NONE", "PEACEFUL", "GRACEFUL", "FAST", "KILL"}
Timer == {"none", "armed", "fired"}

VARIABLES
    ds,        \* the daemon objects, and of their processes what matters here
    m,         \* the Daemons object and the globals of master.cpp
    commands,  \* how many commands have arrived
    deaths,    \* how many daemons have ended unasked or failed to start
    lapses     \* how a pending restart has been lost so far

vars == <<ds, m, commands, deaths, lapses>>

\* "early": DAEMONS_ON came while daemons were still ending.  "stale": a timer
\* whose id is lost fired while the restart was pending.  "controllee": the
\* controllee gave up, which stops its controller, while the latter's restart
\* was pending.
Lapses == {"early", "stale", "controllee"}

DaemonRecord ==
    [pid        : BOOLEAN,     \* pid # 0
     killed     : BOOLEAN,     \* SIGKILL was sent to the process
     on_hold    : BOOLEAN,
     restarts   : 0 .. 2,
     newExec    : BOOLEAN,
     stop_state : StopStates,
     start      : BOOLEAN,     \* start_tid # -1
     recover    : BOOLEAN,     \* recover_tid # -1
     stop_fast  : Timer,       \* stop_fast_tid
     hard_kill  : Timer,       \* hard_kill_tid
     lost_fast  : Nat,         \* timers of StopFastTimer with no id stored
     lost_kill  : Nat,         \* timers of HardKill with no id stored
     waiting    : BOOLEAN,     \* m_waiting_for_startup
     file       : BOOLEAN]     \* the file to wait for exists

MasterRecord ==
    [up           : {"running", "exited", "restarted"},
     shutting     : BOOLEAN,   \* MasterShuttingDown
     StartDaemons : BOOLEAN,
     GotDaemonsOff : BOOLEAN,
     reaper       : {"DEFAULT_R", "ALL_R"},
     action       : {"MASTER_RESET", "MASTER_RESTART", "MASTER_EXIT"},
     stop_others  : {"NONE", "GRACEFUL", "PEACEFUL"},
     retry        : BOOLEAN,   \* m_retry_start_all_daemons_tid # -1
     final        : BOOLEAN]   \* the timer of FinalRestartMaster is registered

TypeOK ==
    /\ ds \in [Daemon -> DaemonRecord]
    /\ m \in MasterRecord
    /\ commands \in 0 .. MaxCommands
    /\ deaths \in 0 .. MaxDeaths
    /\ lapses \subseteq Lapses

-----------------------------------------------------------------------------
(* Member functions that touch one daemon object only.                     *)

AnyArmed(t) == IF t = "armed" THEN 1 ELSE 0

CancelRestartTimers(r) == [r EXCEPT !.recover = FALSE, !.start = FALSE]

CancelAllTimers(r) ==
    [CancelRestartTimers(r) EXCEPT !.stop_fast = "none", !.hard_kill = "none"]

\* The graceful stop: SIGTERM, and a timer that turns it into a fast one.
StopSelf(r) ==
    LET q == [r EXCEPT !.start = FALSE]
    IN  IF ~ q.pid \/ q.stop_state = "GRACEFUL"
        THEN q
        ELSE [q EXCEPT !.stop_state = "GRACEFUL",
                       !.stop_fast = "armed",
                       !.lost_fast = @ + AnyArmed(q.stop_fast)]

\* SIGTERM with no timer.
StopPeaceful(r) ==
    LET q == [r EXCEPT !.start = FALSE]
    IN  IF ~ q.pid THEN q ELSE [q EXCEPT !.stop_state = "PEACEFUL"]

StopFastUntimed(r) ==
    IF r.pid THEN [r EXCEPT !.start = FALSE, !.stop_state = "FAST"] ELSE r

StopFastCancelling(r) ==
    IF ~ r.pid \/ r.stop_state = "FAST"
    THEN r
    ELSE [r EXCEPT !.stop_state = "FAST", !.stop_fast = "none",
                   !.lost_fast = @ - AnyArmed(r.stop_fast),
                   !.hard_kill = "armed"]

\* SIGQUIT, and a timer that turns it into a kill.  The id of the timer of a
\* graceful stop is forgotten whether or not it is this timer that has fired.
StopFastSelf(r) ==
    LET q == [r EXCEPT !.start = FALSE]
    IN  IF ~ q.pid \/ q.stop_state = "FAST"
        THEN q
        ELSE [q EXCEPT !.stop_state = "FAST",
                       !.stop_fast = "none",
                       !.lost_fast = @ + AnyArmed(q.stop_fast),
                       !.hard_kill = "armed",
                       !.lost_kill = @ + AnyArmed(q.hard_kill)]

HardKill(r) ==
    IF ~ r.pid \/ r.stop_state = "KILL"
    THEN r
    ELSE [r EXCEPT !.stop_state = "KILL",
                   !.hard_kill = "none",
                   !.lost_kill = @ + AnyArmed(r.hard_kill),
                   !.killed = TRUE]

-----------------------------------------------------------------------------
(* Functions on the whole state s = [ds, m].                               *)

\* Where a request that may be forwarded ends up.
Target(d) == IF Controller[d] = NoDaemon THEN d ELSE Controller[d]
Targets(D) == {Target(d) : d \in D}

\* Op applied to the daemons of D, in any order: each touches only its own.
ToEach(s, D, Op(_)) ==
    [s EXCEPT !.ds = [d \in Daemon |-> IF d \in D THEN Op(s.ds[d]) ELSE s.ds[d]]]

Stop(s, D) == ToEach(s, Targets(D), StopSelf)
StopFast(s, D) == ToEach(s, Targets(D), StopFastSelf)

Hold(s, d, hold) == [s EXCEPT !.ds[Target(d)].on_hold = hold]
HoldSelf(s, d, hold) == [s EXCEPT !.ds[d].on_hold = hold]

Running(s) == {d \in Daemon : s.ds[d].pid}
\* What NumberOfChildren counts.
Children(s) == Running(s) \ OnlyLast

GivesUp(s, d) == Controller[d] # NoDaemon /\ s.ds[d].restarts >= 2

\* A controllee that has been restarted twice is left to its controller.
Restart(s, d) ==
    LET t == IF GivesUp(s, d)
             THEN HoldSelf(Stop(s, {d}), d, TRUE)
             ELSE s
        r == t.ds[d]
    IN  IF r.on_hold
        THEN t
        ELSE [t EXCEPT !.ds[d] =
                 [r EXCEPT !.restarts = IF r.newExec THEN 0
                                        ELSE IF @ < 2 THEN @ + 1 ELSE 2,
                           !.newExec = FALSE,
                           !.recover = FALSE,
                           !.start = TRUE]]

\* outcome: the process runs ("ok"), its file may not be executed ("access") or
\* it cannot be created ("create").
RealStart(s, d, outcome) ==
    LET r == s.ds[d]
        q == [r EXCEPT !.file = @ /\ d \notin WaitFile]
    IN  IF r.on_hold \/ r.pid \/ s.m.shutting
        THEN s
        ELSE CASE outcome = "access" -> Restart(s, d)
               [] outcome = "create" -> Restart([s EXCEPT !.ds[d] = q], d)
               [] outcome = "ok" ->
                    [s EXCEPT !.ds[d] = [q EXCEPT !.pid = TRUE,
                                                  !.killed = FALSE,
                                                  !.waiting = TRUE,
                                                  !.recover = @ \/ r.restarts > 0,
                                                  !.newExec = FALSE]]

StartOnce(s, d, outcome) ==
    LET t == [s EXCEPT !.ds[d].start = FALSE]
    IN  IF outcome = "ok" THEN RealStart(t, d, outcome) ELSE t

StartSelf(s, d, outcome) ==
    RealStart([s EXCEPT !.ds[d].start = FALSE], d, outcome)
Start(s, d, outcome) == StartSelf(s, Target(d), outcome)

\* Whether the start of the daemons that follow d has to wait; if not, the
\* wait is over for good.
HasToWait(r, d) == r.waiting /\ d \in WaitFile /\ ~ r.file

\* StartAllDaemons: every daemon in turn, up to one that has to be waited for.
StartNext(acc, d, outcome) ==
    LET s == IF acc.s.ds[d].pid
             THEN acc.s
             ELSE Start(Hold(acc.s, d, FALSE), d, outcome[Target(d)])
    IN  CASE ~ acc.go -> acc
          [] acc.go /\ HasToWait(s.ds[d], d) ->
               [s |-> [s EXCEPT !.m.retry = TRUE], go |-> FALSE]
          [] acc.go /\ ~ HasToWait(s.ds[d], d) ->
               [s |-> [s EXCEPT !.ds[d].waiting = FALSE], go |-> TRUE]

StartAllDaemons(s, outcome) ==
    LET after[i \in 0 .. Len(Order)] ==
            IF i = 0 THEN [s |-> s, go |-> TRUE]
                     ELSE StartNext(after[i - 1], Order[i], outcome)
    IN  after[Len(Order)].s

\* AllDaemonsGone; with StopDaemonsBeforeMasterStops when the master ends.
AllDaemonsGone(s) ==
    CASE s.m.action = "MASTER_RESET" -> [s EXCEPT !.m.reaper = "DEFAULT_R"]
      [] s.m.action # "MASTER_RESET" /\ Running(s) # {} -> Stop(s, Running(s))
      [] s.m.action = "MASTER_RESTART" /\ Running(s) = {} ->
            [s EXCEPT !.m.final = TRUE]
      [] s.m.action = "MASTER_EXIT" /\ Running(s) = {} ->
            [s EXCEPT !.m.up = "exited"]

AllStartdsGone(s) ==
    LET t == [s EXCEPT !.m.stop_others = "NONE"]
    IN  CASE s.m.stop_others = "NONE" -> t
          [] s.m.stop_others = "PEACEFUL" -> ToEach(t, Children(s), StopPeaceful)
          [] s.m.stop_others = "GRACEFUL" -> Stop(t, Children(s))

SetAllReaper(s) ==
    IF s.m.reaper = "ALL_R"
    THEN s
    ELSE [s EXCEPT !.m.reaper = "ALL_R", !.m.stop_others = "NONE"]

CancelRetry(s) == [s EXCEPT !.m.retry = FALSE]

StopAllQuietly(s) ==
    LET t == SetAllReaper(CancelRetry(s))
        C == Children(t)
    IN  IF C \cap Startds # {}
        THEN [Stop(t, C \cap Startds) EXCEPT !.m.stop_others = "GRACEFUL"]
        ELSE Stop(t, C)

StopAllDaemons(s) ==
    LET t == SetAllReaper(CancelRetry(s))
        C == Children(t)
    IN  CASE C = {} -> AllDaemonsGone(t)
          [] C \cap Startds # {} ->
               [Stop(t, C \cap Startds) EXCEPT !.m.stop_others = "GRACEFUL"]
          [] C # {} /\ C \cap Startds = {} -> Stop(t, C)

StopPeacefulAllDaemons(s) ==
    LET t == SetAllReaper(CancelRetry(s))
        C == Children(t)
    IN  CASE C = {} -> AllDaemonsGone(t)
          [] C \cap Startds # {} ->
               [ToEach(t, C \cap Startds, StopPeaceful)
                    EXCEPT !.m.stop_others = "PEACEFUL"]
          [] C # {} /\ C \cap Startds = {} -> ToEach(t, C, StopPeaceful)

StopFastAllDaemons(s) ==
    LET t == SetAllReaper(CancelRetry(s))
        C == Children(t)
    IN  IF C = {} THEN AllDaemonsGone(t) ELSE StopFast(t, C)

ExitedReleased(s, d, status) ==
    LET t == ToEach(HoldSelf(s, d, status = "DAEMON_NO_RESTART"),
                    Controllees(d), StopFastSelf)
    IN  [t EXCEPT !.ds[d] = [CancelAllTimers(@) EXCEPT !.pid = FALSE,
                                                       !.killed = FALSE,
                                                       !.stop_state = "NONE"]]

\* Exited: the process of d is gone.
Exited(s, d, status) ==
    LET s1 == HoldSelf(s, d, s.ds[d].on_hold \/ status = "DAEMON_NO_RESTART"
                                \/ GivesUp(s, d))
        s2 == IF GivesUp(s, d) /\ s.ds[d].stop_state = "NONE"
              THEN Stop(s1, {d})
              ELSE s1
        s3 == ToEach(s2, Controllees(d), StopFastSelf)
    IN  [s3 EXCEPT !.ds[d] = [CancelAllTimers(@) EXCEPT !.pid = FALSE,
                                                        !.killed = FALSE,
                                                        !.stop_state = "NONE"]]

DefaultReaper(s, d, status) == Restart(Exited(s, d, status), d)

AllReaperAtEnd(s, d, status) ==
    LET t == Exited(s, d, status)
    IN  IF Children(t) = {} THEN AllDaemonsGone(t) ELSE t

AllReaper(s, d, status) ==
    LET t == Exited(s, d, status)
    IN  CASE Children(t) = {} -> AllDaemonsGone(t)
          [] Children(t) # {} /\ Children(t) \cap Startds = {} ->
               AllStartdsGone(t)
          [] Children(t) \cap Startds # {} -> t

-----------------------------------------------------------------------------
(* The callbacks of the master.                                            *)

S == [ds |-> ds, m |-> m]
Becomes(s) == ds' = s.ds /\ m' = s.m

\* How starting a process may go: as it should, or not, which is a "death".
\* In one callback at most one start fails.
Outcomes == {"ok", "access", "create"}
AllWell == [d \in Daemon |-> "ok"]
AllOutcomes == {[AllWell EXCEPT ![d] = o] : d \in Daemon, o \in Outcomes}
MayFail(failed) ==
    /\ failed => deaths < MaxDeaths
    /\ deaths' = deaths + (IF failed THEN 1 ELSE 0)

Lapse(kind, cond) == lapses' = IF cond THEN lapses \cup {kind} ELSE lapses

\* When d gives up while the restart of its controller is pending.
GivesUpAlone(d) == GivesUp(S, d) /\ ds[Controller[d]].start

Command ==
    /\ m.up = "running"
    /\ commands < MaxCommands
    /\ commands' = commands + 1

\* main_init has read the configuration, which holds every daemon, and has
\* called StartAllDaemons.
NewDaemon ==
    [pid |-> FALSE, killed |-> FALSE, on_hold |-> TRUE, restarts |-> 0,
     newExec |-> FALSE, stop_state |-> "NONE", start |-> FALSE,
     recover |-> FALSE, stop_fast |-> "none", hard_kill |-> "none",
     lost_fast |-> 0, lost_kill |-> 0, waiting |-> FALSE, file |-> FALSE]

NewMaster ==
    [up |-> "running", shutting |-> FALSE, StartDaemons |-> TRUE,
     GotDaemonsOff |-> FALSE, reaper |-> "DEFAULT_R", action |-> "MASTER_RESET",
     stop_others |-> "NONE", retry |-> FALSE, final |-> FALSE]

Init ==
    LET s == StartAllDaemons([ds |-> [d \in Daemon |-> NewDaemon],
                              m |-> NewMaster], AllWell)
    IN  ds = s.ds /\ m = s.m /\ commands = 0 /\ deaths = 0
        /\ lapses = {}

DaemonsOn ==
    /\ Command
    /\ \E outcome \in AllOutcomes :
          /\ MayFail(outcome # AllWell)
          /\ Becomes(StartAllDaemons([S EXCEPT !.m.StartDaemons = TRUE,
                                               !.m.GotDaemonsOff = FALSE],
                                     outcome))
    /\ Lapse("early", m.reaper = "ALL_R")

GoOff(s) == [s EXCEPT !.m.StartDaemons = FALSE,
                      !.m.GotDaemonsOff = TRUE,
                      !.m.action = "MASTER_RESET"]

DaemonsOff ==
    /\ Command
    /\ \/ Becomes(StopAllDaemons(GoOff(S)))
       \/ Becomes(StopFastAllDaemons(GoOff(S)))
       \/ Becomes(StopPeacefulAllDaemons(GoOff(S)))
    /\ UNCHANGED <<deaths, lapses>>

\* RESTART, RESTART_PEACEFUL, and a new executable of the master itself.
RestartMaster ==
    LET s == [S EXCEPT !.m.shutting = TRUE,
                       !.m.action = "MASTER_RESTART",
                       !.m.StartDaemons = FALSE]
    IN  /\ Command
        /\ \/ Becomes(StopAllDaemons(s))
           \/ Becomes(StopPeacefulAllDaemons(s))
        /\ UNCHANGED <<deaths, lapses>>

\* main_shutdown_graceful and main_shutdown_fast.
MainShutdown ==
    LET s == [S EXCEPT !.m.shutting = TRUE, !.m.action = "MASTER_EXIT"]
        t == IF Children(s) = {} THEN AllDaemonsGone(s) ELSE s
        u == ToEach(t, Daemon, CancelRestartTimers)
    IN  /\ Command
        /\ \/ t.m.up = "exited" /\ Becomes(t)
           \/ t.m.up # "exited" /\ Becomes(StopAllDaemons(u))
           \/ t.m.up # "exited" /\ Becomes(StopFastAllDaemons(u))
        /\ UNCHANGED <<deaths, lapses>>

\* A reconfiguration that may change the path of one daemon's executable.
MainConfig ==
    /\ Command
    /\ \E changed \in SUBSET Daemon :
          LET s == [ds |-> [d \in Daemon |->
                              [ds[d] EXCEPT !.newExec = @ \/ d \in changed]],
                    m |-> [m EXCEPT !.StartDaemons = ~ m.GotDaemonsOff]]
          IN  /\ Cardinality(changed) <= 1
              /\ Becomes(IF m.GotDaemonsOff THEN StopAllDaemons(GoOff(s)) ELSE s)
    /\ UNCHANGED <<deaths, lapses>>

DaemonOn(d) ==
    /\ Command
    /\ \E outcome \in Outcomes :
          /\ MayFail(outcome # "ok")
          /\ Becomes(Start(Hold(S, d, FALSE), d, outcome))
    /\ UNCHANGED lapses

DaemonOff(d) ==
    /\ Command
    /\ \/ Becomes(Stop(Hold(S, d, TRUE), {d}))
       \/ Becomes(StopFast(Hold(S, d, TRUE), {d}))
       \/ Becomes(ToEach(Hold(S, d, TRUE), {d}, StopPeaceful))
    /\ UNCHANGED <<deaths, lapses>>

\* CHILD_ON and CHILD_OFF come from the controller, while it runs.
ChildCommand(d) == Command /\ Controller[d] # NoDaemon /\ ds[Controller[d]].pid

ChildOn(d) ==
    /\ ChildCommand(d)
    /\ \E outcome \in Outcomes :
          /\ MayFail(outcome # "ok")
          /\ Becomes(StartSelf(HoldSelf(S, d, FALSE), d, outcome))
    /\ UNCHANGED lapses

ChildOff(d) ==
    /\ ChildCommand(d)
    /\ \/ Becomes(ToEach(HoldSelf(S, d, TRUE), {d}, StopSelf))
       \/ Becomes(ToEach(HoldSelf(S, d, TRUE), {d}, StopFastSelf))
    /\ UNCHANGED <<deaths, lapses>>

-----------------------------------------------------------------------------
(* Timers, and the ends of processes.                                      *)

DoStart(d) ==
    /\ m.up = "running"
    /\ ds[d].start
    /\ \E outcome \in Outcomes :
          /\ MayFail(outcome # "ok")
          /\ Becomes(StartSelf(S, d, outcome))
          /\ Lapse("controllee", outcome # "ok" /\ GivesUpAlone(d))
    /\ UNCHANGED commands

Recover(d) ==
    /\ m.up = "running"
    /\ ds[d].recover
    /\ ds' = [ds EXCEPT ![d].restarts = 0, ![d].recover = FALSE]
    /\ UNCHANGED <<m, commands, deaths, lapses>>

\* Of the timer whose id is stored, or of one whose id is lost.
StopFastTimer(d) ==
    /\ m.up = "running"
    /\ \/ /\ ds[d].stop_fast = "armed"
          /\ Becomes(StopFast([S EXCEPT !.ds[d].stop_fast = "fired"], {d}))
          /\ UNCHANGED lapses
       \/ /\ ds[d].lost_fast > 0
          /\ Becomes(StopFast([S EXCEPT !.ds[d].lost_fast = @ - 1], {d}))
          /\ Lapse("stale", ds[Target(d)].start)
    /\ UNCHANGED <<commands, deaths>>

HardKillTimer(d) ==
    /\ m.up = "running"
    /\ \/ /\ ds[d].hard_kill = "armed"
          /\ Becomes(ToEach([S EXCEPT !.ds[d].hard_kill = "fired"], {d}, HardKill))
       \/ /\ ds[d].lost_kill > 0
          /\ Becomes(ToEach([S EXCEPT !.ds[d].lost_kill = @ - 1], {d}, HardKill))
    /\ UNCHANGED <<commands, deaths, lapses>>

RetryStartAllDaemons ==
    /\ m.up = "running"
    /\ m.retry
    /\ \E outcome \in AllOutcomes :
          /\ MayFail(outcome # AllWell)
          /\ Becomes(StartAllDaemons([S EXCEPT !.m.retry = FALSE], outcome))
    /\ UNCHANGED <<commands, lapses>>

FinalRestartMaster ==
    /\ m.up = "running"
    /\ m.final
    /\ m' = [m EXCEPT !.up = "restarted"]
    /\ UNCHANGED <<ds, commands, deaths, lapses>>

\* A process ends, on a signal of the master or on its own, and is reaped.
Reap(d) ==
    /\ m.up = "running"
    /\ ds[d].pid
    /\ IF ds[d].stop_state = "NONE"
       THEN deaths < MaxDeaths /\ deaths' = deaths + 1
       ELSE deaths' = deaths
    /\ \E status \in {"died", "DAEMON_NO_RESTART"} :
          Becomes(IF m.reaper = "DEFAULT_R" THEN DefaultReaper(S, d, status)
                                            ELSE AllReaper(S, d, status))
    /\ Lapse("controllee", GivesUpAlone(d))
    /\ UNCHANGED commands

FileAppears(d) ==
    /\ d \in WaitFile
    /\ ds[d].pid /\ ~ ds[d].file
    /\ ds' = [ds EXCEPT ![d].file = TRUE]
    /\ UNCHANGED <<m, commands, deaths, lapses>>

DaemonNext(d) ==
    \/ DaemonOn(d) \/ DaemonOff(d) \/ ChildOn(d) \/ ChildOff(d)
    \/ DoStart(d) \/ Recover(d) \/ StopFastTimer(d) \/ HardKillTimer(d)
    \/ Reap(d) \/ FileAppears(d)

Next ==
    \/ DaemonsOn \/ DaemonsOff \/ RestartMaster \/ MainShutdown \/ MainConfig
    \/ RetryStartAllDaemons \/ FinalRestartMaster
    \/ \E d \in Daemon : DaemonNext(d)

\* What happens by itself: a registered timer fires, a killed process ends.
Progress ==
    \/ FinalRestartMaster
    \/ \E d \in Daemon : \/ DoStart(d) \/ StopFastTimer(d) \/ HardKillTimer(d)
                         \/ ds[d].killed /\ Reap(d)

Fairness == WF_vars(Progress)

Spec == Init /\ [][Next]_vars /\ Fairness

-----------------------------------------------------------------------------

\* A stop runs to its end.  A process that Stop, StopFast or HardKill has been
\* called for is either killed already or has a timer registered that takes it
\* further, whatever mix of graceful, fast and peaceful stops came before.  Only
\* the graceful stop of a controllee hands its deadline on to the controller.
StopHasDeadline ==
    \A d \in Daemon : ds[d].pid =>
        /\ ds[d].stop_state = "KILL" => ds[d].killed
        /\ ds[d].stop_state = "FAST" =>
              ds[d].hard_kill = "armed" \/ ds[d].lost_kill > 0
        /\ ds[d].stop_state = "GRACEFUL" /\ Controller[d] = NoDaemon =>
              ds[d].stop_fast = "armed" \/ ds[d].lost_fast > 0

\* While no daemon is left that the master waits for, it has gone back to the
\* reaper that restarts daemons, or it is itself about to end.
AllReaperEnds ==
    m.up = "running" /\ m.reaper = "ALL_R" /\ Children(S) = {} =>
        m.action # "MASTER_RESET" /\ (m.final \/ Running(S) # {})

Down(d) ==
    /\ m.up = "running" /\ m.reaper = "DEFAULT_R"
    /\ m.StartDaemons /\ ~ m.shutting
    /\ ~ ds[d].pid /\ ~ ds[d].on_hold

\* "When a daemon crashes, condor_master will restart the daemon after a delay":
\* a daemon that should run and does not has its start timer registered, or
\* StartAllDaemons is still going to reach it.  A controllee is left out: its
\* controller starts it.  It holds up to the lapses.
RestartKept ==
    \A d \in Daemon :
        Controller[d] = NoDaemon /\ Down(d) => ds[d].start \/ m.retry

\* The three lapses are all the ways there are to lose a restart, whatever the
\* order of commands, deaths, failing starts and timers.
RestartLostOnlyByLapse == lapses = {} => RestartKept

\* Only a command takes the hold off a daemon; the retry of StartAllDaemons does
\* it too, for a DAEMONS_ON that is still being carried out.
HoldKept ==
    [][\A d \in Daemon : ds[d].on_hold /\ ~ ds'[d].on_hold =>
          commands' # commands \/ m.retry]_vars

\* A controllee that runs although its controller does not.
Unsupervised(d) ==
    /\ Controller[d] # NoDaemon
    /\ ds[d].pid /\ ds[d].stop_state \notin {"FAST", "KILL"}
    /\ ~ ds[Controller[d]].pid

\* A shutdown or a restart of the master comes to its end, unless DAEMONS_OFF
\* replaces it, a daemon is stopped peacefully, or a controllee runs without the
\* controller that its stop is forwarded to.
ShutdownCompletes ==
    m.shutting /\ m.action # "MASTER_RESET" ~>
        \/ m.up # "running"
        \/ m.action = "MASTER_RESET"
        \/ \E d \in Daemon : ds[d].stop_state = "PEACEFUL" \/ Unsupervised(d)

\* "Peaceful shutdown is the same as graceful shutdown, but we never time out
\* waiting for the process to finish": a timer does not end a peaceful stop.  It
\* does not hold: the timer of a graceful stop that came before is still there.
PeacefulNeverTimesOut ==
    [][\A d \in Daemon :
          /\ ds[d].stop_state = "PEACEFUL" /\ ds[d].pid
          /\ ds'[d].stop_state \in {"FAST", "KILL"}
          => \/ commands' # commands
             \/ Controller[d] # NoDaemon /\ ~ ds'[Controller[d]].pid]_vars

=============================================================================
