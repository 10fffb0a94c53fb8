----------------------------- MODULE Replicator -----------------------------
(***************************************************************************)
(* condor_replication: one daemon beside each HAD copies the negotiator's  *)
(* state file from the central manager that leads to the ones that wait    *)
(* (ReplicatorStateMachine), with condor_transferer processes at both      *)
(* ends of a copy.                                                         *)
(*                                                                         *)
(* A state file is the set of the updates a negotiator has made to it, so  *)
(* that "newer than" is inclusion.  Its version is the pair of a gid and a *)
(* logical clock, kept in a file of its own.  One action is one DaemonCore *)
(* callback: a timer, a command, a reaper, a configuration signal, the     *)
(* start or the end of the process; or one step of a transferer, which is  *)
(* a process of its own.  Time is left out: a timer that is set may fire,  *)
(* and what "too long" means is a choice.                                  *)
(*                                                                         *)
(* HAD is the environment: it sends AFTER_ELECTION, IN_LEADER and          *)
(* AFTER_LEADER to the daemon on its own host (see HAD for when), and the  *)
(* negotiator runs where HAD leads.                                        *)
(*                                                                         *)
(* A definition that no other one uses, just before the definition it      *)
(* varies, is a faulty variant of it: it shows that a property is able to  *)
(* fail.                                                                   *)
(***************************************************************************)
EXTENDS Integers, FiniteSets

CONSTANTS
    Node,        \* the hosts of REPLICATION_LIST
    Gids,        \* the range of rand(), with the first gid, 0
    INT_MAX,     \* the largest logical clock
    MaxUpdates,  \* how many updates negotiators make
    MaxElections,\* how often a HAD is elected
    Faults,      \* the faults that may happen
    MaxFaults    \* how many of them may happen

\* "loss": a command to a peer is lost; "transfer": a transferer fails;
\* "stuck": it outlives MAX_TRANSFER_LIFETIME; "rename": the state file cannot
\* be renamed; "second": two updates fall into one second of st_mtime;
\* "unheard": a command of HAD to its daemon is lost, or HAD ends; "split": a
\* second HAD is elected; "torn": a version file is copied while it is being
\* written; "crash": the daemon or its host ends; "reconfig": it is told to
\* reconfigure.
FaultKinds == {"loss", "transfer", "stuck", "rename", "second", "unheard", "split",
               "torn", "crash", "reconfig"}

ASSUME ReplicatorAssumption ==
    /\ 0 \in Gids /\ Cardinality(Gids) > 1
    /\ INT_MAX \in Nat \ {0}
    /\ MaxUpdates \in Nat /\ MaxElections \in Nat
    /\ Faults \subseteq FaultKinds
    /\ MaxFaults \in Nat

Version == [gid : Gids, clock : 0 .. INT_MAX]

\* What load finds in a version file that is empty, before it gives up.
Empty == [gid |-> 0, clock |-> -1]
VersionFile == Version \cup {Empty}
Content == SUBSET (1 .. MaxUpdates)

States == {"DOWN", "VERSION_REQUESTING", "VERSION_DOWNLOADING", "BACKUP",
           "REPLICATION_LEADER"}

\* A version another daemon has told, with the state it was in (m_state).
Told == [from : Node, ver : Version, leads : BOOLEAN]

Commands == {"LEADER_VERSION", "SOLICIT_VERSION", "SOLICIT_VERSION_REPLY",
             "GIVING_UP_VERSION"}
Message == [cmd : Commands, to : Node, told : Told]

\* A downloading transferer of host "to", with the uploading one of "from".
Phases == {"connecting", "uploading", "copied", "done", "failed"}
Transfer == [pid : Nat \ {0}, to : Node, from : Node, phase : Phases,
             ver : VersionFile, file : Content,
             unlinked : BOOLEAN,  \* its temporary files are gone
             led : BOOLEAN]       \* history: its host became leader meanwhile

VARIABLES
    rep,        \* the daemon of each host
    disk,       \* its version file and state file
    transfers,  \* the transferer processes that have not been reaped
    msgs,       \* commands between the daemons that are in flight
    had,        \* whether the HAD of the host leads
    updates,    \* how many updates have been made
    elections,  \* how many HADs have been elected
    faults,     \* how many faults have happened
    labels,     \* history: each clock a leader gave, with the file it is for
    pending,    \* history: updates of a replication leader not yet counted
    lapses      \* history: what has gone wrong that the code does not mend

vars == <<rep, disk, transfers, msgs, had, updates, elections, faults, labels, pending,
          lapses>>

\* "leader": a download was installed after its host had become leader;
\* "second": an update was missed; "forgotten": a daemon ended, reinitialized
\* itself or installed a download before it had counted an update; "partial":
\* only the version file was replaced; "torn": a version file was copied, or its
\* writer ended, while it was being written; "overlap": two downloads of one host
\* ran at once; "unheard": HAD ceased to lead and its daemon was not told.
LapseKinds == {"leader", "second", "forgotten", "partial", "torn", "overlap", "unheard"}

\* What a daemon ends itself for (utilCrucialError).
Asserts == {"synchronized", "elected", "single", "clock"}

Daemon == [state : States,
           ver : Version,              \* m_myVersion
           behind : BOOLEAN,           \* m_lastModifiedTime < st_mtime
           list : SUBSET Told,         \* m_versionsList
           requesting : BOOLEAN,       \* m_versionRequestingTimerId is set
           downloading : BOOLEAN,      \* m_versionDownloadingTimerId is set
           pid : Nat,                  \* m_downloadTransfererMetadata; 0: none
           failed : SUBSET Asserts]    \* history: what it ended itself for

\* The timers of joining are set exactly in the states they end.
TypeOK ==
    /\ rep \in [Node -> Daemon]
    /\ \A n \in Node :
          /\ rep[n].requesting <=> rep[n].state = "VERSION_REQUESTING"
          /\ rep[n].downloading <=> rep[n].state = "VERSION_DOWNLOADING"
    /\ disk \in [Node -> [ver : VersionFile, file : Content]]
    /\ transfers \subseteq Transfer
    /\ msgs \subseteq Message
    /\ had \in [Node -> BOOLEAN]
    /\ updates \in 0 .. MaxUpdates
    /\ elections \in 0 .. MaxElections
    /\ faults \in 0 .. MaxFaults
    /\ labels \subseteq [clock : 0 .. INT_MAX, file : Content]
    /\ pending \in [Node -> Content]
    /\ lapses \subseteq LapseKinds

Happens(kind) ==
    /\ kind \in Faults
    /\ faults < MaxFaults
    /\ faults' = faults + 1

Fresh == [gid |-> 0, clock |-> 0]

----------------------------------------------------------------------------
(* Versions (HAD_Version.cpp).                                             *)

isComparable(v, w) == v.gid = w.gid

\* operator >, of versions told: a leader's is above any other's.
Above(t, u) ==
    \/ t.leads /\ ~u.leads
    \/ t.leads = u.leads /\ t.ver.clock > u.ver.clock

\* synchronize(false): load the version file, if there is something in it, and
\* note the time of the state file.
Loaded(r, v) ==
    [r EXCEPT !.ver = IF v = Empty THEN @ ELSE v, !.behind = FALSE]

DifferentVersion(mine, v) == v # mine
\* replicaSelectionHandler in BACKUP: is the version told better than mine?
WorthDownloading(mine, v) == ~isComparable(v, mine) \/ v.clock > mine.clock

\* replicaSelectionHandler in VERSION_DOWNLOADING: what the scan of the list
\* may end with (the order of the list is the order of arrival), if not worse
\* than mine.
BestOf(list) ==
    {t \in list : \A u \in list : isComparable(u.ver, t.ver) => ~Above(u, t)}

Selected(r) == {t \in BestOf(r.list) : WorthDownloading(r.ver, t.ver)}

\* gidSelectionHandler: the gids that may follow.
gidSelection(r) ==
    IF \A t \in r.list : isComparable(r.ver, t.ver)
    THEN {r.ver.gid}
    ELSE Gids \ {r.ver.gid}

----------------------------------------------------------------------------
(* Steps that several handlers share.                                      *)

Broadcast(n, cmd, r) ==
    {[cmd |-> cmd, to |-> m,
      told |-> [from |-> n, ver |-> r.ver,
                leads |-> r.state = "REPLICATION_LEADER"]] :
        m \in {k \in Node \ {n} : rep[k].state # "DOWN"}}

\* SIGKILL, and unlink of the temporary files, which a transferer that has
\* just exited has left for its reaper.
Killed(x) == IF x.phase = "done" THEN [x EXCEPT !.unlinked = TRUE]
                                 ELSE [x EXCEPT !.phase = "failed"]

Kill(victims) == (transfers \ victims) \cup {Killed(x) : x \in victims}

\* The transferer that m_downloadTransfererMetadata names, and the uploading
\* ones (m_uploadTransfererMetadataList).
Download(n) == {x \in transfers : x.to = n /\ x.pid = rep[n].pid}
Uploads(n) ==
    {x \in transfers : x.from = n /\ x.phase \in {"uploading", "copied"}}

\* The process of host n is gone: nobody reaps its downloads.
WithoutHost(n) == {x \in Kill(Uploads(n)) : x.to # n}
MsgsWithout(n) == {m \in msgs : m.to # n}

Stopped(n) == [rep[n] EXCEPT
    !.state = "DOWN", !.ver = Fresh, !.behind = FALSE, !.list = {},
    !.requesting = FALSE, !.downloading = FALSE, !.pid = 0]

\* The daemon is about to note the time of the state file without counting.
Forgotten(n) == IF pending[n] = {} THEN {} ELSE {"forgotten"}

\* utilCrucialError: main_shutdown_graceful, which ends the process.
Shutdown(n, why) ==
    /\ rep' = [rep EXCEPT ![n] = [Stopped(n) EXCEPT !.failed = @ \cup {why}]]
    /\ transfers' = WithoutHost(n)
    /\ msgs' = MsgsWithout(n)
    /\ lapses' = lapses \cup Forgotten(n)
    /\ UNCHANGED <<labels, pending>>

CrucialError(n, why) == Shutdown(n, why) /\ UNCHANGED disk

\* checkVersionSynchronization.
Synchronized(n) == rep[n].ver = disk[n].ver

NextPid(n) == CHOOSE p \in 1 .. Cardinality(transfers) + 1 :
                  \A x \in transfers : x.to = n => x.pid # p

Running(n) ==
    {x \in transfers : x.to = n /\ x.phase \notin {"done", "failed"}}

Unreaped(n) == {x \in transfers : x.to = n /\ x.phase # "failed"}

\* download(): a downloading transferer is created and its pid remembered.
StartDownload(n, r, source) ==
    /\ transfers' = transfers \cup
           {[pid |-> NextPid(n), to |-> n, from |-> source,
             phase |-> "connecting", ver |-> Fresh, file |-> {},
             unlinked |-> FALSE, led |-> FALSE]}
    /\ rep' = [rep EXCEPT ![n] = [r EXCEPT
                  !.pid = NextPid(n),
                  !.failed = IF r.pid = 0 THEN @ ELSE @ \cup {"single"}]]
    /\ lapses' = IF Unreaped(n) = {} THEN lapses ELSE lapses \cup {"overlap"}

JoinedByReaper(r) == [r EXCEPT !.state = "BACKUP", !.list = {}]
\* versionDownloadingTimer: joining ends.
Joined(r) == [r EXCEPT !.state = "BACKUP", !.list = {}, !.downloading = FALSE]

SelectGid(n, state) ==
    \E g \in gidSelection(rep[n]) :
        LET v == [rep[n].ver EXCEPT !.gid = g] IN
        /\ rep' = [rep EXCEPT ![n].state = state, ![n].ver = v]
        /\ disk' = IF v = rep[n].ver THEN disk
                                     ELSE [disk EXCEPT ![n].ver = v]

BecomeLeader(n) ==
    /\ SelectGid(n, "REPLICATION_LEADER")
    /\ transfers' = {IF x.to = n THEN [x EXCEPT !.led = TRUE] ELSE x :
                        x \in transfers}

Joining == {"VERSION_REQUESTING", "VERSION_DOWNLOADING"}

----------------------------------------------------------------------------
(* The process.                                                            *)

\* Version::initialize saves the version in memory when it can load none.
Reread(n) == IF disk[n].ver = Empty THEN rep[n].ver ELSE disk[n].ver

\* reinitialize: the versions list is not cleared; the versions of the other
\* daemons are asked for (beforePassiveStateHandler).
Reinitialized(n) ==
    [Loaded(rep[n], Reread(n)) EXCEPT
        !.state = "VERSION_REQUESTING", !.requesting = TRUE,
        !.downloading = FALSE, !.pid = 0]

Initialize(n) ==
    /\ rep[n].state = "DOWN"
    /\ rep' = [rep EXCEPT ![n] = Reinitialized(n)]
    /\ disk' = [disk EXCEPT ![n].ver = Reread(n)]
    /\ msgs' = msgs \cup Broadcast(n, "SOLICIT_VERSION", Reinitialized(n))
    /\ UNCHANGED <<transfers, had, updates, elections, faults, labels, pending,
                   lapses>>

Reinitialize(n) ==
    /\ rep[n].state # "DOWN"
    /\ Happens("reconfig")
    /\ rep' = [rep EXCEPT ![n] = Reinitialized(n)]
    /\ disk' = [disk EXCEPT ![n].ver = Reread(n)]
    /\ transfers' = Kill(Download(n) \cup Uploads(n))
    /\ msgs' = msgs \cup Broadcast(n, "SOLICIT_VERSION", Reinitialized(n))
    /\ lapses' = lapses \cup Forgotten(n)
    /\ UNCHANGED <<had, updates, elections, labels, pending>>

\* The next timer is going to save the version, and what the file holds
\* meanwhile: save truncates it, flushes the gid and writes the clock at the end.
Saving(n) ==
    /\ rep[n].state = "REPLICATION_LEADER" /\ rep[n].behind
    /\ Loaded(rep[n], disk[n].ver).ver.clock < INT_MAX
Torn(n) == {Empty, [gid |-> disk[n].ver.gid, clock |-> 0]}

\* Where the death of a daemon may leave its files: as they are, with a version
\* half written, or with one of the two files of a download in place.
Left(n) ==
    \/ UNCHANGED disk /\ lapses' = lapses \cup Forgotten(n)
    \/ /\ Saving(n)
       /\ \E v \in Torn(n) : disk' = [disk EXCEPT ![n].ver = v]
       /\ lapses' = lapses \cup Forgotten(n) \cup {"torn"}
    \/ /\ \E x \in transfers : /\ x.to = n /\ x.phase = "done" /\ ~x.unlinked
                               /\ disk' = [disk EXCEPT ![n].ver = x.ver]
       /\ lapses' = lapses \cup Forgotten(n) \cup {"partial"}

\* The daemon dies, alone or with its host and the HAD on it.  Alone, it may
\* leave its uploading transferers behind, which are processes of their own.
Crash(n) ==
    /\ rep[n].state # "DOWN"
    /\ Happens("crash")
    /\ rep' = [rep EXCEPT ![n] = Stopped(n)]
    /\ Left(n)
    /\ msgs' = MsgsWithout(n)
    /\ \/ UNCHANGED had /\ transfers' = {x \in transfers : x.to # n}
       \/ had' = [had EXCEPT ![n] = FALSE] /\ transfers' = WithoutHost(n)
    /\ UNCHANGED <<updates, elections, labels, pending>>

----------------------------------------------------------------------------
(* Commands of the HAD on the same host, each with what HAD does then.     *)

\* The HAD of n is elected.
Elected(n) ==
    /\ ~had[n]
    /\ elections < MaxElections
    /\ elections' = elections + 1
    /\ had' = [had EXCEPT ![n] = TRUE]

\* AFTER_ELECTION; afterElectionStateHandler.
AfterElection(n) ==
    /\ Elected(n)
    /\ \/ (\A m \in Node : ~had[m]) /\ UNCHANGED faults
       \/ (\E m \in Node : had[m]) /\ Happens("split")
    /\ IF rep[n].state = "REPLICATION_LEADER"
       THEN CrucialError(n, "elected")
       ELSE /\ IF rep[n].state = "BACKUP"
               THEN BecomeLeader(n) ELSE UNCHANGED <<rep, disk, transfers>>
            /\ UNCHANGED <<msgs, labels, pending, lapses>>
    /\ UNCHANGED updates

\* HAD does not look at the result of sendReplicationCommand.
AfterElectionLost(n) ==
    /\ Elected(n)
    /\ \A m \in Node : ~had[m]
    /\ Happens("unheard")
    /\ UNCHANGED <<rep, disk, transfers, msgs, updates, labels, pending, lapses>>

InLeaderSynchronizing(n) ==
    /\ had[n]
    /\ CASE rep[n].state = "BACKUP" -> BecomeLeader(n)
         [] rep[n].state = "REPLICATION_LEADER" ->
                /\ rep' = [rep EXCEPT ![n] = Loaded(@, disk[n].ver)]
                /\ UNCHANGED <<disk, transfers>>
         [] OTHER -> FALSE
    /\ UNCHANGED <<msgs, had, updates, elections, faults, labels, pending,
                   lapses>>
\* IN_LEADER; inLeaderStateHandler.  In REPLICATION_LEADER it only sets
\* m_lastHadAliveTime, in the joining states it does nothing.
InLeader(n) ==
    /\ had[n]
    /\ rep[n].state = "BACKUP"
    /\ BecomeLeader(n)
    /\ UNCHANGED <<msgs, had, updates, elections, faults, labels, pending,
                   lapses>>

\* AFTER_LEADER; afterLeaderStateHandler.
AfterLeader(n) ==
    /\ had[n]
    /\ had' = [had EXCEPT ![n] = FALSE]
    /\ IF rep[n].state = "REPLICATION_LEADER"
       THEN /\ msgs' = msgs \cup Broadcast(n, "GIVING_UP_VERSION", rep[n])
            /\ rep' = [rep EXCEPT ![n].state = "BACKUP"]
       ELSE UNCHANGED <<rep, msgs>>
    /\ UNCHANGED <<disk, transfers, updates, elections, faults, labels, pending,
                   lapses>>

\* AFTER_LEADER is lost, or HAD dies and sends nothing.
AfterLeaderLost(n) ==
    /\ had[n]
    /\ Happens("unheard")
    /\ had' = [had EXCEPT ![n] = FALSE]
    /\ lapses' = lapses \cup {"unheard"}
    /\ UNCHANGED <<rep, disk, transfers, msgs, updates, elections, labels,
                   pending>>

\* The negotiator writes the state file.  An update in the second of the one
\* synchronize has seen leaves st_mtime as it was.
Update(n) ==
    /\ had[n]
    /\ updates < MaxUpdates
    /\ updates' = updates + 1
    /\ disk' = [disk EXCEPT ![n].file = @ \cup {updates'}]
    /\ pending' = IF rep[n].state = "REPLICATION_LEADER"
                  THEN [pending EXCEPT ![n] = @ \cup {updates'}]
                  ELSE pending
    /\ \/ /\ rep' = [rep EXCEPT ![n].behind = rep[n].state # "DOWN"]
          /\ UNCHANGED <<faults, lapses>>
       \/ /\ rep[n].state # "DOWN" /\ disk[n].file # {}
          /\ Happens("second")
          /\ lapses' = lapses \cup {"second"}
          /\ UNCHANGED rep
    /\ UNCHANGED <<transfers, msgs, had, elections, labels>>

----------------------------------------------------------------------------
(* Commands of other daemons (commandHandler).                             *)

OnLeaderVersion(m) ==
    LET n == m.to
        r == rep[n] IN
    /\ m \in msgs /\ m.cmd = "LEADER_VERSION"
    /\ IF r.state = "BACKUP" /\ ~Synchronized(n)
       THEN CrucialError(n, "synchronized")
       ELSE /\ IF /\ r.state = "BACKUP"
                  /\ r.pid = 0
                  /\ WorthDownloading(r.ver, m.told.ver)
               THEN StartDownload(n, r, m.told.from)
               ELSE UNCHANGED <<rep, transfers, lapses>>
            /\ msgs' = msgs \ {m}
            /\ UNCHANGED <<disk, labels, pending>>
    /\ UNCHANGED <<had, updates, elections, faults>>

OnSolicitVersion(m) ==
    LET n == m.to
        reply == [cmd |-> "SOLICIT_VERSION_REPLY", to |-> m.told.from,
                  told |-> [from |-> n, ver |-> rep[n].ver,
                            leads |-> rep[n].state = "REPLICATION_LEADER"]]
        answers == /\ rep[n].state \in {"BACKUP", "REPLICATION_LEADER"}
                   /\ rep[m.told.from].state # "DOWN" IN
    /\ m \in msgs /\ m.cmd = "SOLICIT_VERSION"
    /\ msgs' = (msgs \ {m}) \cup {x \in {reply} : answers}
    /\ UNCHANGED <<rep, disk, transfers, had, updates, elections, faults, labels, pending,
                   lapses>>

OnReplyAlways(m) ==
    /\ m \in msgs /\ m.cmd = "SOLICIT_VERSION_REPLY"
    /\ msgs' = msgs \ {m}
    /\ rep' = [rep EXCEPT ![m.to].list =
                  {t \in @ : t.from # m.told.from} \cup {m.told}]
    /\ UNCHANGED <<disk, transfers, had, updates, elections, faults, labels, pending,
                   lapses>>
\* onSolicitVersionReply; updateVersionsList keeps one version of a host.
OnSolicitVersionReply(m) ==
    /\ m \in msgs /\ m.cmd = "SOLICIT_VERSION_REPLY"
    /\ msgs' = msgs \ {m}
    /\ IF rep[m.to].state = "VERSION_REQUESTING"
       THEN rep' = [rep EXCEPT ![m.to].list =
                        {t \in @ : t.from # m.told.from} \cup {m.told}]
       ELSE UNCHANGED rep
    /\ UNCHANGED <<disk, transfers, had, updates, elections, faults, labels, pending,
                   lapses>>

\* onGivingUpVersion: a leader may choose a new gid.
OnGivingUpVersion(m) ==
    /\ m \in msgs /\ m.cmd = "GIVING_UP_VERSION"
    /\ msgs' = msgs \ {m}
    /\ IF rep[m.to].state = "REPLICATION_LEADER"
       THEN SelectGid(m.to, "REPLICATION_LEADER")
       ELSE UNCHANGED <<rep, disk>>
    /\ UNCHANGED <<transfers, had, updates, elections, faults, labels, pending, lapses>>

\* sendCommand gives up after m_connectionTimeout, without a retry.
Lose(m) ==
    /\ m \in msgs
    /\ Happens("loss")
    /\ msgs' = msgs \ {m}
    /\ UNCHANGED <<rep, disk, transfers, had, updates, elections, labels, pending, lapses>>

----------------------------------------------------------------------------
(* Timers.                                                                 *)

RequestingTimerOnce(n) ==
    LET r == [rep[n] EXCEPT !.state = "VERSION_DOWNLOADING",
                            !.requesting = FALSE] IN
    /\ rep[n].requesting
    /\ \/ \E t \in Selected(r) : StartDownload(n, r, t.from)
       \/ /\ Selected(r) = {}
          /\ rep' = [rep EXCEPT ![n] = Joined(r)]
          /\ UNCHANGED <<transfers, lapses>>
    /\ UNCHANGED <<msgs, disk, labels, pending, had, updates, elections, faults>>
\* versionRequestingTimer: stop collecting, take the best version there is.
\* With none, versionDownloadingTimer is called at once.
VersionRequestingTimer(n) ==
    LET r == [rep[n] EXCEPT !.state = "VERSION_DOWNLOADING",
                            !.requesting = FALSE] IN
    /\ rep[n].requesting
    /\ \/ \E t \in Selected(r) :
              /\ StartDownload(n, [r EXCEPT !.downloading = TRUE], t.from)
              /\ UNCHANGED <<msgs, disk, labels, pending>>
       \/ /\ Selected(r) = {}
          /\ IF Synchronized(n)
             THEN /\ rep' = [rep EXCEPT ![n] = Joined(r)]
                  /\ UNCHANGED <<transfers, msgs, disk, labels, pending, lapses>>
             ELSE CrucialError(n, "synchronized")
    /\ UNCHANGED <<had, updates, elections, faults>>

VersionDownloadingTimer(n) ==
    /\ rep[n].downloading
    /\ IF Synchronized(n)
       THEN /\ rep' = [rep EXCEPT ![n] = Joined(@)]
            /\ UNCHANGED <<transfers, msgs, disk, labels, pending, lapses>>
       ELSE CrucialError(n, "synchronized")
    /\ UNCHANGED <<had, updates, elections, faults>>

\* killStuckDownloadingTransferer and, once joined,
\* killStuckUploadingTransferers; the download is forgotten.
Stuck(n) == IF rep[n].state = "VERSION_DOWNLOADING"
            THEN Download(n) ELSE Download(n) \cup Uploads(n)

Forgetting(n, victims) ==
    IF Download(n) \cap victims = {} THEN rep[n] ELSE [rep[n] EXCEPT !.pid = 0]

\* The victims of the timer: none, unless a transferer is stuck.
Victims(n, victims) ==
    \/ victims = {} /\ UNCHANGED faults
    \/ victims # {} /\ Happens("stuck")

JoiningTimer(n) ==
    /\ rep[n].state = "VERSION_DOWNLOADING"
    /\ \E victims \in SUBSET Stuck(n) :
          /\ Victims(n, victims)
          /\ transfers' = Kill(victims)
          /\ rep' = [rep EXCEPT ![n] = Forgetting(n, victims)]
    /\ UNCHANGED <<disk, msgs, had, updates, elections, labels, pending, lapses>>

BackupTimer(n) ==
    /\ rep[n].state = "BACKUP"
    /\ \E victims \in SUBSET Stuck(n) :
          /\ Victims(n, victims)
          /\ IF Synchronized(n)
             THEN /\ transfers' = Kill(victims)
                  /\ rep' = [rep EXCEPT ![n] = Forgetting(n, victims)]
                  /\ UNCHANGED <<disk, msgs, labels, pending, lapses>>
             ELSE CrucialError(n, "synchronized")
    /\ UNCHANGED <<had, updates, elections>>

\* synchronize(true): the clock counts the update of the state file.
Counted(n, r) ==
    IF r.behind
    THEN [Loaded(r, disk[n].ver) EXCEPT !.ver.clock = @ + 1]
    ELSE Loaded(r, disk[n].ver)

SilentWithUpdate(n) == ~had[n] /\ rep[n].behind
\* HAD_IN_LEADER_STATE has not come for m_hadAliveTolerance: HAD, which sends it
\* in every step it leads, leads no more; or all that it has sent was lost.
Silent(n) == ~had[n]

\* In REPLICATION_LEADER: an update is counted and announced; without a word
\* from HAD for m_hadAliveTolerance the daemon steps down.
LeaderTimer(n, silent) ==
    /\ rep[n].state = "REPLICATION_LEADER"
    /\ \E victims \in SUBSET Stuck(n) :
       LET r == Counted(n, Forgetting(n, victims)) IN
          /\ \/ (silent => Silent(n)) /\ Victims(n, victims)
             \/ silent /\ had[n] /\ victims = {} /\ Happens("unheard")
          /\ IF r.ver.clock > INT_MAX
             THEN CrucialError(n, "clock")
             ELSE /\ transfers' = Kill(victims)
                  /\ disk' = IF rep[n].behind
                             THEN [disk EXCEPT ![n].ver = r.ver] ELSE disk
                  /\ labels' = labels \cup
                         {[clock |-> r.ver.clock, file |-> disk[n].file] :
                             x \in {y \in {n} : rep[n].behind}}
                  /\ pending' = IF rep[n].behind
                                THEN [pending EXCEPT ![n] = {}] ELSE pending
                  /\ rep' = [rep EXCEPT ![n] = [r EXCEPT !.state =
                                IF silent THEN "BACKUP" ELSE @]]
                  /\ msgs' = msgs
                        \cup (IF rep[n].behind
                              THEN Broadcast(n, "LEADER_VERSION", r) ELSE {})
                        \cup (IF silent
                              THEN Broadcast(n, "GIVING_UP_VERSION", r) ELSE {})
                  /\ UNCHANGED lapses
    /\ UNCHANGED <<had, updates, elections>>

----------------------------------------------------------------------------
(* Transferers.                                                            *)

Becomes(x, y) == transfers' = (transfers \ {x}) \cup {y}

\* transferFileCommand of the downloading one, onTransferFile at the other end:
\* only a leader uploads.  Otherwise nobody connects and the process fails.
TransferFile(x) ==
    /\ x.phase = "connecting"
    /\ Becomes(x, [x EXCEPT !.phase =
           IF rep[x.from].state = "REPLICATION_LEADER" THEN "uploading"
                                                       ELSE "failed"])
    /\ UNCHANGED <<rep, disk, msgs, had, updates, elections, faults, labels, pending,
                   lapses>>

StateFirst == <<"file", "ver">>
\* UploadReplicaTransferer::upload copies the version file before the state
\* file, which may have gone on in between.
CopyOrder == <<"ver", "file">>

Copied(x, field, phase) ==
    [x EXCEPT ![field] = disk[x.from][field], !.phase = phase]

\* Both copied, the copies are sent and both processes exit.
Copy(x) ==
    /\ \/ x.phase = "uploading" /\ Becomes(x, Copied(x, CopyOrder[1], "copied"))
       \/ x.phase = "copied" /\ Becomes(x, Copied(x, CopyOrder[2], "done"))
    /\ UNCHANGED <<rep, disk, msgs, had, updates, elections, faults, labels,
                   pending, lapses>>

\* The version file is copied while the leader is saving it.
CopyTorn(x) ==
    /\ x.phase = "uploading"
    /\ Saving(x.from)
    /\ Happens("torn")
    /\ \E v \in Torn(x.from) :
          Becomes(x, [x EXCEPT !.ver = v, !.phase = "copied"])
    /\ lapses' = lapses \cup {"torn"}
    /\ UNCHANGED <<rep, disk, msgs, had, updates, elections, labels, pending>>

TransferFails(x) ==
    /\ x.phase \notin {"done", "failed"}
    /\ Happens("transfer")
    /\ Becomes(x, [x EXCEPT !.phase = "failed"])
    /\ UNCHANGED <<rep, disk, msgs, had, updates, elections, labels, pending, lapses>>

ReapForgettingNothing(x) ==
    /\ x.phase = "failed" \/ x.unlinked
    /\ transfers' = transfers \ {x}
    /\ UNCHANGED <<rep, disk, msgs, had, updates, elections, faults, labels, pending,
                   lapses>>
\* downloadReplicaTransfererReaper of a download that failed or whose files
\* are gone.  Whatever pid has ended, the one remembered is forgotten.
ReapFailed(x) ==
    /\ x.phase = "failed" \/ x.unlinked
    /\ transfers' = transfers \ {x}
    /\ rep' = [rep EXCEPT ![x.to].pid = 0]
    /\ UNCHANGED <<disk, msgs, had, updates, elections, faults, labels, pending, lapses>>

ReapUnsynchronized(x) ==
    /\ x.phase = "done" /\ ~x.unlinked
    /\ transfers' = transfers \ {x}
    /\ disk' = [disk EXCEPT ![x.to] = [ver |-> x.ver, file |-> x.file]]
    /\ rep' = [rep EXCEPT ![x.to].pid = 0]
    /\ UNCHANGED <<msgs, had, updates, elections, faults, labels, pending,
                   lapses>>
\* Both files are renamed, the version file first, in any state of the daemon;
\* a daemon that is joining calls versionDownloadingTimer.
ReapDone(x) ==
    LET n == x.to
        r == Loaded([rep[n] EXCEPT !.pid = 0], x.ver)
        joins == r.state = "VERSION_DOWNLOADING" IN
    /\ x.phase = "done" /\ ~x.unlinked
    /\ disk' = [disk EXCEPT ![n] = [ver |-> x.ver, file |-> x.file]]
    /\ IF joins /\ r.ver # x.ver
       THEN Shutdown(n, "synchronized")
       ELSE /\ transfers' = transfers \ {x}
            /\ rep' = [rep EXCEPT ![n] = IF joins THEN Joined(r) ELSE r]
            /\ lapses' = lapses \cup Forgotten(n)
                             \cup (IF x.led THEN {"leader"} ELSE {})
            /\ UNCHANGED <<msgs, labels, pending>>
    /\ UNCHANGED <<had, updates, elections, faults>>

\* The state file cannot be renamed: the version is not synchronized.
ReapPartly(x) ==
    /\ x.phase = "done" /\ ~x.unlinked
    /\ Happens("rename")
    /\ transfers' = transfers \ {x}
    /\ disk' = [disk EXCEPT ![x.to].ver = x.ver]
    /\ rep' = [rep EXCEPT ![x.to].pid = 0]
    /\ lapses' = lapses \cup {"partial"}
    /\ UNCHANGED <<msgs, had, updates, elections, labels, pending>>

----------------------------------------------------------------------------

Init ==
    /\ rep = [n \in Node |->
                 [state |-> "DOWN", ver |-> Fresh, behind |-> FALSE,
                  list |-> {}, requesting |-> FALSE, downloading |-> FALSE,
                  pid |-> 0, failed |-> {}]]
    /\ disk = [n \in Node |-> [ver |-> Fresh, file |-> {}]]
    /\ transfers = {} /\ msgs = {}
    /\ had = [n \in Node |-> FALSE]
    /\ updates = 0 /\ elections = 0 /\ faults = 0
    /\ labels = {[clock |-> 0, file |-> {}]}
    /\ pending = [n \in Node |-> {}]
    /\ lapses = {}

\* What happens as long as the processes run: timers fire, transferers go on
\* and are reaped, and the master starts a daemon that has ended.
Progress ==
    \/ \E n \in Node : \/ Initialize(n)
                       \/ VersionRequestingTimer(n)
                       \/ VersionDownloadingTimer(n)
                       \/ \E silent \in BOOLEAN : LeaderTimer(n, silent)
    \/ \E x \in transfers : \/ TransferFile(x) \/ Copy(x)
                            \/ ReapFailed(x) \/ ReapDone(x)
    \/ \E m \in msgs : \/ OnLeaderVersion(m) \/ OnSolicitVersion(m)
                       \/ OnSolicitVersionReply(m) \/ OnGivingUpVersion(m)

Next ==
    \/ Progress
    \/ \E n \in Node : \/ Reinitialize(n) \/ Crash(n)
                       \/ AfterElection(n) \/ InLeader(n) \/ AfterLeader(n)
                       \/ AfterElectionLost(n) \/ AfterLeaderLost(n) \/ Update(n)
                       \/ JoiningTimer(n) \/ BackupTimer(n)
    \/ \E x \in transfers : CopyTorn(x) \/ TransferFails(x) \/ ReapPartly(x)
    \/ \E m \in msgs : Lose(m)

Spec == Init /\ [][Next]_vars

\* The timers of a daemon fire as long as it runs; its transferers go on, or
\* fail and are reaped.
Fairness ==
    \A n \in Node :
        /\ WF_vars(VersionRequestingTimer(n))
        /\ WF_vars(VersionDownloadingTimer(n))
        /\ WF_vars(Silent(n) /\ LeaderTimer(n, TRUE))
        /\ WF_vars(\E x \in transfers :
                       /\ x.to = n
                       /\ \/ TransferFile(x) \/ Copy(x)
                          \/ ReapFailed(x) \/ ReapDone(x))

FairSpec == Spec /\ Fairness

----------------------------------------------------------------------------
(* Properties.                                                             *)

\* Every version was copied and saved whole, and every download installed whole,
\* one at a time, and not under a leader.
Clean == lapses \cap {"leader", "partial", "torn", "overlap"} = {}

\* A clock never promises more than the state file beside it holds: some
\* leader gave this clock to a file all of whose updates are there.  It rests
\* on the order in which upload copies the two files and the reaper installs
\* them.  It is lost when only one of them is installed, when a download is
\* installed under a leader that is being copied from, or when two downloads of
\* one host are installed in the wrong order while it is being copied from.
ClockNeverOverstates ==
    Clean => \A n \in Node : \E l \in labels :
                 /\ l.clock = disk[n].ver.clock
                 /\ l.file \subseteq disk[n].file

\* The version of a host only moves forward, however commands, transfers,
\* crashes and elections interleave, unless a download begun before the host
\* led is installed later, two downloads of it run at once, a version without
\* its state file makes a daemon compare others with an older version, or a
\* version file is copied or left by a crash in the middle of Version::save.
VersionMovesForward ==
    [][Clean' => \A n \in Node :
          \/ disk'[n].ver = disk[n].ver
          \/ disk'[n].ver.clock > disk[n].ver.clock]_vars

\* An update that a negotiator makes under a replication leader is counted by a
\* timer of that leader, now or when it leads again.  There are two exceptions:
\* it fell into the second of one already counted, or, before that timer, the
\* daemon ended or was reconfigured (Version::initialize takes the time of the
\* state file over without counting) or installed a download.
UpdateWillBeCounted ==
    \A n \in Node : pending[n] # {} =>
        rep[n].behind \/ lapses \cap {"second", "forgotten"} # {}

\* The versions list is empty outside of joining, so that no gid is ever
\* selected: any two versions of the pool are comparable, those of two leaders
\* at once included.
NoGidSelected ==
    \A n \in Node :
        /\ disk[n].ver.gid = 0
        /\ rep[n].state \in {"BACKUP", "REPLICATION_LEADER"} => rep[n].list = {}

\* The assertions of the daemon hold, as far as they can: the version file is
\* the one in memory unless the reaper was cut off between its two renames or a
\* version file was copied while it was being written; and a leader is only
\* elected when AFTER_LEADER has been lost or its HAD has died.
AssertionsHold ==
    \A n \in Node :
        /\ "single" \notin rep[n].failed
        /\ "synchronized" \in rep[n].failed => lapses \cap {"partial", "torn"} # {}
        /\ "elected" \in rep[n].failed => "unheard" \in lapses

\* onLeaderVersion downloads when "there is no downloading 'condor_transferer'
\* running at the same time".
OneDownload == \A n \in Node : Cardinality(Running(n)) <= 1

\* A daemon that joins does so, whoever it downloads from and whatever becomes
\* of the download.
JoinCompletes ==
    \A n \in Node : rep[n].state \in Joining ~> rep[n].state \notin Joining

\* A replication leader does not stay one without HAD.
StepsDown ==
    \A n \in Node : rep[n].state = "REPLICATION_LEADER" /\ ~had[n]
                        ~> rep[n].state # "REPLICATION_LEADER" \/ had[n]

\* No download bars a host from the next one for good: the transferer that
\* m_downloadTransfererMetadata names is forgotten, whether it succeeds, fails
\* or loses the host it copies from.
DownloadForgotten ==
    \A n \in Node : rep[n].pid # 0 ~> rep[n].pid = 0
============================================================================
