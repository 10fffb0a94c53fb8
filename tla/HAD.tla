-------------------------------- MODULE HAD --------------------------------
(***************************************************************************)
(* The leader election of the condor_had daemons (HADStateMachine).  Each  *)
(* potential central manager runs one HAD; the elected one tells its local *)
(* condor_master to run the controllee (by default the negotiator).        *)
(*                                                                         *)
(* A HAD is named by its id: its index in HAD_LIST counted from the end,   *)
(* so that the first entry, the primary, has the highest id.  One action   *)
(* is one DaemonCore callback: a timer firing (cycle), a command handler   *)
(* (commandHandlerHad), a configuration signal, or the start and the end   *)
(* of the process.  Nothing is assumed here about when callbacks happen;   *)
(* HADSync adds the timing that the interval m_hadInterval provides.       *)
(*                                                                         *)
(* The receive buffers are lists of which the code only asks whether they  *)
(* are empty and whether they hold an id above its own: sets of ids.       *)
(*                                                                         *)
(* A definition that no other one uses, just before the definition it      *)
(* varies, is a faulty variant of it: it shows that a property is able to  *)
(* fail.                                                                   *)
(***************************************************************************)
EXTENDS Integers, FiniteSets

CONSTANTS
    N,           \* the length of HAD_LIST
    UsePrimary,  \* HAD_USE_PRIMARY when the daemons are first started
    Faults,      \* the faults of the environment that may happen
    MaxFaults    \* how many of them may happen

\* "loss": a command to a peer is lost; "copy": two copies of one are in
\* flight; "master": a command to the local master fails; "exit": a HAD process
\* dies; "machine": its machine does; "shutdown": it is shut down; "reconfig"
\* and "soft": it is told to reconfigure itself.
FaultKinds == {"loss", "copy", "master", "exit", "machine", "shutdown",
               "reconfig", "soft"}

\* What ends a leadership other than a command of another HAD.
Ending == {"exit", "machine", "shutdown", "reconfig"}

ASSUME HADAssumption ==
    /\ N \in Nat \ {0}
    /\ UsePrimary \in BOOLEAN
    /\ Faults \subseteq FaultKinds
    /\ MaxFaults \in Nat

Node == 0 .. N - 1

States == {"DOWN", "PRE", "PASSIVE", "ELECTION", "LEADER"}

Commands == {"ALIVE", "SEND_ID"}

\* MESSAGES_PER_INTERVAL_FACTOR: calls of cycle per step of the state machine.
Factor == 2

VARIABLES
    state,         \* m_state; "DOWN" when the process does not run
    callsCounter,  \* m_callsCounter
    aliveList,     \* receivedAliveList
    idList,        \* receivedIdList
    usePrimary,    \* m_usePrimary
    entries,       \* how often each peer is in m_otherHadIps
    isActive,      \* HadIsActive in the published ad, m_classAd
    childOn,       \* what the local master was last told: CHILD_ON
    msgs,          \* commands between HADs that are in flight
    faults         \* how many faults have happened, and how many were endings

buffers == <<aliveList, idList>>
vars == <<state, callsCounter, aliveList, idList, usePrimary, entries, isActive,
          childOn, msgs, faults>>

Message == [cmd : Commands, from : Node, to : Node]

FaultsOK ==
    /\ faults \in [all : 0 .. MaxFaults, endings : 0 .. MaxFaults]
    /\ faults.endings <= faults.all

TypeOK ==
    /\ state \in [Node -> States]
    /\ callsCounter \in [Node -> 0 .. Factor - 1]
    /\ aliveList \in [Node -> SUBSET Node]
    /\ idList \in [Node -> SUBSET Node]
    /\ usePrimary \in [Node -> BOOLEAN]
    /\ entries \in [Node -> Nat]
    /\ isActive \in [Node -> BOOLEAN]
    /\ childOn \in [Node -> BOOLEAN]
    /\ msgs \subseteq Message
    /\ FaultsOK

Leaders == {n \in Node : state[n] = "LEADER"}

NoPrimary(n) == FALSE
IsPrimary(n) == usePrimary[n] /\ n = N - 1

\* checkList: no id in the list is bigger than mine.
checkList(n, list) == \A id \in list : id <= n

----------------------------------------------------------------------------
(* Faults: each occurrence of one is counted.                              *)

Happens(kind) ==
    /\ kind \in Faults
    /\ faults.all < MaxFaults
    /\ faults' = [all |-> faults.all + 1,
                  endings |-> faults.endings + IF kind \in Ending THEN 1 ELSE 0]

\* The outcome of sendControlCmdToMaster: it fails only as a fault.
MasterReached == UNCHANGED faults
MasterLost == Happens("master")

clearBuffers(n) ==
    /\ aliveList' = [aliveList EXCEPT ![n] = {}]
    /\ idList' = [idList EXCEPT ![n] = {}]

----------------------------------------------------------------------------
(* step(): one transition of the state machine, by the state it is in.     *)

StepPre(n) ==
    /\ state[n] = "PRE"
    /\ state' = [state EXCEPT ![n] = "PASSIVE"]
    /\ clearBuffers(n)
    /\ UNCHANGED <<isActive, childOn, faults>>

\* The buffers survive this transition: step returns before clearBuffers.
StepToElection(n) ==
    /\ state[n] = "PASSIVE"
    /\ aliveList[n] = {} \/ IsPrimary(n)
    /\ state' = [state EXCEPT ![n] = "ELECTION"]
    /\ UNCHANGED <<buffers, isActive, childOn, faults>>

StepStayPassive(n) ==
    /\ state[n] = "PASSIVE"
    /\ aliveList[n] # {} /\ ~IsPrimary(n)
    /\ clearBuffers(n)
    /\ UNCHANGED <<state, isActive, childOn, faults>>

IgnoresAlive(n) == ~checkList(n, idList[n])
IgnoresIds(n) == aliveList[n] # {} /\ ~IsPrimary(n)
LosesElection(n) ==
    \/ aliveList[n] # {} /\ ~IsPrimary(n)
    \/ ~checkList(n, idList[n])

StepLoseElection(n) ==
    /\ state[n] = "ELECTION"
    /\ LosesElection(n)
    /\ state' = [state EXCEPT ![n] = "PASSIVE"]
    /\ clearBuffers(n)
    /\ UNCHANGED <<isActive, childOn, faults>>

StepWinElection(n) ==
    /\ state[n] = "ELECTION"
    /\ ~LosesElection(n)
    /\ MasterReached
    /\ state' = [state EXCEPT ![n] = "LEADER"]
    /\ childOn' = [childOn EXCEPT ![n] = TRUE]
    /\ isActive' = [isActive EXCEPT ![n] = TRUE]
    /\ clearBuffers(n)

YieldsToAny(n) == aliveList[n] # {}
YieldsToNone(n) == FALSE
YieldsTo(n) == aliveList[n] # {} /\ ~checkList(n, aliveList[n])

\* The result of CHILD_OFF_FAST is not looked at.
StepYield(n) ==
    /\ state[n] = "LEADER"
    /\ YieldsTo(n)
    /\ state' = [state EXCEPT ![n] = "PASSIVE"]
    /\ isActive' = [isActive EXCEPT ![n] = FALSE]
    /\ \/ MasterReached /\ childOn' = [childOn EXCEPT ![n] = FALSE]
       \/ MasterLost /\ UNCHANGED childOn
    /\ clearBuffers(n)

StepLead(n) ==
    /\ state[n] = "LEADER"
    /\ ~YieldsTo(n)
    /\ clearBuffers(n)
    /\ UNCHANGED <<state, isActive, childOn, faults>>

step(n) ==
    \/ StepPre(n)
    \/ StepToElection(n)
    \/ StepStayPassive(n)
    \/ StepLoseElection(n)
    \/ StepWinElection(n)
    \/ StepYield(n)
    \/ StepLead(n)

----------------------------------------------------------------------------
(* sendMessages: one connection to every other HAD of the list.  A peer    *)
(* that is down is skipped; a connection that fails is a lost message.     *)

Peers(n) == {p \in Node \ {n} : state[p] # "DOWN"}

AlwaysAlive(s) == "ALIVE"
CommandOf(s) == IF s = "LEADER" THEN "ALIVE" ELSE "SEND_ID"

sendMessages(n) ==
    msgs' = msgs \cup
        IF state'[n] \in {"ELECTION", "LEADER"}
        THEN [cmd : {CommandOf(state'[n])}, from : {n}, to : Peers(n)]
        ELSE {}

NextCall(n) == (callsCounter[n] + 1) % Factor

\* The timer handler.
cycle(n) ==
    /\ state[n] # "DOWN"
    /\ IF callsCounter[n] = 0
       THEN step(n)
       ELSE UNCHANGED <<state, buffers, isActive, childOn, faults>>
    /\ sendMessages(n)
    /\ callsCounter' = [callsCounter EXCEPT ![n] = NextCall(n)]
    /\ UNCHANGED <<usePrimary, entries>>

----------------------------------------------------------------------------
(* commandHandlerHad: the id of the sender goes into the buffer of the     *)
(* command.                                                                *)

Deliver(m) ==
    /\ state[m.to] # "DOWN"
    /\ aliveList' = [aliveList EXCEPT
                        ![m.to] = IF m.cmd = "ALIVE" THEN @ \cup {m.from} ELSE @]
    /\ idList' = [idList EXCEPT
                        ![m.to] = IF m.cmd = "SEND_ID" THEN @ \cup {m.from} ELSE @]
    /\ UNCHANGED <<state, callsCounter, usePrimary, entries, isActive, childOn>>

commandHandlerHad(m) ==
    /\ Deliver(m)
    /\ msgs' = msgs \ {m}
    /\ UNCHANGED faults

\* The same command arrives once more later on: that of a slow exchange, or the next
\* one of a sender that has its peers in m_otherHadIps more than once.
HandleCopy(m) ==
    /\ \/ Happens("copy")
       \/ entries[m.from] > 1 /\ UNCHANGED faults
    /\ Deliver(m)
    /\ UNCHANGED msgs

Lose(m) ==
    /\ Happens("loss")
    /\ msgs' = msgs \ {m}
    /\ UNCHANGED <<state, callsCounter, buffers, usePrimary, entries, isActive, childOn>>

----------------------------------------------------------------------------
(* The life of the process.                                                *)

\* The process is gone, and with it what was on its way to it.
Ended(n) ==
    /\ state' = [state EXCEPT ![n] = "DOWN"]
    /\ callsCounter' = [callsCounter EXCEPT ![n] = 0]
    /\ clearBuffers(n)
    /\ isActive' = [isActive EXCEPT ![n] = FALSE]
    /\ msgs' = {m \in msgs : m.to # n}
    /\ UNCHANGED <<usePrimary, entries>>

\* A state machine fresh from freeResources and initializeClassAd.
Fresh(n) ==
    /\ state' = [state EXCEPT ![n] = "PRE"]
    /\ callsCounter' = [callsCounter EXCEPT ![n] = 0]
    /\ clearBuffers(n)
    /\ isActive' = [isActive EXCEPT ![n] = FALSE]
    /\ UNCHANGED msgs

InitializeLeavingChild(n) ==
    /\ state[n] = "DOWN"
    /\ Fresh(n)
    /\ entries' = [entries EXCEPT ![n] = 1]
    /\ UNCHANGED <<childOn, usePrimary, faults>>

\* main_init: the process only stays if the master took CHILD_OFF_FAST.
initialize(n) ==
    /\ state[n] = "DOWN"
    /\ Fresh(n)
    /\ entries' = [entries EXCEPT ![n] = 1]
    /\ childOn' = [childOn EXCEPT ![n] = FALSE]
    /\ UNCHANGED <<usePrimary, faults>>

\* utilCrucialError after a won election: CHILD_ON could not be sent.  The
\* destructor tries CHILD_OFF_FAST on the way out.
CycleCrucialError(n) ==
    /\ state[n] = "ELECTION" /\ callsCounter[n] = 0
    /\ ~LosesElection(n)
    /\ MasterLost
    /\ Ended(n)
    /\ childOn' \in {childOn, [childOn EXCEPT ![n] = FALSE]}

\* main_shutdown_graceful and main_shutdown_fast: freeResources turns the
\* controllee off if it can.
Shutdown(n) ==
    /\ state[n] # "DOWN"
    /\ Happens("shutdown")
    /\ Ended(n)
    /\ \/ childOn' = [childOn EXCEPT ![n] = FALSE]
       \/ "master" \in Faults /\ UNCHANGED childOn

\* The process dies; the master on the same machine does not.
Exit(n) ==
    /\ state[n] # "DOWN"
    /\ Happens("exit")
    /\ Ended(n)
    /\ UNCHANGED childOn

\* A master starts without its controllees until it is told CHILD_ON.
MachineDown(n) ==
    /\ state[n] # "DOWN"
    /\ Happens("machine")
    /\ Ended(n)
    /\ childOn' = [childOn EXCEPT ![n] = FALSE]

\* main_config when isHardConfigurationNeeded: HAD_USE_PRIMARY has changed, and
\* everything starts from scratch, but for the list: getHadList inserts the peers
\* into m_otherHadIps once more.
reinitialize(n) ==
    /\ state[n] # "DOWN"
    /\ Happens("reconfig")
    /\ Fresh(n)
    /\ entries' = [entries EXCEPT ![n] = @ + 1]
    /\ usePrimary' = [usePrimary EXCEPT ![n] = ~@]
    /\ childOn' = [childOn EXCEPT ![n] = FALSE]

\* utilCrucialError in reinitialize: its CHILD_OFF_FAST could not be sent, the
\* one of freeResources just before and of the destructor after it may have been.
ReinitializeCrucialError(n) ==
    /\ state[n] # "DOWN"
    /\ "master" \in Faults
    /\ Happens("reconfig")
    /\ Ended(n)
    /\ childOn' \in {childOn, [childOn EXCEPT ![n] = FALSE]}

\* main_config otherwise: the ad is built anew, the state machine is left alone.
softReconfigure(n) ==
    /\ state[n] # "DOWN"
    /\ Happens("soft")
    /\ isActive' = [isActive EXCEPT ![n] = FALSE]
    /\ UNCHANGED <<state, callsCounter, buffers, usePrimary, entries, childOn, msgs>>

----------------------------------------------------------------------------
Init ==
    /\ state = [n \in Node |-> "DOWN"]
    /\ callsCounter = [n \in Node |-> 0]
    /\ aliveList = [n \in Node |-> {}]
    /\ idList = [n \in Node |-> {}]
    /\ usePrimary = [n \in Node |-> UsePrimary]
    /\ entries = [n \in Node |-> 0]
    /\ isActive = [n \in Node |-> FALSE]
    /\ childOn = [n \in Node |-> FALSE]
    /\ msgs = {}
    /\ faults = [all |-> 0, endings |-> 0]

Next ==
    \/ \E n \in Node :
          \/ initialize(n)
          \/ cycle(n)
          \/ CycleCrucialError(n)
          \/ Shutdown(n)
          \/ Exit(n)
          \/ MachineDown(n)
          \/ reinitialize(n)
          \/ ReinitializeCrucialError(n)
          \/ softReconfigure(n)
    \/ \E m \in msgs : commandHandlerHad(m) \/ HandleCopy(m) \/ Lose(m)

Spec == Init /\ [][Next]_vars

----------------------------------------------------------------------------
(* Properties that hold however callbacks and messages interleave.         *)

NoEnding == faults.endings = 0

\* Ids that some HAD has, or will have, as those of a leader it heard of.
HeardLeaders ==
    {m.from : m \in {x \in msgs : x.cmd = "ALIVE"}}
        \cup UNION {aliveList[n] : n \in Node}

\* Whoever is spoken of as a leader, in an ALIVE command on its way or already
\* in a buffer, there is a leader with at least that id (step, sendMessages,
\* commandHandlerHad) as long as no HAD has been ended from outside.
HeardLeaderExists ==
    NoEnding => \A id \in HeardLeaders : \E k \in Leaders : id <= k

\* A pool does not lose its leadership: a HAD that leaves LEADER_STATE leaves a
\* leader of a higher id behind, however stale the ALIVE it acts on (step), as
\* long as no HAD has been ended from outside.
LeadershipSurvives ==
    [][NoEnding' => \A n \in Leaders : \E k \in Leaders' : n <= k]_vars

\* The comment of freeResources: a HAD that is not the leader has its controllee
\* off; and a leader has it on.
ControlleeFollowsHAD ==
    \A n \in Node : state[n] # "DOWN" => (childOn[n] <=> state[n] = "LEADER")

\* The ad published to the collectors never claims a leadership that is not there.
AdNeverOverclaims == \A n \in Node : isActive[n] => state[n] = "LEADER"

\* The comment of updateCollectorsClassAd: the ad tells whether the HAD is active,
\* so the ad of a leader claims its leadership.  It does not hold after a
\* softReconfigure.
AdShowsLeader == \A n \in Leaders : isActive[n]

=============================================================================
