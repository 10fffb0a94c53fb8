------------------------------ MODULE HADSync ------------------------------
(***************************************************************************)
(* The HAD election under the timing the code relies on.  m_hadInterval is *)
(* long enough for one cycle to send to the master and to every entry of   *)
(* m_otherHadIps with all its timeouts; cycle re-arms its timer for half   *)
(* that interval, which is the same for all HADs until one of them has     *)
(* been reinitialized.  So                                                 *)
(*   - the cycles of the running HADs follow one another round robin, in   *)
(*     the order of their phases; a HAD that starts (its timer is armed    *)
(*     with 0) enters at any point of the round;                           *)
(*   - what a cycle sends has been handled before the next cycle of its    *)
(*     sender, or before the moment of that cycle if the sender has ended  *)
(*     or has started again since;                                         *)
(*   - between two cycles of a HAD with a longer interval, one with a      *)
(*     shorter one may cycle more than once, as often as it fits.          *)
(* schedule is the round: the HAD at its head is the next one to cycle.  A *)
(* HAD that has ended keeps its place until its moment has passed; one     *)
(* that starts again gets a new place, and its former one stays in the     *)
(* round as long as something that it sent is underway.                    *)
(***************************************************************************)
EXTENDS HAD, Sequences, Functions

VARIABLES
    schedule,  \* the places of the round, in their order
    early      \* the cycles of a HAD since the last one that was its turn

syncVars == <<vars, schedule, early>>

Running == {n \in Node : state[n] # "DOWN"}

\* The places of the round: of a HAD, and the one it had before it started again.
Former(n) == N + n
Place == Node \cup {Former(n) : n \in Node}

\* No place is in the schedule twice, and every running HAD has its place.
SyncTypeOK ==
    /\ TypeOK
    /\ schedule \in Seq(Place)
    /\ \A i, j \in DOMAIN schedule : schedule[i] = schedule[j] => i = j
    /\ Running \subseteq Range(schedule)
    /\ early \in [Node -> Nat]

\* What the last cycle of n sent has been handled.
Handled(n) == \A m \in msgs : m.from # n

\* Nothing that n sent waits for its present place.
Settled(n) == Handled(n) \/ Former(n) \in Range(schedule)

\* The other places, in their order; the one that n leaves stays as its former one
\* if there still is something to be handled.
Others(n) ==
    LET i == CHOOSE i \in DOMAIN schedule : schedule[i] = n
    IN  IF n \notin Range(schedule) THEN schedule
        ELSE IF Settled(n)
        THEN SubSeq(schedule, 1, i - 1) \o SubSeq(schedule, i + 1, Len(schedule))
        ELSE [schedule EXCEPT ![i] = Former(n)]

FirstKeepingOld(n) == <<n>> \o schedule
First(n) == <<n>> \o Others(n)

Turn(p) == schedule # <<>> /\ Head(schedule) = p

\* Half of m_hadInterval, in units of the time that one entry of a list takes.
Interval(n) == (N - 1) * entries[n] + 1

\* Every place ahead of n is one of a HAD in whose interval there is room for one
\* more cycle of n.
Overtakes(n) ==
    \E i \in DOMAIN schedule :
        /\ i > 1 /\ schedule[i] = n
        /\ \A j \in 1 .. i - 1 :
              /\ schedule[j] \in Node
              /\ (early[n] + 1) * Interval(n) < Interval(schedule[j])

InTurn(n) == early' = [early EXCEPT ![n] = 0]

\* Its first cycle comes at once: reinitialize arms the timer with 0.
SyncStart(n) ==
    /\ initialize(n)
    /\ schedule' = First(n)
    /\ InTurn(n)

SyncCycle(n) ==
    /\ Turn(n)
    /\ state[n] = "PRE" \/ Handled(n)
    /\ cycle(n)
    /\ schedule' = Append(Tail(schedule), n)
    /\ InTurn(n)

\* A cycle before its turn, while a HAD with a longer interval waits.
SyncEarlyCycle(n) ==
    /\ Overtakes(n)
    /\ state[n] = "PRE" \/ Handled(n)
    /\ cycle(n)
    /\ early' = [early EXCEPT ![n] = @ + 1]
    /\ UNCHANGED schedule

\* The moment of the cycle that a HAD which has ended would have had.
SyncPass(n) ==
    /\ Turn(n)
    /\ state[n] = "DOWN" /\ Settled(n)
    /\ schedule' = Tail(schedule)
    /\ InTurn(n)
    /\ UNCHANGED vars

\* The moment of the cycle that it would have had without the new start.
SyncPassFormer(n) ==
    /\ Turn(Former(n))
    /\ Handled(n)
    /\ schedule' = Tail(schedule)
    /\ UNCHANGED <<vars, early>>

SyncReceive(m) ==
    /\ commandHandlerHad(m)
    /\ UNCHANGED <<schedule, early>>

\* A peer that is in the list of the sender more than once gets it more than once.
SyncReceiveCopy(m) ==
    /\ entries[m.from] > 1
    /\ HandleCopy(m)
    /\ UNCHANGED <<schedule, early>>

SyncLose(m) ==
    /\ Lose(m)
    /\ UNCHANGED <<schedule, early>>

SyncEnd(n) ==
    /\ Exit(n) \/ MachineDown(n) \/ Shutdown(n)
    /\ UNCHANGED <<schedule, early>>

\* The timer is armed anew, with 0, and after that for an interval that is longer.
SyncReinitialize(n) ==
    /\ reinitialize(n)
    /\ schedule' = First(n)
    /\ InTurn(n)

SyncSoft(n) ==
    /\ softReconfigure(n)
    /\ UNCHANGED <<schedule, early>>

SyncInit ==
    /\ Init
    /\ schedule = <<>>
    /\ early = [n \in Node |-> 0]

SyncNext ==
    \/ \E n \in Node :
          \/ SyncStart(n)
          \/ SyncCycle(n)
          \/ SyncEarlyCycle(n)
          \/ SyncPass(n)
          \/ SyncPassFormer(n)
          \/ SyncEnd(n)
          \/ SyncReinitialize(n)
          \/ SyncSoft(n)
    \/ \E m \in msgs : SyncReceive(m) \/ SyncReceiveCopy(m) \/ SyncLose(m)

SyncSpec == SyncInit /\ [][SyncNext]_syncVars

\* DaemonCore fires a due timer and hands over a command that has arrived.
SyncFairness ==
    /\ \A n \in Node : /\ WF_syncVars(SyncCycle(n))
                       /\ WF_syncVars(SyncPass(n))
                       /\ WF_syncVars(SyncPassFormer(n))
    /\ \A m \in Message : WF_syncVars(m \in msgs /\ SyncReceive(m))

FairSyncSpec == SyncSpec /\ SyncFairness

----------------------------------------------------------------------------
\* The manual, "only a single, active condor_negotiator daemon will be running":
\* no two HADs are in LEADER_STATE at once (step and its two buffers).
SingleLeader == \A a, b \in Leaders : a = b

\* The same promise as a specification: an election only ever happens in a pool
\* without a leader, and only its end takes a leader away.
CM == INSTANCE CentralManager WITH
        None <- N,
        running <- Running,
        active <- IF Leaders = {} THEN N ELSE CHOOSE n \in Leaders : TRUE

ImplementsCentralManager == CM!CMSpec

\* The manual, "When the network is repaired, the protocol returns to having one
\* central manager": once faults have stopped, one HAD leads for good.
ReturnsToOneLeader ==
    <>[](Running # {}) => <>[](Cardinality(Leaders) = 1)

\* The manual, "When the primary recovers, it again becomes the central manager":
\* a primary that stays up ends up as the only leader.
PrimaryTakesOver ==
    <>[](N - 1 \in Running /\ usePrimary[N - 1]) => <>[](Leaders = {N - 1})

=============================================================================
