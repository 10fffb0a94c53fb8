------------------------------ MODULE HADProofs ------------------------------
(***************************************************************************)
(* Proofs about HAD and HADSync, for every number of daemons, every set of *)
(* faults and every bound on their number.                                 *)
(*                                                                         *)
(* First, what holds whatever the timing.  Then, with the timing of        *)
(* HADSync, a pool without a primary, in which no command is lost and no   *)
(* HAD is reinitialized, has one leader at most, however often processes   *)
(* end and start, and the leader leads until its own process ends.         *)
(***************************************************************************)
EXTENDS HADSync, TLAPS

\* Most leaves are first-order; the ones with arithmetic, or much to rewrite, name SMT.
USE Zenon

\* The counts of faults stay within their bound (Happens).
LEMMA HappensTyped ==
    ASSUME NEW kind, FaultsOK, Happens(kind)
    PROVE  FaultsOK'
<1>1. /\ faults.all \in Nat /\ faults.all < MaxFaults
      /\ faults.endings \in Nat /\ faults.endings <= faults.all
  BY SMTT(30), HADAssumption DEF FaultsOK, Happens
<1>2. PICK d \in 0 .. 1 : faults' = [all |-> faults.all + 1,
                                    endings |-> faults.endings + d]
  BY SMTT(30) DEF Happens
<1> QED
  BY SMTT(30), <1>1, <1>2, HADAssumption DEF FaultsOK

\* A step after which there has been no ending was none and followed none.
LEMMA EndingsStay ==
    ASSUME TypeOK, [Next]_vars, NoEnding'
    PROVE  /\ NoEnding
           /\ \A n \in Node : ~(\/ Shutdown(n) \/ Exit(n) \/ MachineDown(n)
                               \/ reinitialize(n) \/ ReinitializeCrucialError(n))
<1>1. faults.endings \in Nat
  BY SMTT(30), HADAssumption DEF TypeOK, FaultsOK
<1>2. ASSUME NEW kind, Happens(kind)
      PROVE  NoEnding /\ kind \notin Ending
  BY SMTT(30), <1>1, <1>2 DEF Happens, NoEnding
<1>3. ASSUME NEW n \in Node,
             \/ Shutdown(n) \/ Exit(n) \/ MachineDown(n)
             \/ reinitialize(n) \/ ReinitializeCrucialError(n)
      PROVE  FALSE
  BY <1>2, <1>3 DEF Shutdown, Exit, MachineDown, reinitialize,
                    ReinitializeCrucialError, Ending
<1>4. UNCHANGED faults \/ \E kind \in FaultKinds : Happens(kind)
  BY <1>3 DEF Next, vars, initialize, cycle, step, StepPre, StepToElection,
              StepStayPassive, StepLoseElection, StepWinElection, StepYield,
              StepLead, CycleCrucialError, softReconfigure, commandHandlerHad,
              HandleCopy, Lose, MasterReached, MasterLost, FaultKinds
<1> QED
  BY <1>2, <1>3, <1>4 DEF NoEnding

\* Every action keeps the state well typed (all handlers of HADStateMachine).
THEOREM TypeCorrect == Spec => []TypeOK
<1>1. Init => TypeOK
  BY SMTT(30), HADAssumption DEF Init, TypeOK, FaultsOK, States, Factor
<1>2. TypeOK /\ [Next]_vars => TypeOK'
  <2> SUFFICES ASSUME TypeOK, [Next]_vars
               PROVE  TypeOK'
    OBVIOUS
  <2> USE HADAssumption DEF TypeOK, States, Factor
  <2>1. CASE UNCHANGED vars
    BY <2>1 DEF vars, FaultsOK
  <2>2. ASSUME NEW n \in Node, cycle(n)
        PROVE  TypeOK'
    <3>1. /\ state' \in [Node -> States]
          /\ aliveList' \in [Node -> SUBSET Node]
          /\ idList' \in [Node -> SUBSET Node]
          /\ isActive' \in [Node -> BOOLEAN]
          /\ childOn' \in [Node -> BOOLEAN]
          /\ FaultsOK'
      <4>1. CASE callsCounter[n] = 0
        <5>1. step(n)
          BY <2>2, <4>1 DEF cycle
        <5>2. CASE StepPre(n)
          BY <5>2 DEF StepPre, clearBuffers, FaultsOK
        <5>3. CASE StepToElection(n)
          BY <5>3 DEF StepToElection, buffers, FaultsOK
        <5>4. CASE StepStayPassive(n)
          BY <5>4 DEF StepStayPassive, clearBuffers, FaultsOK
        <5>5. CASE StepLoseElection(n)
          BY <5>5 DEF StepLoseElection, clearBuffers, FaultsOK
        <5>6. CASE StepWinElection(n)
          BY <5>6 DEF StepWinElection, clearBuffers, MasterReached, FaultsOK
        <5>7. CASE StepYield(n)
          <6>1. /\ state' \in [Node -> States]
                /\ aliveList' \in [Node -> SUBSET Node]
                /\ idList' \in [Node -> SUBSET Node]
                /\ isActive' \in [Node -> BOOLEAN]
            BY <5>7 DEF StepYield, clearBuffers
          <6>2. childOn' = childOn \/ childOn' = [childOn EXCEPT ![n] = FALSE]
            BY <5>7 DEF StepYield
          <6>3. childOn' \in [Node -> BOOLEAN]
            BY <6>2
          <6>4. MasterReached \/ MasterLost
            BY <5>7 DEF StepYield
          <6>5. FaultsOK'
            BY <6>4, HappensTyped DEF MasterReached, MasterLost, FaultsOK
          <6> QED
            BY <6>1, <6>3, <6>5
        <5>8. CASE StepLead(n)
          BY <5>8 DEF StepLead, clearBuffers, FaultsOK
        <5> QED
          BY <5>1, <5>2, <5>3, <5>4, <5>5, <5>6, <5>7, <5>8 DEF step
      <4>2. CASE callsCounter[n] # 0
        BY <2>2, <4>2 DEF cycle, buffers, FaultsOK
      <4> QED
        BY <4>1, <4>2
    <3>2. callsCounter' \in [Node -> 0 .. Factor - 1]
      BY SMTT(30), <2>2 DEF cycle, NextCall
    <3>3. usePrimary' \in [Node -> BOOLEAN] /\ entries' \in [Node -> Nat]
      BY <2>2 DEF cycle
    <3>4. msgs' \subseteq Message
      BY <2>2 DEF cycle, sendMessages, CommandOf, Message, Commands, Peers
    <3> QED
      BY <3>1, <3>2, <3>3, <3>4
  <2>3. ASSUME NEW n \in Node, Ended(n), FaultsOK',
               childOn' \in [Node -> BOOLEAN]
        PROVE  TypeOK'
    BY SMTT(30), <2>3 DEF Ended, clearBuffers
  <2>4. ASSUME NEW n \in Node, initialize(n)
        PROVE  TypeOK'
    BY SMTT(30), <2>4 DEF initialize, Fresh, clearBuffers, FaultsOK
  <2>5. ASSUME NEW n \in Node,
               \/ CycleCrucialError(n) \/ Shutdown(n) \/ Exit(n)
               \/ MachineDown(n) \/ ReinitializeCrucialError(n)
        PROVE  TypeOK'
    <3>1. Ended(n)
      BY <2>5 DEF CycleCrucialError, Shutdown, Exit, MachineDown,
                  ReinitializeCrucialError
    <3>2. FaultsOK'
      BY <2>5, HappensTyped DEF CycleCrucialError, Shutdown, Exit, MachineDown,
                                ReinitializeCrucialError, MasterLost
    <3>3. childOn' \in [Node -> BOOLEAN]
      BY <2>5 DEF CycleCrucialError, Shutdown, Exit, MachineDown,
                  ReinitializeCrucialError
    <3> QED
      BY <2>3, <3>1, <3>2, <3>3
  <2>6. ASSUME NEW n \in Node, reinitialize(n)
        PROVE  TypeOK'
    BY SMTT(30), <2>6, HappensTyped DEF reinitialize, Fresh, clearBuffers
  <2>7. ASSUME NEW n \in Node, softReconfigure(n)
        PROVE  TypeOK'
    BY <2>7, HappensTyped DEF softReconfigure, buffers
  <2>8. ASSUME NEW m \in msgs, commandHandlerHad(m) \/ HandleCopy(m)
        PROVE  TypeOK'
    <3>1. m \in Message
      OBVIOUS
    <3> QED
      BY SMTT(30), <2>8, <3>1, HappensTyped
         DEF commandHandlerHad, HandleCopy, Deliver, Message, FaultsOK
  <2>9. ASSUME NEW m \in msgs, Lose(m)
        PROVE  TypeOK'
    BY <2>9, HappensTyped DEF Lose, buffers
  <2> QED
    BY <2>1, <2>2, <2>4, <2>5, <2>6, <2>7, <2>8, <2>9 DEF Next
<1> QED
  BY <1>1, <1>2, PTL DEF Spec

----------------------------------------------------------------------------
(* The pool keeps its leadership.  The invariant is HeardLeaderExists: an   *)
(* ALIVE that makes a leader yield was sent by a leader, and whatever       *)
(* became of its sender, some leader has at least its id.  It is inductive  *)
(* together with TypeOK, since a step never lowers the highest leader.      *)

\* What HeardLeaders holds, element by element.
LEMMA HeardIds ==
    ASSUME NEW id
    PROVE  id \in HeardLeaders <=>
              \/ \E m \in msgs : m.cmd = "ALIVE" /\ m.from = id
              \/ \E n \in Node : id \in aliveList[n]
BY DEF HeardLeaders

\* Unless something else ends a leader, it only ever gives way to a higher one:
\* of all actions only StepYield leaves LEADER_STATE.
LEMMA LeadersGiveWayUpwards ==
    ASSUME TypeOK, HeardLeaderExists, Next, NoEnding'
    PROVE  \A n \in Leaders : \E k \in Leaders' : n <= k
<1> SUFFICES ASSUME NEW l \in Leaders
             PROVE  \E k \in Leaders' : l <= k
  OBVIOUS
<1> USE HADAssumption DEF TypeOK, Leaders, Node
<1>1. CASE UNCHANGED state
  BY SMTT(30), <1>1
<1>2. ASSUME NEW n \in Node, state[n] # "LEADER",
             state' = [state EXCEPT ![n] = state'[n]]
      PROVE  \E k \in Leaders' : l <= k
  BY SMTT(30), <1>2
<1>3. ASSUME NEW n \in Node, cycle(n)
      PROVE  \E k \in Leaders' : l <= k
  <2>1. CASE callsCounter[n] = 0 /\ StepYield(n)
    <3>1. PICK id \in aliveList[n] : ~(id <= n)
      BY <2>1 DEF StepYield, YieldsTo, checkList
    <3>2. PICK k \in Leaders : id <= k
      BY <3>1, HeardIds, EndingsStay DEF HeardLeaderExists
    <3>3. id \in Int /\ n \in Int /\ k \in Int /\ l \in Int
      BY SMTT(30), <3>1
    <3>4. k # n /\ k \in Leaders' /\ n <= k
      BY SMTT(30), <3>1, <3>2, <3>3, <2>1 DEF StepYield
    <3>5. CASE l = n
      BY <3>4, <3>5
    <3>6. CASE l # n
      BY SMTT(30), <3>6, <2>1, <3>3 DEF StepYield
    <3> QED
      BY <3>5, <3>6
  <2>2. CASE callsCounter[n] = 0 /\ ~StepYield(n)
    <3>1. \/ StepPre(n) \/ StepToElection(n) \/ StepStayPassive(n)
          \/ StepLoseElection(n) \/ StepWinElection(n) \/ StepLead(n)
      BY <1>3, <2>2 DEF cycle, step
    <3>2. CASE StepStayPassive(n) \/ StepLead(n)
      BY <3>2, <1>1 DEF StepStayPassive, StepLead
    <3>3. CASE StepPre(n)
      BY <3>3, <1>2 DEF StepPre
    <3>4. CASE StepToElection(n)
      BY <3>4, <1>2 DEF StepToElection
    <3>5. CASE StepLoseElection(n)
      BY <3>5, <1>2 DEF StepLoseElection
    <3>6. CASE StepWinElection(n)
      BY <3>6, <1>2 DEF StepWinElection
    <3> QED
      BY <3>1, <3>2, <3>3, <3>4, <3>5, <3>6
  <2>3. CASE callsCounter[n] # 0
    BY <1>1, <1>3, <2>3 DEF cycle
  <2> QED
    BY <2>1, <2>2, <2>3
<1>4. ASSUME NEW n \in Node, initialize(n)
      PROVE  \E k \in Leaders' : l <= k
  BY <1>2, <1>4 DEF initialize, Fresh
<1>5. ASSUME NEW n \in Node, CycleCrucialError(n)
      PROVE  \E k \in Leaders' : l <= k
  BY <1>2, <1>5 DEF CycleCrucialError, Ended
<1>6. ASSUME NEW n \in Node,
             \/ Shutdown(n) \/ Exit(n) \/ MachineDown(n)
             \/ reinitialize(n) \/ ReinitializeCrucialError(n)
      PROVE  FALSE
  BY <1>6, EndingsStay
<1>7. ASSUME NEW n \in Node, softReconfigure(n)
      PROVE  \E k \in Leaders' : l <= k
  BY <1>1, <1>7 DEF softReconfigure
<1>8. ASSUME NEW m \in msgs, commandHandlerHad(m) \/ HandleCopy(m) \/ Lose(m)
      PROVE  \E k \in Leaders' : l <= k
  BY <1>1, <1>8 DEF commandHandlerHad, HandleCopy, Deliver, Lose
<1> QED
  BY <1>3, <1>4, <1>5, <1>6, <1>7, <1>8 DEF Next

\* The only new ids to be heard of are those of leaders: sendMessages sends
\* ALIVE in LEADER_STATE only, and handlers only move ids from msgs to a list.
LEMMA OnlyLeadersAreHeard ==
    ASSUME TypeOK, Next
    PROVE  HeardLeaders' \subseteq HeardLeaders \cup Leaders'
<1> SUFFICES ASSUME NEW id \in HeardLeaders'
             PROVE  id \in HeardLeaders \cup Leaders'
  OBVIOUS
<1> USE HADAssumption
<1>h. \/ \E m \in msgs' : m.cmd = "ALIVE" /\ m.from = id
      \/ \E n \in Node : id \in aliveList'[n]
  BY DEF HeardLeaders
<1>1. ASSUME \A n \in Node : aliveList'[n] \subseteq aliveList[n],
             \A m \in msgs' : m.cmd = "ALIVE" => m \in msgs \/ m.from \in Leaders'
      PROVE  id \in HeardLeaders \cup Leaders'
  BY <1>1, <1>h, HeardIds
<1>2. ASSUME NEW n \in Node, clearBuffers(n)
      PROVE  \A p \in Node : aliveList'[p] \subseteq aliveList[p]
  BY <1>2 DEF clearBuffers, TypeOK
<1>3. ASSUME NEW n \in Node, cycle(n)
      PROVE  id \in HeardLeaders \cup Leaders'
  <2>1. \A p \in Node : aliveList'[p] \subseteq aliveList[p]
    <3>1. clearBuffers(n) \/ aliveList' = aliveList
      BY <1>3 DEF cycle, step, StepPre, StepToElection, StepStayPassive,
                  StepLoseElection, StepWinElection, StepYield, StepLead, buffers
    <3> QED
      BY <3>1, <1>2
  <2>2. \A m \in msgs' : m.cmd = "ALIVE" => m \in msgs \/ m.from \in Leaders'
    BY <1>3 DEF cycle, sendMessages, CommandOf, Leaders
  <2> QED
    BY <1>1, <2>1, <2>2
<1>4. ASSUME NEW n \in Node,
             \/ initialize(n) \/ CycleCrucialError(n) \/ Shutdown(n) \/ Exit(n)
             \/ MachineDown(n) \/ reinitialize(n) \/ ReinitializeCrucialError(n)
      PROVE  id \in HeardLeaders \cup Leaders'
  <2>1. Ended(n) \/ Fresh(n)
    BY <1>4 DEF initialize, CycleCrucialError, Shutdown, Exit, MachineDown,
                reinitialize, ReinitializeCrucialError
  <2>2. clearBuffers(n) /\ msgs' \subseteq msgs
    BY <2>1 DEF Ended, Fresh
  <2> QED
    BY <1>1, <1>2, <2>2
<1>5. ASSUME NEW n \in Node, softReconfigure(n)
      PROVE  id \in HeardLeaders \cup Leaders'
  BY <1>1, <1>5 DEF softReconfigure, buffers
<1>6. ASSUME NEW m \in msgs, Deliver(m), msgs' \subseteq msgs
      PROVE  id \in HeardLeaders \cup Leaders'
  <2>1. CASE \E x \in msgs' : x.cmd = "ALIVE" /\ x.from = id
    BY <1>6, <2>1, HeardIds
  <2>2. ASSUME NEW p \in Node, id \in aliveList'[p]
        PROVE  id \in HeardLeaders
    <3>1. id \in aliveList[p] \/ (m.cmd = "ALIVE" /\ id = m.from)
      BY <1>6, <2>2 DEF Deliver, TypeOK
    <3> QED
      BY <3>1, HeardIds
  <2> QED
    BY <1>h, <2>1, <2>2
<1>7. ASSUME NEW m \in msgs, commandHandlerHad(m) \/ HandleCopy(m)
      PROVE  id \in HeardLeaders \cup Leaders'
  BY <1>6, <1>7 DEF commandHandlerHad, HandleCopy
<1>8. ASSUME NEW m \in msgs, Lose(m)
      PROVE  id \in HeardLeaders \cup Leaders'
  BY <1>1, <1>8 DEF Lose, buffers
<1> QED
  BY <1>3, <1>4, <1>5, <1>7, <1>8 DEF Next

\* Until something else ends a HAD, whoever is heard of as a leader is matched
\* by a leader with at least its id, whatever is lost or delayed (step,
\* sendMessages, commandHandlerHad).
THEOREM HeardLeadersLead == Spec => []HeardLeaderExists
<1>1. Init => HeardLeaderExists
  BY HeardIds DEF Init, HeardLeaderExists
<1>2. TypeOK /\ HeardLeaderExists /\ [Next]_vars => HeardLeaderExists'
  <2> SUFFICES ASSUME TypeOK, HeardLeaderExists, [Next]_vars
               PROVE  HeardLeaderExists'
    OBVIOUS
  <2>1. CASE UNCHANGED vars
    BY <2>1 DEF vars, HeardLeaderExists, HeardLeaders, Leaders, NoEnding
  <2>2. CASE Next
    <3>1. SUFFICES ASSUME NoEnding', NEW id \in HeardLeaders'
                   PROVE  \E k \in Leaders' : id <= k
      BY DEF HeardLeaderExists
    <3>2. CASE id \in Leaders'
      BY SMTT(30), <3>2 DEF Leaders, Node
    <3>3. CASE id \in HeardLeaders
      <4>1. PICK k \in Leaders : id <= k
        BY <3>1, <3>3, EndingsStay DEF HeardLeaderExists
      <4>2. PICK j \in Leaders' : k <= j
        BY <2>2, <3>1, LeadersGiveWayUpwards
      <4>3. id \in Int
        BY SMTT(30), <3>3, HeardIds DEF TypeOK, Message, Node
      <4>4. k \in Int /\ j \in Int
        BY SMTT(30) DEF Leaders, Node
      <4> QED
        BY SMTT(30), <4>1, <4>2, <4>3, <4>4
    <3> QED
      BY <2>2, <3>2, <3>3, OnlyLeadersAreHeard
  <2> QED
    BY <2>1, <2>2
<1> QED
  BY <1>1, <1>2, TypeCorrect, PTL DEF Spec

\* A pool does not lose its leadership to lost, late or repeated commands: a
\* leader that steps down leaves a leader with a higher id behind (step).
THEOREM LeadershipIsKept == Spec => LeadershipSurvives
<1> DEFINE Kept == NoEnding' => \A n \in Leaders : \E k \in Leaders' : n <= k
<1>1. TypeOK /\ HeardLeaderExists /\ [Next]_vars => [Kept]_vars
  BY LeadersGiveWayUpwards
<1> HIDE DEF Kept
<1>2. Spec => [][Kept]_vars
  BY <1>1, TypeCorrect, HeardLeadersLead, PTL DEF Spec
<1> QED
  BY <1>2 DEF Kept, LeadershipSurvives

----------------------------------------------------------------------------
(* The controllee and the published ad.                                    *)

\* As long as every command to the master arrives, a running HAD has its
\* controllee on exactly while it leads: each change of state that matters is
\* made together with its command (step, initialize, reinitialize).
THEOREM ControlleeIsGoverned ==
    ASSUME "master" \notin Faults
    PROVE  Spec => []ControlleeFollowsHAD
<1>1. Init => ControlleeFollowsHAD
  BY DEF Init, ControlleeFollowsHAD
<1>2. TypeOK /\ ControlleeFollowsHAD /\ [Next]_vars => ControlleeFollowsHAD'
  <2> SUFFICES ASSUME TypeOK, ControlleeFollowsHAD, [Next]_vars
               PROVE  ControlleeFollowsHAD'
    OBVIOUS
  <2> USE DEF TypeOK, ControlleeFollowsHAD
  <2>m. ~MasterLost
    BY DEF MasterLost, Happens
  <2>1. CASE state' = state /\ childOn' = childOn
    BY <2>1
  <2>2. ASSUME NEW n \in Node, cycle(n)
        PROVE  ControlleeFollowsHAD'
    <3>1. CASE callsCounter[n] # 0
      BY <2>1, <2>2, <3>1 DEF cycle
    <3>2. CASE StepPre(n) \/ StepToElection(n) \/ StepLoseElection(n)
      BY <3>2 DEF StepPre, StepToElection, StepLoseElection
    <3>3. CASE StepStayPassive(n) \/ StepLead(n)
      BY <2>1, <3>3 DEF StepStayPassive, StepLead
    <3>4. CASE StepWinElection(n)
      BY <3>4 DEF StepWinElection
    <3>5. CASE StepYield(n)
      BY <2>m, <3>5 DEF StepYield
    <3> QED
      BY <2>2, <3>1, <3>2, <3>3, <3>4, <3>5 DEF cycle, step
  <2>3. ASSUME NEW n \in Node, initialize(n) \/ reinitialize(n)
        PROVE  ControlleeFollowsHAD'
    BY <2>3 DEF initialize, reinitialize, Fresh
  <2>4. ASSUME NEW n \in Node, Shutdown(n) \/ Exit(n) \/ MachineDown(n)
        PROVE  ControlleeFollowsHAD'
    <3>1. /\ state' = [state EXCEPT ![n] = "DOWN"]
          /\ childOn' = childOn \/ childOn' = [childOn EXCEPT ![n] = FALSE]
      BY <2>4 DEF Shutdown, Exit, MachineDown, Ended
    <3> QED
      BY <3>1
  <2>5. ASSUME NEW n \in Node, CycleCrucialError(n) \/ ReinitializeCrucialError(n)
        PROVE  FALSE
    BY <2>m, <2>5 DEF CycleCrucialError, ReinitializeCrucialError
  <2>6. ASSUME NEW n \in Node, softReconfigure(n)
        PROVE  ControlleeFollowsHAD'
    BY <2>1, <2>6 DEF softReconfigure
  <2>7. ASSUME NEW m \in msgs, commandHandlerHad(m) \/ HandleCopy(m) \/ Lose(m)
        PROVE  ControlleeFollowsHAD'
    BY <2>1, <2>7 DEF commandHandlerHad, HandleCopy, Deliver, Lose
  <2> QED
    BY <2>1, <2>2, <2>3, <2>4, <2>5, <2>6, <2>7 DEF Next, vars
<1> QED
  BY <1>1, <1>2, TypeCorrect, PTL DEF Spec

\* The ad in the collectors never shows a HAD as active that does not lead,
\* whatever fails: isActive is cleared wherever LEADER_STATE is left.
THEOREM AdsAreHonest == Spec => []AdNeverOverclaims
<1>1. Init => AdNeverOverclaims
  BY DEF Init, AdNeverOverclaims
<1>2. TypeOK /\ AdNeverOverclaims /\ [Next]_vars => AdNeverOverclaims'
  <2> SUFFICES ASSUME TypeOK, AdNeverOverclaims, [Next]_vars
               PROVE  AdNeverOverclaims'
    OBVIOUS
  <2> USE DEF TypeOK, AdNeverOverclaims
  <2>1. CASE state' = state /\ isActive' = isActive
    BY <2>1
  <2>2. ASSUME NEW n \in Node, cycle(n)
        PROVE  AdNeverOverclaims'
    <3>1. CASE callsCounter[n] # 0
      BY <2>1, <2>2, <3>1 DEF cycle
    <3>2. CASE StepPre(n) \/ StepToElection(n) \/ StepLoseElection(n)
      BY <3>2 DEF StepPre, StepToElection, StepLoseElection
    <3>3. CASE StepStayPassive(n) \/ StepLead(n)
      BY <2>1, <3>3 DEF StepStayPassive, StepLead
    <3>4. CASE StepWinElection(n)
      BY <3>4 DEF StepWinElection
    <3>5. CASE StepYield(n)
      BY <3>5 DEF StepYield
    <3> QED
      BY <2>2, <3>1, <3>2, <3>3, <3>4, <3>5 DEF cycle, step
  <2>3. ASSUME NEW n \in Node,
               \/ initialize(n) \/ CycleCrucialError(n) \/ Shutdown(n) \/ Exit(n)
               \/ MachineDown(n) \/ reinitialize(n) \/ ReinitializeCrucialError(n)
        PROVE  AdNeverOverclaims'
    <3>1. Ended(n) \/ Fresh(n)
      BY <2>3 DEF initialize, CycleCrucialError, Shutdown, Exit, MachineDown,
                  reinitialize, ReinitializeCrucialError
    <3> QED
      BY <3>1 DEF Ended, Fresh
  <2>4. ASSUME NEW n \in Node, softReconfigure(n)
        PROVE  AdNeverOverclaims'
    BY <2>4 DEF softReconfigure
  <2>5. ASSUME NEW m \in msgs, commandHandlerHad(m) \/ HandleCopy(m) \/ Lose(m)
        PROVE  AdNeverOverclaims'
    BY <2>1, <2>5 DEF commandHandlerHad, HandleCopy, Deliver, Lose
  <2> QED
    BY <2>1, <2>2, <2>3, <2>4, <2>5 DEF Next, vars
<1> QED
  BY <1>1, <1>2, TypeCorrect, PTL DEF Spec

----------------------------------------------------------------------------
(* The round.                                                              *)

Distinct(s) == \A i, j \in DOMAIN s : s[i] = s[j] => i = j

\* a cycles before b does.
AheadIn(s, a, b) == \E i, j \in DOMAIN s : i < j /\ s[i] = a /\ s[j] = b
Ahead(a, b) == AheadIn(schedule, a, b)

\* All positions but the last have a next one.
LEMMA NextPosition ==
    ASSUME NEW l \in Nat, NEW i \in 1 .. l, i # l
    PROVE  i \in 1 .. l - 1 /\ i + 1 \in 1 .. l
BY SMTT(30)

\* The head is ahead of all others.
LEMMA HeadIsAhead ==
    ASSUME NEW s \in Seq(Place), Distinct(s), s # <<>>, NEW a \in Range(s), a # Head(s)
    PROVE  AheadIn(s, Head(s), a) /\ ~AheadIn(s, a, Head(s))
<1>1. Len(s) \in Nat /\ Len(s) >= 1 /\ DOMAIN s = 1 .. Len(s) /\ Head(s) = s[1]
  BY SMTT(30)
<1>2. PICK i \in DOMAIN s : s[i] = a
  BY DEF Range
<1>3. 1 \in DOMAIN s /\ 1 < i
  BY SMTT(30), <1>1, <1>2
<1>4. AheadIn(s, Head(s), a)
  BY <1>1, <1>2, <1>3 DEF AheadIn
<1>5. ASSUME AheadIn(s, a, Head(s))
      PROVE  FALSE
  <2>1. PICK j, k \in DOMAIN s : j < k /\ s[j] = a /\ s[k] = Head(s)
    BY <1>5 DEF AheadIn
  <2>2. k = 1
    BY SMTT(30), <1>1, <1>3, <2>1 DEF Distinct
  <2> QED
    BY SMTT(30), <1>1, <2>1, <2>2
<1> QED
  BY <1>4, <1>5

\* Who cycles goes behind all others, who keep their order.
LEMMA HeadGoesLast ==
    ASSUME NEW s \in Seq(Place), Distinct(s), s # <<>>
    PROVE  LET n == Head(s)
               t == Append(Tail(s), n) IN
           /\ t \in Seq(Place) /\ Distinct(t) /\ Range(t) = Range(s)
           /\ \A a \in Range(s) \ {n} : AheadIn(t, a, n) /\ ~AheadIn(t, n, a)
           /\ \A a, b \in Place \ {n} : AheadIn(t, a, b) <=> AheadIn(s, a, b)
<1> DEFINE n == Head(s)
           t == Append(Tail(s), n)
<1>1. /\ Len(s) \in Nat /\ Len(s) >= 1 /\ DOMAIN s = 1 .. Len(s)
      /\ n = s[1] /\ n \in Place
  BY SMTT(30)
<1>2. /\ t \in Seq(Place) /\ Len(t) = Len(s) /\ DOMAIN t = 1 .. Len(s)
      /\ t[Len(s)] = n /\ \A i \in 1 .. Len(s) - 1 : t[i] = s[i + 1]
  BY SMTT(30), <1>1
<1> HIDE DEF t, n
<1>3. Distinct(t)
  <2> SUFFICES ASSUME NEW i \in 1 .. Len(s), NEW j \in 1 .. Len(s), t[i] = t[j]
               PROVE  i = j
    BY <1>2 DEF Distinct
  <2>1. CASE i = Len(s) /\ j # Len(s)
    <3>1. j \in 1 .. Len(s) - 1 /\ j + 1 \in 1 .. Len(s)
      BY ZenonT(60), <1>1, <2>1, NextPosition
    <3>2. s[j + 1] = s[1]
      BY <1>1, <1>2, <2>1, <3>1
    <3>3. 1 \in 1 .. Len(s)
      BY SMTT(30), <1>1
    <3>4. j + 1 = 1
      BY <1>1, <3>1, <3>2, <3>3 DEF Distinct
    <3> QED
      BY SMTT(30), <3>4
  <2>2. CASE j = Len(s) /\ i # Len(s)
    <3>1. i \in 1 .. Len(s) - 1 /\ i + 1 \in 1 .. Len(s)
      BY ZenonT(60), <1>1, <2>2, NextPosition
    <3>2. s[i + 1] = s[1]
      BY ZenonT(60), <1>1, <1>2, <2>2, <3>1
    <3>3. 1 \in 1 .. Len(s)
      BY SMTT(30), <1>1
    <3>4. i + 1 = 1
      BY <1>1, <3>1, <3>2, <3>3 DEF Distinct
    <3> QED
      BY SMTT(30), <3>4
  <2>3. CASE i # Len(s) /\ j # Len(s)
    <3>1. /\ i \in 1 .. Len(s) - 1 /\ i + 1 \in 1 .. Len(s)
          /\ j \in 1 .. Len(s) - 1 /\ j + 1 \in 1 .. Len(s)
      BY <1>1, <2>3, NextPosition
    <3>2. s[i + 1] = s[j + 1]
      BY <1>2, <3>1
    <3>3. i + 1 = j + 1
      BY <1>1, <3>1, <3>2 DEF Distinct
    <3> QED
      BY SMTT(30), <3>3
  <2> QED
    BY <2>1, <2>2, <2>3
<1>4. ASSUME NEW a \in Range(s), a # n
      PROVE  \E i \in 1 .. Len(s) - 1 : t[i] = a
  <2>1. PICK i \in 1 .. Len(s) : s[i] = a
    BY <1>1, <1>4 DEF Range
  <2>2. i - 1 \in 1 .. Len(s) - 1 /\ (i - 1) + 1 = i
    BY SMTT(30), <1>1, <1>4, <2>1
  <2> QED
    BY <1>2, <2>1, <2>2
<1>5. Range(t) = Range(s)
  <2>1. ASSUME NEW i \in 1 .. Len(s)
        PROVE  t[i] \in Range(s)
    <3>1. CASE i = Len(s)
      BY SMTT(30), <1>1, <1>2, <3>1 DEF Range
    <3>2. CASE i # Len(s)
      <4>1. i \in 1 .. Len(s) - 1 /\ i + 1 \in 1 .. Len(s)
        BY <1>1, <3>2, NextPosition
      <4>2. t[i] = s[i + 1]
        BY <1>2, <4>1
      <4> QED
        BY <1>1, <4>1, <4>2 DEF Range
    <3> QED
      BY <3>1, <3>2
  <2>2. ASSUME NEW a \in Range(s)
        PROVE  a \in Range(t)
    <3>1. CASE a = n
      <4>1. Len(s) \in DOMAIN t
        BY SMTT(30), <1>1, <1>2
      <4> QED
        BY <1>2, <3>1, <4>1 DEF Range
    <3>2. CASE a # n
      <4>1. PICK i \in 1 .. Len(s) - 1 : t[i] = a
        BY <1>4, <3>2
      <4>2. i \in DOMAIN t
        BY SMTT(30), <1>1, <1>2
      <4> QED
        BY <4>1, <4>2 DEF Range
    <3> QED
      BY <3>1, <3>2
  <2>3. \A x \in Range(t) : x \in Range(s)
    BY <1>2, <2>1 DEF Range
  <2> QED
    BY ZenonT(60), <2>2, <2>3
<1>6. ASSUME NEW a \in Range(s), a # n
      PROVE  AheadIn(t, a, n) /\ ~AheadIn(t, n, a)
  <2>1. PICK i \in 1 .. Len(s) - 1 : t[i] = a
    BY <1>4, <1>6
  <2>2. i \in DOMAIN t /\ Len(s) \in DOMAIN t /\ i < Len(s)
    BY SMTT(30), <1>1, <1>2
  <2>3. AheadIn(t, a, n)
    BY <1>2, <2>1, <2>2 DEF AheadIn
  <2>4. ASSUME NEW j \in DOMAIN t, NEW k \in DOMAIN t, j < k, t[j] = n
        PROVE  FALSE
    <3>1. j = Len(s)
      BY <1>2, <1>3, <2>2, <2>4 DEF Distinct
    <3> QED
      BY SMTT(30), <1>1, <1>2, <2>4, <3>1
  <2> QED
    BY <2>3, <2>4 DEF AheadIn
<1>7. ASSUME NEW a \in Place, NEW b \in Place, a # n, b # n
      PROVE  AheadIn(t, a, b) <=> AheadIn(s, a, b)
  <2>1. ASSUME AheadIn(t, a, b)
        PROVE  AheadIn(s, a, b)
    <3>1. PICK i, j \in 1 .. Len(s) : i < j /\ t[i] = a /\ t[j] = b
      BY <1>2, <2>1 DEF AheadIn
    <3>2. i # Len(s) /\ j # Len(s)
      BY ZenonT(60), <1>2, <1>7, <3>1
    <3>3. /\ i \in 1 .. Len(s) - 1 /\ i + 1 \in 1 .. Len(s)
          /\ j \in 1 .. Len(s) - 1 /\ j + 1 \in 1 .. Len(s)
      BY <1>1, <3>1, <3>2, NextPosition
    <3>4. s[i + 1] = a /\ s[j + 1] = b
      BY <1>2, <3>1, <3>3
    <3>5. i + 1 < j + 1
      BY SMTT(30), <3>1
    <3> QED
      BY <1>1, <3>3, <3>4, <3>5 DEF AheadIn
  <2>2. ASSUME AheadIn(s, a, b)
        PROVE  AheadIn(t, a, b)
    <3>1. PICK i, j \in 1 .. Len(s) : i < j /\ s[i] = a /\ s[j] = b
      BY <1>1, <2>2 DEF AheadIn
    <3>2. i # 1 /\ j # 1
      BY <1>1, <1>7, <3>1
    <3>3. /\ i - 1 \in 1 .. Len(s) - 1 /\ j - 1 \in 1 .. Len(s) - 1
          /\ i - 1 < j - 1 /\ (i - 1) + 1 = i /\ (j - 1) + 1 = j
      BY SMTT(30), <1>1, <3>1, <3>2
    <3>4. t[i - 1] = a /\ t[j - 1] = b
      BY <1>2, <3>1, <3>3
    <3>5. i - 1 \in DOMAIN t /\ j - 1 \in DOMAIN t
      BY SMTT(30), <1>1, <1>2, <3>3
    <3> QED
      BY <3>3, <3>4, <3>5 DEF AheadIn
  <2> QED
    BY <2>1, <2>2
<1> QED
  BY <1>2, <1>3, <1>5, <1>6, <1>7 DEF t, n

\* r is s without its element at i.
Without(r, s, i) ==
    /\ r \in Seq(Place) /\ Len(r) = Len(s) - 1
    /\ \A k \in 1 .. Len(s) - 1 : r[k] = IF k < i THEN s[k] ELSE s[k + 1]

\* A sequence from which one element has been cut out.
LEMMA CutIsWithout ==
    ASSUME NEW s \in Seq(Place), NEW i \in DOMAIN s
    PROVE  Without(SubSeq(s, 1, i - 1) \o SubSeq(s, i + 1, Len(s)), s, i)
<1> DEFINE u == SubSeq(s, 1, i - 1)
           v == SubSeq(s, i + 1, Len(s))
<1>1. Len(s) \in Nat /\ i \in 1 .. Len(s) /\ DOMAIN s = 1 .. Len(s)
  BY SMTT(30)
<1>2. u \in Seq(Place) /\ Len(u) = i - 1 /\ \A k \in 1 .. i - 1 : u[k] = s[k]
  BY SMTT(30), <1>1
<1>3. /\ v \in Seq(Place) /\ Len(v) = Len(s) - i
      /\ \A k \in 1 .. Len(s) - i : v[k] = s[k + i]
  <2>1. v \in Seq(Place)
    BY SMTT(30), <1>1
  <2>2. Len(v) = Len(s) - i
    BY SMTT(30), <1>1
  <2>3. ASSUME NEW k \in 1 .. Len(s) - i
        PROVE  v[k] = s[k + i]
    <3>1. k \in 1 .. Len(s) - (i + 1) + 1 /\ (i + 1) + k - 1 = k + i
      BY SMTT(30), <1>1
    <3>2. v[k] = s[(i + 1) + k - 1]
      BY SMTT(30), <1>1, <3>1
    <3> QED
      BY <3>1, <3>2
  <2> QED
    BY <2>1, <2>2, <2>3
<1> HIDE DEF u, v
<1>4. u \o v \in Seq(Place) /\ Len(u \o v) = Len(s) - 1
  <2>1. u \o v \in Seq(Place)
    BY SMTT(30), <1>2, <1>3
  <2>2. Len(u \o v) = Len(u) + Len(v)
    <3>1. u \in Seq(Place) /\ v \in Seq(Place)
      BY <1>2, <1>3
    <3> QED
      BY SMTT(30), <3>1
  <2>3. Len(u) + Len(v) = Len(s) - 1
    <3>1. Len(u) = i - 1 /\ Len(v) = Len(s) - i
      BY <1>2, <1>3
    <3> QED
      BY SMTT(30), <1>1, <3>1
  <2> QED
    BY <2>1, <2>2, <2>3
<1>5. ASSUME NEW k \in 1 .. Len(s) - 1
      PROVE  (u \o v)[k] = IF k < i THEN s[k] ELSE s[k + 1]
  <2>1. CASE k < i
    <3>1. k \in 1 .. i - 1
      BY SMTT(30), <1>1, <2>1
    <3>2. (u \o v)[k] = u[k]
      BY SMTT(30), <1>1, <1>2, <1>3, <3>1
    <3> QED
      BY <1>2, <2>1, <3>1, <3>2
  <2>2. CASE ~(k < i)
    <3>1. k - (i - 1) \in 1 .. Len(s) - i /\ k - (i - 1) + i = k + 1
      BY SMTT(30), <1>1, <2>2
    <3>2. (u \o v)[k] = v[k - (i - 1)]
      BY SMTT(30), <1>1, <1>2, <1>3, <2>2, <3>1
    <3> QED
      BY <1>3, <2>2, <3>1, <3>2
  <2> QED
    BY <2>1, <2>2
<1>6. Without(u \o v, s, i)
  BY <1>4, <1>5 DEF Without
<1> QED
  BY <1>6 DEF u, v

\* Tail leaves out the first element.
LEMMA TailIsWithout ==
    ASSUME NEW s \in Seq(Place), s # <<>>
    PROVE  Without(Tail(s), s, 1)
<1>1. Tail(s) \in Seq(Place) /\ Len(Tail(s)) = Len(s) - 1
  BY SMTT(30)
<1>2. \A k \in 1 .. Len(s) - 1 : Tail(s)[k] = s[k + 1] /\ ~(k < 1)
  BY SMTT(30)
<1> QED
  BY <1>1, <1>2 DEF Without

\* The others keep their places and their order.
LEMMA OthersKeepOrder ==
    ASSUME NEW s \in Seq(Place), Distinct(s), NEW i \in DOMAIN s,
           NEW r, Without(r, s, i)
    PROVE  /\ Distinct(r) /\ Range(r) = Range(s) \ {s[i]}
           /\ \A a, b \in Place \ {s[i]} : AheadIn(r, a, b) <=> AheadIn(s, a, b)
<1> DEFINE Old(k) == IF k < i THEN k ELSE k + 1
           New(k) == IF k < i THEN k ELSE k - 1
<1>1. /\ Len(s) \in Nat /\ i \in 1 .. Len(s) /\ DOMAIN s = 1 .. Len(s)
      /\ DOMAIN r = 1 .. Len(s) - 1
  BY SMTT(30) DEF Without
<1>2. ASSUME NEW k \in 1 .. Len(s) - 1
      PROVE  Old(k) \in 1 .. Len(s) /\ Old(k) # i /\ r[k] = s[Old(k)]
  BY SMTT(30), <1>1 DEF Without
<1>3. ASSUME NEW k \in 1 .. Len(s), k # i
      PROVE  New(k) \in 1 .. Len(s) - 1 /\ Old(New(k)) = k
  BY SMTT(30), <1>1, <1>3
<1>4. ASSUME NEW k \in 1 .. Len(s) - 1, NEW l \in 1 .. Len(s) - 1
      PROVE  /\ Old(k) = Old(l) => k = l
             /\ k < l => Old(k) < Old(l)
  BY SMTT(30), <1>1
<1>5. ASSUME NEW k \in 1 .. Len(s), NEW l \in 1 .. Len(s), k # i, l # i, k < l
      PROVE  New(k) < New(l)
  BY SMTT(30), <1>1, <1>5
<1>6. ASSUME NEW k \in 1 .. Len(s), k # i
      PROVE  r[New(k)] = s[k]
  BY <1>2, <1>3, <1>6
<1> HIDE DEF Old, New
<1>7. Distinct(r)
  BY SMTT(30), <1>1, <1>2, <1>4 DEF Distinct
<1>8. ASSUME NEW k \in 1 .. Len(s), k # i
      PROVE  s[k] # s[i]
  BY <1>1, <1>8 DEF Distinct
<1>9. Range(r) \subseteq Range(s) \ {s[i]}
  BY <1>1, <1>2, <1>8 DEF Range
<1>10. Range(s) \ {s[i]} \subseteq Range(r)
  <2> SUFFICES ASSUME NEW k \in 1 .. Len(s), s[k] # s[i]
               PROVE  s[k] \in Range(r)
    BY <1>1 DEF Range
  <2>1. New(k) \in DOMAIN r /\ r[New(k)] = s[k]
    BY <1>1, <1>3, <1>6
  <2> QED
    BY <2>1 DEF Range
<1>11. ASSUME NEW a \in Place \ {s[i]}, NEW b \in Place \ {s[i]}
       PROVE  AheadIn(r, a, b) <=> AheadIn(s, a, b)
  <2>1. ASSUME AheadIn(r, a, b)
        PROVE  AheadIn(s, a, b)
    <3>1. PICK k, l \in 1 .. Len(s) - 1 : k < l /\ r[k] = a /\ r[l] = b
      BY <1>1, <2>1 DEF AheadIn
    <3>2. /\ Old(k) \in DOMAIN s /\ Old(l) \in DOMAIN s /\ Old(k) < Old(l)
          /\ s[Old(k)] = a /\ s[Old(l)] = b
      BY <1>1, <1>2, <1>4, <3>1
    <3> QED
      BY <3>2 DEF AheadIn
  <2>2. ASSUME AheadIn(s, a, b)
        PROVE  AheadIn(r, a, b)
    <3>1. PICK k, l \in 1 .. Len(s) : k < l /\ s[k] = a /\ s[l] = b
      BY <1>1, <2>2 DEF AheadIn
    <3>2. /\ New(k) \in DOMAIN r /\ New(l) \in DOMAIN r /\ New(k) < New(l)
          /\ r[New(k)] = a /\ r[New(l)] = b
      BY <1>1, <1>3, <1>5, <1>6, <3>1
    <3> QED
      BY <3>2 DEF AheadIn
  <2> QED
    BY <2>1, <2>2
<1> QED
  BY <1>7, <1>9, <1>10, <1>11

\* Who enters comes first, and the others keep their order.
LEMMA EnteringKeepsOrder ==
    ASSUME NEW r \in Seq(Place), Distinct(r), NEW n \in Place, n \notin Range(r)
    PROVE  LET t == <<n>> \o r IN
           /\ t \in Seq(Place) /\ Distinct(t) /\ Range(t) = Range(r) \cup {n}
           /\ \A a, b \in Place \ {n} : AheadIn(t, a, b) <=> AheadIn(r, a, b)
<1> DEFINE t == <<n>> \o r
<1>1. /\ Len(r) \in Nat /\ DOMAIN r = 1 .. Len(r)
      /\ t \in Seq(Place) /\ DOMAIN t = 1 .. Len(r) + 1 /\ t[1] = n
  BY SMTT(30)
<1>2. ASSUME NEW k \in 1 .. Len(r)
      PROVE  k + 1 \in DOMAIN t /\ t[k + 1] = r[k] /\ r[k] # n
  <2>1. k + 1 \in DOMAIN t
    BY SMTT(30), <1>1
  <2>2. t[k + 1] = r[k]
    BY SMTT(30), <1>1
  <2>3. r[k] # n
    BY <1>1 DEF Range
  <2> QED
    BY <2>1, <2>2, <2>3
<1> HIDE DEF t
<1>3. ASSUME NEW k \in DOMAIN t, k # 1
      PROVE  k - 1 \in 1 .. Len(r) /\ t[k] = r[k - 1] /\ t[k] # n
  <2>1. k - 1 \in 1 .. Len(r) /\ (k - 1) + 1 = k
    BY SMTT(30), <1>1, <1>3
  <2> QED
    BY <1>2, <2>1
<1>4. Distinct(t)
  <2> SUFFICES ASSUME NEW k \in DOMAIN t, NEW l \in DOMAIN t, t[k] = t[l]
               PROVE  k = l
    BY DEF Distinct
  <2>1. CASE k = 1 \/ l = 1
    BY <1>1, <1>3, <2>1
  <2>2. CASE k # 1 /\ l # 1
    <3>1. k - 1 = l - 1
      BY <1>1, <1>3, <2>2 DEF Distinct
    <3> QED
      BY SMTT(30), <1>1, <3>1
  <2> QED
    BY <2>1, <2>2
<1>5. Range(t) \subseteq Range(r) \cup {n}
  BY SMTT(30), <1>1, <1>3 DEF Range
<1>6. 1 \in DOMAIN t
  BY SMTT(30), <1>1
<1>7. Range(r) \cup {n} \subseteq Range(t)
  BY SMTT(30), <1>1, <1>2, <1>6 DEF Range
<1>8. ASSUME NEW a \in Place \ {n}, NEW b \in Place \ {n}
      PROVE  AheadIn(t, a, b) <=> AheadIn(r, a, b)
  <2>1. ASSUME AheadIn(t, a, b)
        PROVE  AheadIn(r, a, b)
    <3>1. PICK k, l \in DOMAIN t : k < l /\ t[k] = a /\ t[l] = b
      BY <2>1 DEF AheadIn
    <3>2. k # 1 /\ l # 1
      BY <1>1, <3>1
    <3>3. /\ k - 1 \in DOMAIN r /\ l - 1 \in DOMAIN r
          /\ r[k - 1] = a /\ r[l - 1] = b
      BY <1>1, <1>3, <3>1, <3>2
    <3>4. k - 1 < l - 1
      BY SMTT(30), <1>1, <3>1
    <3> QED
      BY <3>3, <3>4 DEF AheadIn
  <2>2. ASSUME AheadIn(r, a, b)
        PROVE  AheadIn(t, a, b)
    <3>1. PICK k, l \in DOMAIN r : k < l /\ r[k] = a /\ r[l] = b
      BY <2>2 DEF AheadIn
    <3>2. /\ k + 1 \in DOMAIN t /\ l + 1 \in DOMAIN t
          /\ t[k + 1] = a /\ t[l + 1] = b
      BY <1>1, <1>2, <3>1
    <3>3. k + 1 < l + 1
      BY SMTT(30), <1>1, <3>1
    <3> QED
      BY <3>2, <3>3 DEF AheadIn
  <2> QED
    BY <2>1, <2>2
<1> QED
  BY <1>1, <1>4, <1>5, <1>7, <1>8 DEF t

\* The places of two HADs are different ones.
LEMMA FormerFacts ==
    ASSUME NEW n \in Node
    PROVE  /\ n \in Place /\ Former(n) \in Place /\ Former(n) \notin Node
           /\ \A k \in Node : Former(k) = Former(n) => k = n
<1>1. N \in Nat /\ n \in 0 .. N - 1
  BY HADAssumption DEF Node
<1>2. N + n \notin 0 .. N - 1 /\ \A k \in 0 .. N - 1 : N + k = N + n => k = n
  BY SMTT(30), <1>1
<1> QED
  BY <1>2 DEF Place, Former, Node

\* A place of which another one takes the position.
LEMMA RenamingKeepsOrder ==
    ASSUME NEW s \in Seq(Place), Distinct(s), NEW i \in DOMAIN s,
           NEW p \in Place, p \notin Range(s)
    PROVE  LET r == [s EXCEPT ![i] = p] IN
           /\ r \in Seq(Place) /\ Distinct(r)
           /\ Range(r) = (Range(s) \ {s[i]}) \cup {p}
           /\ \A a, b \in Place \ {s[i], p} : AheadIn(r, a, b) <=> AheadIn(s, a, b)
           /\ \A b \in Place \ {s[i], p} : AheadIn(r, p, b) <=> AheadIn(s, s[i], b)
<1> DEFINE r == [s EXCEPT ![i] = p]
<1>1. r \in Seq(Place) /\ DOMAIN r = DOMAIN s
  BY SMTT(30)
<1>2. r[i] = p /\ \A k \in DOMAIN s : k # i => r[k] = s[k] /\ s[k] # s[i] /\ s[k] # p
  BY DEF Distinct, Range
<1> HIDE DEF r
<1>3. Distinct(r)
  BY <1>1, <1>2 DEF Distinct
<1>4. Range(r) = (Range(s) \ {s[i]}) \cup {p}
  <2>1. \A k \in DOMAIN s : r[k] \in (Range(s) \ {s[i]}) \cup {p}
    BY <1>2 DEF Range
  <2>2. \A k \in DOMAIN s : s[k] # s[i] => s[k] \in Range(r)
    BY <1>1, <1>2 DEF Range
  <2>3. p \in Range(r)
    BY <1>1, <1>2 DEF Range
  <2>4. Range(r) \subseteq (Range(s) \ {s[i]}) \cup {p}
    BY <1>1, <2>1 DEF Range
  <2>5. Range(s) \ {s[i]} \subseteq Range(r)
    BY <2>2 DEF Range
  <2> QED
    BY <2>3, <2>4, <2>5
<1>5. ASSUME NEW a \in Place \ {s[i], p}, NEW b \in Place \ {s[i], p}
      PROVE  AheadIn(r, a, b) <=> AheadIn(s, a, b)
  BY <1>1, <1>2 DEF AheadIn
<1>6. ASSUME NEW b \in Place \ {s[i], p}
      PROVE  AheadIn(r, p, b) <=> AheadIn(s, s[i], b)
  BY <1>1, <1>2 DEF AheadIn
<1> QED
  BY ZenonT(60), <1>1, <1>3, <1>4, <1>5, <1>6 DEF r

\* What n leaves behind when it gets a new place (Others).
LEMMA LeavingKeepsOrder ==
    ASSUME schedule \in Seq(Place), Distinct(schedule), NEW n \in Node
    PROVE  /\ Others(n) \in Seq(Place) /\ Distinct(Others(n))
           /\ Range(Others(n)) = IF n \in Range(schedule) /\ ~Settled(n)
                                 THEN (Range(schedule) \ {n}) \cup {Former(n)}
                                 ELSE Range(schedule) \ {n}
           /\ \A a, b \in Place \ {n, Former(n)} :
                 AheadIn(Others(n), a, b) <=> Ahead(a, b)
           /\ \A b \in Node \ {n} :
                 IF n \in Range(schedule) /\ ~Settled(n)
                 THEN AheadIn(Others(n), Former(n), b) <=> Ahead(n, b)
                 ELSE AheadIn(Others(n), Former(n), b) <=> Ahead(Former(n), b)
<1>1. n \in Place /\ Former(n) \in Place /\ Former(n) \notin Node
  BY FormerFacts
<1>2. \A b \in Node : b \in Place /\ b # Former(n)
  BY <1>1 DEF Place
<1>3. CASE n \notin Range(schedule)
  <2>1. Others(n) = schedule
    BY <1>3 DEF Others
  <2> QED
    BY <1>3, <2>1 DEF Ahead
<1>4. CASE n \in Range(schedule)
  <2> DEFINE i == CHOOSE i \in DOMAIN schedule : schedule[i] = n
             Cut == SubSeq(schedule, 1, i - 1)
                      \o SubSeq(schedule, i + 1, Len(schedule))
  <2>1. i \in DOMAIN schedule /\ schedule[i] = n
    BY <1>4 DEF Range
  <2>2. Others(n) = IF Settled(n) THEN Cut ELSE [schedule EXCEPT ![i] = Former(n)]
    BY <1>4 DEF Others
  <2>3. Without(Cut, schedule, i)
    BY <2>1, CutIsWithout
  <2> HIDE DEF i, Cut
  <2>4. CASE Settled(n)
    <3>1. Without(Others(n), schedule, i)
      BY <2>2, <2>3, <2>4
    <3>2. Others(n) \in Seq(Place)
      BY <3>1 DEF Without
    <3>3. /\ Distinct(Others(n)) /\ Range(Others(n)) = Range(schedule) \ {n}
          /\ \A a, b \in Place \ {n} : AheadIn(Others(n), a, b) <=> Ahead(a, b)
      BY <2>1, <3>1, OthersKeepOrder DEF Ahead
    <3> QED
      BY <1>1, <1>2, <2>4, <3>2, <3>3
  <2>5. CASE ~Settled(n)
    <3>1. Others(n) = [schedule EXCEPT ![i] = Former(n)]
      BY <2>2, <2>5
    <3>2. Former(n) \notin Range(schedule)
      BY <2>5 DEF Settled
    <3>3. /\ Others(n) \in Seq(Place) /\ Distinct(Others(n))
          /\ Range(Others(n)) = (Range(schedule) \ {n}) \cup {Former(n)}
          /\ \A a, b \in Place \ {n, Former(n)} :
                AheadIn(Others(n), a, b) <=> Ahead(a, b)
          /\ \A b \in Place \ {n, Former(n)} :
                AheadIn(Others(n), Former(n), b) <=> Ahead(n, b)
      <4> DEFINE r == [schedule EXCEPT ![i] = Former(n)]
      <4>1. /\ r \in Seq(Place) /\ Distinct(r)
            /\ Range(r) = (Range(schedule) \ {schedule[i]}) \cup {Former(n)}
            /\ \A a, b \in Place \ {schedule[i], Former(n)} :
                  AheadIn(r, a, b) <=> AheadIn(schedule, a, b)
            /\ \A b \in Place \ {schedule[i], Former(n)} :
                  AheadIn(r, Former(n), b) <=> AheadIn(schedule, schedule[i], b)
        BY ZenonT(60), <1>1, <2>1, <3>2, RenamingKeepsOrder
      <4> HIDE DEF r
      <4>2. Others(n) = r
        BY <3>1 DEF r
      <4> QED
        BY <2>1, <4>1, <4>2 DEF Ahead
    <3> QED
      BY <1>2, <1>4, <2>5, <3>3
  <2> QED
    BY <2>4, <2>5
<1> QED
  BY <1>3, <1>4

\* A HAD that starts gets the first place (SyncStart).
LEMMA FirstKeepsOrder ==
    ASSUME schedule \in Seq(Place), Distinct(schedule), NEW n \in Node
    PROVE  LET t == First(n) IN
           /\ t \in Seq(Place) /\ Distinct(t)
           /\ Range(t) = Range(Others(n)) \cup {n}
           /\ Range(schedule) \ {n} \subseteq Range(t)
           /\ \A a, b \in Place \ {n, Former(n)} : AheadIn(t, a, b) <=> Ahead(a, b)
           /\ \A b \in Node \ {n} :
                 IF n \in Range(schedule) /\ ~Settled(n)
                 THEN AheadIn(t, Former(n), b) <=> Ahead(n, b)
                 ELSE AheadIn(t, Former(n), b) <=> Ahead(Former(n), b)
<1> DEFINE r == Others(n)
<1>1. /\ n \in Place /\ Former(n) \in Place /\ Former(n) # n
      /\ \A b \in Node : b \in Place
  BY FormerFacts DEF Place
<1>2. First(n) = <<n>> \o r
  BY DEF First
<1>3. /\ r \in Seq(Place) /\ Distinct(r) /\ n \notin Range(r)
      /\ Range(schedule) \ {n} \subseteq Range(r)
  BY <1>1, LeavingKeepsOrder
<1>4. /\ \A a, b \in Place \ {n, Former(n)} : AheadIn(r, a, b) <=> Ahead(a, b)
      /\ \A b \in Node \ {n} :
            IF n \in Range(schedule) /\ ~Settled(n)
            THEN AheadIn(r, Former(n), b) <=> Ahead(n, b)
            ELSE AheadIn(r, Former(n), b) <=> Ahead(Former(n), b)
  BY LeavingKeepsOrder
<1> HIDE DEF r
<1>5. /\ First(n) \in Seq(Place) /\ Distinct(First(n))
      /\ Range(First(n)) = Range(r) \cup {n}
      /\ \A a, b \in Place \ {n} : AheadIn(First(n), a, b) <=> AheadIn(r, a, b)
  BY SMTT(30), <1>1, <1>2, <1>3, EnteringKeepsOrder
<1>6. \A b \in Node \ {n} : AheadIn(First(n), Former(n), b) <=> AheadIn(r, Former(n), b)
  BY <1>1, <1>5
<1> QED
  BY <1>3, <1>4, <1>5, <1>6 DEF r

\* The moment of a place passes (SyncPass, SyncPassFormer).
LEMMA PassingKeepsOrder ==
    ASSUME schedule \in Seq(Place), Distinct(schedule), NEW p \in Place, Turn(p)
    PROVE  LET t == Tail(schedule) IN
           /\ t \in Seq(Place) /\ Distinct(t) /\ Range(t) = Range(schedule) \ {p}
           /\ \A a, b \in Place \ {p} : AheadIn(t, a, b) <=> Ahead(a, b)
<1>1. schedule # <<>> /\ 1 \in DOMAIN schedule /\ schedule[1] = p
  BY SMTT(30) DEF Turn
<1>2. Without(Tail(schedule), schedule, 1)
  BY <1>1, TailIsWithout
<1>3. Tail(schedule) \in Seq(Place)
  BY <1>2 DEF Without
<1> QED
  BY <1>1, <1>2, <1>3, OthersKeepOrder DEF Ahead

----------------------------------------------------------------------------
(* What a HAD knows of another one.                                        *)

Sent(c, a, b) == [cmd |-> c, from |-> a, to |-> b] \in msgs

IdComes(a, b) == a \in idList[b] \/ Sent("SEND_ID", a, b)
AliveComes(a, b) == a \in aliveList[b] \/ Sent("ALIVE", a, b)

\* A step of b will look at what it has received since a has last cycled.
Listens(b, a) == state[b] = "PASSIVE" /\ (callsCounter[b] = 0 \/ Ahead(b, a))

\* b has heard of somebody better.
Beaten(b) == \E id \in idList[b] : id > b

\* The next step of n ends its election.
Ends(n) == state[n] = "ELECTION" /\ callsCounter[n] = 0

\* What b has or will get of a: the id of a rival, as long as b can still use it;
\* the ALIVE of a leader, before b decides to run for election; of two HADs about
\* to end their elections the one that cycles first has the other's id; and whoever
\* still runs against a leader is going to lose.
Pair(a, b) ==
    /\ state[a] = "ELECTION" /\ (state[b] = "ELECTION" \/ Listens(b, a))
           => IdComes(a, b)
    /\ state[a] = "LEADER" /\ Listens(b, a) => AliveComes(a, b)
    /\ Ends(a) /\ Ends(b) /\ Ahead(b, a) => a \in idList[b]
    /\ state[a] = "LEADER" /\ state[b] = "ELECTION"
           => \/ a \in aliveList[b] \/ Beaten(b)
              \/ Sent("ALIVE", a, b) /\ (callsCounter[b] # 0 \/ Ahead(a, b))

Pairs == \A a, b \in Node : a # b => Pair(a, b)
NoPrimaries == \A n \in Node : usePrimary[n] = FALSE

\* The inductive invariant.
SyncInv == SyncTypeOK /\ NoPrimaries /\ Pairs /\ SingleLeader

\* What does not touch a pair keeps it.
LEMMA PairFrame ==
    ASSUME NEW a \in Node, NEW b \in Node, Pair(a, b),
           state'[a] = state[a], state'[b] = state[b],
           callsCounter'[a] = callsCounter[a], callsCounter'[b] = callsCounter[b],
           idList[b] \subseteq idList'[b], aliveList[b] \subseteq aliveList'[b],
           Sent("SEND_ID", a, b) => IdComes(a, b)',
           Sent("ALIVE", a, b) => Sent("ALIVE", a, b)' \/ a \in aliveList'[b],
           Ahead(a, b)' <=> Ahead(a, b), Ahead(b, a)' <=> Ahead(b, a)
    PROVE  Pair(a, b)'
<1>1. Listens(b, a)' <=> Listens(b, a)
  BY DEF Listens
<1>2. (Ends(a)' <=> Ends(a)) /\ (Ends(b)' <=> Ends(b))
  BY DEF Ends
<1>3. IdComes(a, b) => IdComes(a, b)'
  BY DEF IdComes
<1>4. AliveComes(a, b) => AliveComes(a, b)'
  BY DEF AliveComes
<1>5. Beaten(b) => Beaten(b)'
  BY DEF Beaten
<1>6. state'[a] = "ELECTION" /\ (state'[b] = "ELECTION" \/ Listens(b, a)')
        => IdComes(a, b)'
  BY <1>1, <1>3 DEF Pair
<1>7. state'[a] = "LEADER" /\ Listens(b, a)' => AliveComes(a, b)'
  BY <1>1, <1>4 DEF Pair
<1>8. Ends(a)' /\ Ends(b)' /\ Ahead(b, a)' => a \in idList'[b]
  BY <1>2 DEF Pair
<1>9. state'[a] = "LEADER" /\ state'[b] = "ELECTION"
        => \/ a \in aliveList'[b] \/ Beaten(b)'
           \/ Sent("ALIVE", a, b)' /\ (callsCounter'[b] # 0 \/ Ahead(a, b)')
  BY <1>5 DEF Pair
<1> QED
  BY ZenonT(60), <1>6, <1>7, <1>8, <1>9 DEF Pair

\* A pair of which one does not take part in the election is nothing to keep.
LEMMA PairIdle ==
    ASSUME NEW a \in Node, NEW b \in Node,
           state[a] \in {"DOWN", "PRE"} \/ state[b] \in {"DOWN", "PRE"}
    PROVE  Pair(a, b)
BY DEF Pair, Listens, Ends

\* What a call of cycle does to the state it works on (cycle, step).
LEMMA CycleFacts ==
    ASSUME TypeOK, NoPrimaries, NEW n \in Node, cycle(n)
    PROVE  /\ state[n] # "DOWN"
           /\ \A k \in Node \ {n} :
                 /\ state'[k] = state[k] /\ callsCounter'[k] = callsCounter[k]
                 /\ idList'[k] = idList[k] /\ aliveList'[k] = aliveList[k]
           /\ IF callsCounter[n] = 0
              THEN callsCounter'[n] = 1
              ELSE /\ callsCounter'[n] = 0 /\ state'[n] = state[n]
                   /\ idList'[n] = idList[n] /\ aliveList'[n] = aliveList[n]
           /\ usePrimary' = usePrimary
<1>1. usePrimary[n] = FALSE
  BY DEF NoPrimaries
<1>2. /\ state[n] # "DOWN" /\ usePrimary' = usePrimary
      /\ callsCounter' = [callsCounter EXCEPT ![n] = NextCall(n)]
  BY DEF cycle
<1>3. \A k \in Node \ {n} :
          /\ state'[k] = state[k]
          /\ idList'[k] = idList[k] /\ aliveList'[k] = aliveList[k]
  BY SMTT(30) DEF cycle, step, StepPre, StepToElection, StepStayPassive, StepLoseElection,
         StepWinElection, StepYield, StepLead, clearBuffers, buffers, TypeOK
<1>4. callsCounter[n] # 0
        => /\ state'[n] = state[n]
           /\ idList'[n] = idList[n] /\ aliveList'[n] = aliveList[n]
  BY DEF cycle, buffers
<1>5. callsCounter[n] \in {0, 1}
  BY SMTT(30) DEF TypeOK, Factor
<1>6. /\ callsCounter[n] = 0 => NextCall(n) = 1
      /\ callsCounter[n] = 1 => NextCall(n) = 0
  BY SMTT(30) DEF NextCall, Factor
<1>7. /\ callsCounter'[n] = NextCall(n)
      /\ \A k \in Node \ {n} : callsCounter'[k] = callsCounter[k]
  BY <1>2 DEF TypeOK
<1> QED
  BY <1>2, <1>3, <1>4, <1>5, <1>6, <1>7

\* How a HAD comes to take part in an election, and how it wins one (step).
LEMMA StepFacts ==
    ASSUME TypeOK, NoPrimaries, NEW n \in Node, cycle(n), callsCounter[n] = 0
    PROVE  /\ state'[n] = "ELECTION"
                => /\ state[n] = "PASSIVE" /\ aliveList[n] = {}
                   /\ idList'[n] = idList[n] /\ aliveList'[n] = aliveList[n]
           /\ state'[n] = "LEADER" /\ state[n] # "LEADER"
                => /\ state[n] = "ELECTION" /\ aliveList[n] = {}
                   /\ \A id \in idList[n] : id <= n
<1>1. step(n) /\ usePrimary[n] = FALSE
  BY DEF cycle, NoPrimaries
<1>2. CASE StepToElection(n)
  <2>1. state'[n] = "ELECTION"
    BY <1>2 DEF StepToElection, TypeOK
  <2> QED
    BY <1>1, <1>2, <2>1 DEF StepToElection, IsPrimary, buffers
<1>3. CASE StepWinElection(n)
  <2>1. state'[n] = "LEADER"
    BY <1>3 DEF StepWinElection, TypeOK
  <2> QED
    BY <1>1, <1>3, <2>1 DEF StepWinElection, LosesElection, IsPrimary, checkList
<1>4. CASE StepPre(n) \/ StepLoseElection(n) \/ StepYield(n)
  <2>1. state'[n] = "PASSIVE"
    BY <1>4 DEF StepPre, StepLoseElection, StepYield, TypeOK
  <2> QED
    BY <2>1
<1>5. CASE StepStayPassive(n)
  BY <1>5 DEF StepStayPassive
<1>6. CASE StepLead(n)
  BY <1>6 DEF StepLead
<1> QED
  BY ZenonT(60), <1>1, <1>2, <1>3, <1>4, <1>5, <1>6 DEF step

\* What a call of cycle sends to a HAD that runs (sendMessages).
LEMMA SendFacts ==
    ASSUME NEW n \in Node, cycle(n), NEW b \in Node, b # n, state[b] # "DOWN"
    PROVE  /\ msgs \subseteq msgs'
           /\ state'[n] = "ELECTION" => Sent("SEND_ID", n, b)'
           /\ state'[n] = "LEADER" => Sent("ALIVE", n, b)'
<1>1. sendMessages(n) /\ b \in Peers(n)
  BY DEF cycle, Peers
<1>2. msgs \subseteq msgs'
  BY <1>1 DEF sendMessages
<1>3. state'[n] = "ELECTION" => Sent("SEND_ID", n, b)'
  BY <1>1 DEF sendMessages, CommandOf, Sent
<1>4. state'[n] = "LEADER" => Sent("ALIVE", n, b)'
  BY <1>1 DEF sendMessages, CommandOf, Sent
<1> QED
  BY <1>2, <1>3, <1>4

\* The schedule before and after the turn of n (SyncCycle).
LEMMA TurnFacts ==
    ASSUME SyncTypeOK, NEW n \in Node, Turn(n),
           schedule' = Append(Tail(schedule), n)
    PROVE  /\ schedule' \in Seq(Place) /\ Distinct(schedule')
           /\ Range(schedule') = Range(schedule)
           /\ \A p \in Place : ~Ahead(p, n)
           /\ \A p \in Range(schedule) \ {n} : Ahead(p, n)'
           /\ \A b \in Node \ {n} : state[b] # "DOWN"
                => /\ Ahead(n, b) /\ ~Ahead(b, n)
                   /\ Ahead(b, n)' /\ ~Ahead(n, b)'
           /\ \A a, b \in Place \ {n} : Ahead(a, b)' <=> Ahead(a, b)
<1>1. /\ schedule \in Seq(Place) /\ Distinct(schedule)
      /\ schedule # <<>> /\ Head(schedule) = n
  BY DEF SyncTypeOK, Distinct, Turn
<1>2. ASSUME NEW b \in Node, b # n, state[b] # "DOWN"
      PROVE  b \in Range(schedule)
  BY <1>2 DEF SyncTypeOK, Running
<1>3. /\ schedule' \in Seq(Place) /\ Distinct(schedule')
      /\ Range(schedule') = Range(schedule)
      /\ \A a \in Range(schedule) \ {n} :
            AheadIn(schedule', a, n) /\ ~AheadIn(schedule', n, a)
      /\ \A a, b \in Place \ {n} :
            AheadIn(schedule', a, b) <=> AheadIn(schedule, a, b)
  BY <1>1, HeadGoesLast
<1>4. \A a \in Range(schedule) \ {n} :
          AheadIn(schedule, n, a) /\ ~AheadIn(schedule, a, n)
  BY <1>1, HeadIsAhead
<1>5. ~AheadIn(schedule, n, n)
  BY SMTT(30), <1>1 DEF AheadIn, Distinct
<1>6. \A p \in Place : AheadIn(schedule, p, n) => p \in Range(schedule)
  BY DEF AheadIn, Range
<1> QED
  BY <1>2, <1>3, <1>4, <1>5, <1>6 DEF Ahead

\* The places that the schedule has after each step, with faults of every kind and
\* with primaries (SyncNext).
LEMMA ScheduleKept ==
    ASSUME SyncTypeOK, TypeOK', [SyncNext]_syncVars
    PROVE  SyncTypeOK'
<1>1. /\ TypeOK /\ schedule \in Seq(Place) /\ Distinct(schedule)
      /\ Running \subseteq Range(schedule) /\ early \in [Node -> Nat]
  BY DEF SyncTypeOK, Distinct
<1>0. early' \in [Node -> Nat]
  <2>1. ASSUME NEW n \in Node, NEW i \in Nat, early' = [early EXCEPT ![n] = i]
        PROVE  early' \in [Node -> Nat]
    BY <1>1, <2>1
  <2>2. \A n \in Node : 0 \in Nat /\ early[n] + 1 \in Nat
    BY SMTT(30), <1>1
  <2> QED BY <1>1, <2>1, <2>2
    DEF SyncNext, syncVars, SyncStart, SyncCycle, SyncEarlyCycle, SyncPass,
        SyncPassFormer, SyncEnd, SyncReinitialize, SyncSoft, SyncReceive,
        SyncReceiveCopy, SyncLose, InTurn
<1>2. ASSUME schedule' \in Seq(Place), Distinct(schedule'),
             Running' \subseteq Range(schedule')
      PROVE  SyncTypeOK'
  BY <1>0, <1>2 DEF SyncTypeOK, Distinct
<1>3. ASSUME schedule' = schedule, Running' \subseteq Running
      PROVE  SyncTypeOK'
  BY <1>1, <1>2, <1>3
<1>4. ASSUME NEW n \in Node, Fresh(n), schedule' = First(n)
      PROVE  SyncTypeOK'
  <2>1. \A k \in Node \ {n} : state'[k] = state[k]
    BY ZenonT(60), <1>1, <1>4 DEF Fresh, TypeOK
  <2>2. /\ schedule' \in Seq(Place) /\ Distinct(schedule')
        /\ Range(schedule) \cup {n} \subseteq Range(schedule')
    <3>1. /\ schedule' \in Seq(Place) /\ Distinct(schedule')
          /\ Range(schedule') = Range(Others(n)) \cup {n}
          /\ Range(schedule) \ {n} \subseteq Range(schedule')
      BY <1>1, <1>4, FirstKeepsOrder
    <3> QED
      BY <3>1
  <2> QED
    BY <1>1, <1>2, <2>1, <2>2 DEF Running
<1>5. ASSUME NEW n \in Node, SyncCycle(n) \/ SyncEarlyCycle(n)
      PROVE  SyncTypeOK'
  <2>1. /\ schedule' \in Seq(Place) /\ Distinct(schedule')
        /\ Range(schedule') = Range(schedule)
    BY <1>1, <1>5, TurnFacts DEF SyncCycle, SyncEarlyCycle
  <2>2. cycle(n) /\ n \in Running
    BY <1>5 DEF SyncCycle, SyncEarlyCycle, cycle, Running
  <2>3. \A k \in Node \ {n} : state'[k] = state[k]
    BY ZenonT(60), <1>1, <2>2 DEF cycle, step, StepPre, StepToElection, StepStayPassive,
         StepLoseElection, StepWinElection, StepYield, StepLead, TypeOK
  <2> QED
    BY ZenonT(60), <1>1, <1>2, <2>1, <2>2, <2>3 DEF Running
<1>6. ASSUME NEW n \in Node, SyncPass(n)
      PROVE  SyncTypeOK'
  <2>1. Turn(n) /\ n \notin Running /\ schedule' = Tail(schedule) /\ state' = state
    BY <1>6 DEF SyncPass, Running, vars
  <2>2. n \in Place
    BY DEF Place
  <2>3. /\ schedule' \in Seq(Place) /\ Distinct(schedule')
        /\ Range(schedule') = Range(schedule) \ {n}
    BY <1>1, <2>1, <2>2, PassingKeepsOrder
  <2> QED
    BY <1>1, <1>2, <2>1, <2>3 DEF Running
<1>7. ASSUME NEW n \in Node, SyncEnd(n)
      PROVE  SyncTypeOK'
  <2>1. schedule' = schedule /\ Ended(n)
    BY <1>7 DEF SyncEnd, Exit, MachineDown, Shutdown
  <2>2. Running' \subseteq Running
    BY <1>1, <2>1 DEF Ended, Running, TypeOK
  <2> QED
    BY <1>3, <2>1, <2>2
<1>8. ASSUME NEW n \in Node, SyncStart(n) \/ SyncReinitialize(n)
      PROVE  SyncTypeOK'
  BY <1>4, <1>8 DEF SyncStart, SyncReinitialize, initialize, reinitialize
<1>9. ASSUME schedule' = schedule, state' = state
      PROVE  SyncTypeOK'
  BY <1>3, <1>9 DEF Running
<1>10. ASSUME NEW n \in Node, SyncSoft(n)
       PROVE  SyncTypeOK'
  BY <1>9, <1>10 DEF SyncSoft, softReconfigure
<1>11. ASSUME NEW m \in msgs, SyncReceive(m) \/ SyncReceiveCopy(m) \/ SyncLose(m)
       PROVE  SyncTypeOK'
  BY <1>9, <1>11 DEF SyncReceive, SyncReceiveCopy, SyncLose, commandHandlerHad,
                     HandleCopy, Deliver, Lose
<1>12. ASSUME NEW n \in Node, SyncPassFormer(n)
       PROVE  SyncTypeOK'
  <2>1. Turn(Former(n)) /\ schedule' = Tail(schedule) /\ state' = state
    BY <1>12 DEF SyncPassFormer, vars
  <2>2. Former(n) \in Place /\ Former(n) \notin Node
    BY FormerFacts
  <2>3. /\ schedule' \in Seq(Place) /\ Distinct(schedule')
        /\ Range(schedule') = Range(schedule) \ {Former(n)}
    BY <1>1, <2>1, <2>2, PassingKeepsOrder
  <2> QED
    BY <1>1, <1>2, <2>1, <2>2, <2>3 DEF Running
<1>13. CASE UNCHANGED syncVars
  BY <1>9, <1>13 DEF syncVars, vars
<1> QED
  BY <1>5, <1>6, <1>7, <1>8, <1>10, <1>11, <1>12, <1>13 DEF SyncNext

\* A cycle has nothing of its sender left to be handled.
LEMMA NothingUnderway ==
    ASSUME NEW n \in Node, Handled(n), NEW c, NEW b
    PROVE  ~Sent(c, n, b)
BY DEF Handled, Sent

\* What others know of n, after its turn.
LEMMA CycleFrom ==
    ASSUME SyncTypeOK, NoPrimaries, Pairs, NEW n \in Node, SyncCycle(n),
           NEW b \in Node, b # n
    PROVE  Pair(n, b)'
<1>1. TypeOK /\ cycle(n) /\ Turn(n) /\ schedule' = Append(Tail(schedule), n)
  BY DEF SyncTypeOK, SyncCycle
<1>2. /\ state'[b] = state[b] /\ callsCounter'[b] = callsCounter[b]
      /\ idList'[b] = idList[b] /\ aliveList'[b] = aliveList[b]
  BY <1>1, CycleFacts
<1>3. Pair(n, b) /\ Pair(b, n)
  BY DEF Pairs
<1>4. CASE state[b] = "DOWN"
  <2>1. state'[b] = "DOWN"
    BY <1>2, <1>4
  <2> QED
    BY <2>1 DEF Pair, Listens, Ends
<1>5. CASE state[b] # "DOWN"
  <2>1. /\ state'[n] = "ELECTION" => Sent("SEND_ID", n, b)'
        /\ state'[n] = "LEADER" => Sent("ALIVE", n, b)'
    BY <1>1, <1>5, SendFacts
  <2>2. Ahead(n, b)
    BY <1>1, <1>5, TurnFacts
  <2>3. state'[n] = "ELECTION" => IdComes(n, b)'
    BY <2>1 DEF IdComes
  <2>4. state'[n] = "LEADER" => AliveComes(n, b)'
    BY <2>1 DEF AliveComes
  <2>5. state[n] = "ELECTION" /\ state[b] = "ELECTION" => n \in idList[b]
    <3> SUFFICES ASSUME state[n] = "ELECTION", state[b] = "ELECTION"
                 PROVE  n \in idList[b]
      OBVIOUS
    <3>1. Handled(n)
      BY DEF SyncCycle
    <3>2. IdComes(n, b)
      BY <1>3 DEF Pair
    <3> QED
      BY <3>1, <3>2, NothingUnderway DEF IdComes
  <2>6. Ends(n)' /\ Ends(b)' => n \in idList'[b]
    <3> SUFFICES ASSUME Ends(n)', Ends(b)'
                 PROVE  n \in idList'[b]
      OBVIOUS
    <3>1. state'[n] = "ELECTION" /\ callsCounter'[n] = 0 /\ state'[b] = "ELECTION"
      BY DEF Ends
    <3>2. callsCounter[n] # 0 /\ state'[n] = state[n]
      BY SMTT(30), <1>1, <3>1, CycleFacts
    <3> QED
      BY <1>2, <2>5, <3>1, <3>2
  <2>7. ASSUME state'[n] = "LEADER", state'[b] = "ELECTION"
        PROVE  \/ n \in aliveList'[b] \/ Beaten(b)'
               \/ Sent("ALIVE", n, b)' /\ (callsCounter'[b] # 0 \/ Ahead(n, b)')
    <3>1. state[b] = "ELECTION"
      BY <1>2, <2>7
    <3>2. CASE state[n] = "LEADER"
      <4>1. Handled(n)
        BY <3>2 DEF SyncCycle
      <4>2. ~Sent("ALIVE", n, b)
        BY <4>1, NothingUnderway
      <4>3. n \in aliveList[b] \/ Beaten(b)
        BY <1>3, <3>1, <3>2, <4>2 DEF Pair
      <4> QED
        BY <1>2, <4>3 DEF Beaten
    <3>3. CASE state[n] # "LEADER"
      <4>1. callsCounter[n] = 0
        BY <1>1, <2>7, <3>3, CycleFacts
      <4>2. state[n] = "ELECTION" /\ \A id \in idList[n] : id <= n
        BY <1>1, <2>7, <3>3, <4>1, StepFacts
      <4>3. CASE callsCounter[b] # 0
        BY <1>2, <2>1, <2>7, <4>3
      <4>4. CASE callsCounter[b] = 0
        <5>1. b \in idList[n]
          BY <1>3, <2>2, <3>1, <4>1, <4>2, <4>4 DEF Pair, Ends
        <5>2. b <= n
          BY <4>2, <5>1
        <5>3. n > b
          BY SMTT(30), <5>2, HADAssumption DEF Node
        <5>4. n \in idList'[b]
          BY <1>2, <2>5, <3>1, <4>2
        <5> QED
          BY <5>3, <5>4 DEF Beaten
      <4> QED
        BY <4>3, <4>4
    <3> QED
      BY <3>2, <3>3
  <2> QED
    BY <2>3, <2>4, <2>6, <2>7 DEF Pair
<1> QED
  BY <1>4, <1>5

\* What n knows of others, after its turn.
LEMMA CycleTo ==
    ASSUME SyncTypeOK, NoPrimaries, Pairs, NEW n \in Node, SyncCycle(n),
           NEW a \in Node, a # n
    PROVE  Pair(a, n)'
<1>1. TypeOK /\ cycle(n) /\ Turn(n) /\ schedule' = Append(Tail(schedule), n)
  BY DEF SyncTypeOK, SyncCycle
<1>2. state'[a] = state[a]
  BY <1>1, CycleFacts
<1>3. Pair(a, n)
  BY DEF Pairs
<1>4. CASE state[a] = "DOWN"
  <2>1. state'[a] = "DOWN"
    BY <1>2, <1>4
  <2> QED
    BY <2>1 DEF Pair, Ends
<1>5. CASE state[a] # "DOWN"
  <2>1. Ahead(n, a) /\ Ahead(a, n)' /\ ~Ahead(n, a)'
    BY <1>1, <1>5, TurnFacts
  <2>2. /\ Sent("SEND_ID", a, n) => Sent("SEND_ID", a, n)'
        /\ Sent("ALIVE", a, n) => Sent("ALIVE", a, n)'
    BY ZenonT(60), <1>1, <1>5, SendFacts DEF Sent
  <2>3. callsCounter[n] # 0
          => /\ state'[n] = state[n] /\ callsCounter'[n] = 0
             /\ idList'[n] = idList[n] /\ aliveList'[n] = aliveList[n]
    BY <1>1, CycleFacts
  <2>4. ASSUME Listens(n, a)'
        PROVE  callsCounter[n] # 0 /\ Listens(n, a)
    <3>1. state'[n] = "PASSIVE" /\ callsCounter'[n] = 0
      BY <2>1, <2>4 DEF Listens
    <3>2. callsCounter[n] # 0
      BY SMTT(30), <1>1, <3>1, CycleFacts
    <3> QED
      BY <2>1, <2>3, <3>1, <3>2 DEF Listens
  <2>5. ASSUME state'[n] = "ELECTION"
        PROVE  /\ state[n] = "ELECTION" \/ (Listens(n, a) /\ aliveList[n] = {})
               /\ idList'[n] = idList[n] /\ aliveList'[n] = aliveList[n]
    <3>1. CASE callsCounter[n] # 0
      BY <2>3, <2>5, <3>1
    <3>2. CASE callsCounter[n] = 0
      BY <1>1, <2>5, <3>2, StepFacts DEF Listens
    <3> QED
      BY <3>1, <3>2
  <2>6. ASSUME state'[a] = "ELECTION", state'[n] = "ELECTION" \/ Listens(n, a)'
        PROVE  IdComes(a, n)'
    <3>1. /\ state[n] = "ELECTION" \/ Listens(n, a)
          /\ idList'[n] = idList[n]
      BY <2>3, <2>4, <2>5, <2>6
    <3>2. IdComes(a, n)
      BY <1>2, <1>3, <2>6, <3>1 DEF Pair
    <3> QED
      BY <2>2, <3>1, <3>2 DEF IdComes
  <2>7. ASSUME state'[a] = "LEADER", Listens(n, a)'
        PROVE  AliveComes(a, n)'
    <3>1. Listens(n, a) /\ aliveList'[n] = aliveList[n]
      BY <2>3, <2>4, <2>7
    <3>2. AliveComes(a, n)
      BY <1>2, <1>3, <2>7, <3>1 DEF Pair
    <3> QED
      BY <2>2, <3>1, <3>2 DEF AliveComes
  <2>8. ASSUME state'[a] = "LEADER", state'[n] = "ELECTION"
        PROVE  \/ a \in aliveList'[n] \/ Beaten(n)'
               \/ Sent("ALIVE", a, n)' /\ Ahead(a, n)'
    <3>1. /\ idList'[n] = idList[n] /\ aliveList'[n] = aliveList[n]
          /\ state[a] = "LEADER"
      BY <1>2, <2>5, <2>8
    <3>2. CASE state[n] = "ELECTION"
      <4>1. a \in aliveList[n] \/ Beaten(n) \/ Sent("ALIVE", a, n)
        BY <1>3, <3>1, <3>2 DEF Pair
      <4> QED
        BY <2>1, <2>2, <3>1, <4>1 DEF Beaten
    <3>3. CASE Listens(n, a) /\ aliveList[n] = {}
      <4>1. AliveComes(a, n)
        BY <1>3, <3>1, <3>3 DEF Pair
      <4> QED
        BY <2>1, <2>2, <3>3, <4>1 DEF AliveComes
    <3> QED
      BY <2>5, <2>8, <3>2, <3>3
  <2> QED
    BY <2>1, <2>6, <2>7, <2>8 DEF Pair
<1> QED
  BY <1>4, <1>5

\* Whoever has no id above its own is not beaten (checkList).
LEMMA NotBeaten ==
    ASSUME TypeOK, NEW n \in Node, \A id \in idList[n] : id <= n
    PROVE  ~Beaten(n)
<1> SUFFICES ASSUME NEW id \in idList[n], id > n
             PROVE  FALSE
  BY DEF Beaten
<1>1. idList[n] \subseteq Node
  BY DEF TypeOK
<1>2. id \in Int /\ n \in Int /\ id <= n
  BY SMTT(30), <1>1, HADAssumption DEF Node
<1> QED
  BY SMTT(30), <1>2

\* No cycle makes a second leader: whoever wins has heard nothing of one.
LEMMA CycleSingle ==
    ASSUME SyncInv, NEW n \in Node, SyncCycle(n)
    PROVE  SingleLeader'
<1>1. /\ SyncTypeOK /\ NoPrimaries /\ Pairs /\ SingleLeader
      /\ TypeOK /\ cycle(n) /\ Turn(n) /\ schedule' = Append(Tail(schedule), n)
  BY DEF SyncInv, SyncTypeOK, SyncCycle
<1>2. \A k \in Node \ {n} : state'[k] = state[k]
  BY <1>1, CycleFacts
<1>3. ASSUME state'[n] = "LEADER", NEW b \in Node, b # n, state[b] = "LEADER"
      PROVE  FALSE
  <2>1. state[n] # "LEADER"
    BY <1>1, <1>3 DEF SingleLeader, Leaders
  <2>2. callsCounter[n] = 0
    BY <1>1, <1>3, <2>1, CycleFacts
  <2>3. /\ state[n] = "ELECTION" /\ aliveList[n] = {}
        /\ \A id \in idList[n] : id <= n
    BY <1>1, <1>3, <2>1, <2>2, StepFacts
  <2>4. ~Beaten(n)
    BY <1>1, <2>3, NotBeaten
  <2>5. ~Ahead(b, n)
    BY <1>1, <1>3, TurnFacts
  <2>6. Pair(b, n)
    BY <1>1, <1>3 DEF Pairs
  <2> QED
    BY <1>3, <2>2, <2>3, <2>4, <2>5, <2>6 DEF Pair
<1> QED
  BY <1>1, <1>2, <1>3 DEF SingleLeader, Leaders

\* No step but a turn makes a leader.
LEMMA NoNewLeader ==
    ASSUME SingleLeader, \A k \in Node : state'[k] = "LEADER" => state[k] = "LEADER"
    PROVE  SingleLeader'
BY DEF SingleLeader, Leaders

\* The turn of a HAD keeps the invariant.
LEMMA CycleKeeps ==
    ASSUME SyncInv, SyncTypeOK', NEW n \in Node, SyncCycle(n)
    PROVE  SyncInv'
<1>1. /\ SyncTypeOK /\ NoPrimaries /\ Pairs
      /\ TypeOK /\ cycle(n) /\ Turn(n) /\ schedule' = Append(Tail(schedule), n)
  BY DEF SyncInv, SyncTypeOK, SyncCycle
<1>2. /\ state[n] # "DOWN" /\ usePrimary' = usePrimary
      /\ \A k \in Node \ {n} :
            /\ state'[k] = state[k] /\ callsCounter'[k] = callsCounter[k]
            /\ idList'[k] = idList[k] /\ aliveList'[k] = aliveList[k]
  BY <1>1, CycleFacts
<1>3. ASSUME NEW a \in Node, NEW b \in Node, a # b
      PROVE  Pair(a, b)'
  <2>1. CASE a = n
    BY <1>1, <1>3, <2>1, CycleFrom
  <2>2. CASE b = n
    BY <1>1, <1>3, <2>2, CycleTo
  <2>3. CASE a # n /\ b # n
    <3>1. Pair(a, b)
      BY <1>1, <1>3 DEF Pairs
    <3>2. (Ahead(a, b)' <=> Ahead(a, b)) /\ (Ahead(b, a)' <=> Ahead(b, a))
      <4>1. a \in Place \ {n} /\ b \in Place \ {n}
        BY <2>3 DEF Place
      <4> QED
        BY <1>1, <4>1, TurnFacts
    <3>3. msgs \subseteq msgs'
      BY <1>1 DEF cycle, sendMessages
    <3>4. /\ Sent("SEND_ID", a, b) => IdComes(a, b)'
          /\ Sent("ALIVE", a, b) => Sent("ALIVE", a, b)'
      BY <3>3 DEF Sent, IdComes
    <3> QED
      BY <1>2, <2>3, <3>1, <3>2, <3>4, PairFrame
  <2> QED
    BY <2>1, <2>2, <2>3
<1>4. SingleLeader'
  BY CycleSingle
<1>5. NoPrimaries'
  BY <1>1, <1>2 DEF NoPrimaries
<1> QED
  BY <1>3, <1>4, <1>5 DEF SyncInv, Pairs

\* A HAD that is not taking part, before or after, leaves the others alone.
LEMMA AsideKeeps ==
    ASSUME SyncInv, SyncTypeOK', NEW n \in Node, state'[n] \in {"DOWN", "PRE"},
           usePrimary' = usePrimary,
           \A k \in Node \ {n} :
               /\ state'[k] = state[k] /\ callsCounter'[k] = callsCounter[k]
               /\ idList'[k] = idList[k] /\ aliveList'[k] = aliveList[k],
           \A m \in msgs : m.to # n => m \in msgs',
           \A a, b \in Node \ {n} : Ahead(a, b)' <=> Ahead(a, b)
    PROVE  SyncInv'
<1>1. NoPrimaries'
  BY DEF SyncInv, NoPrimaries
<1>2. SingleLeader'
  <2>1. state'[n] # "LEADER"
    OBVIOUS
  <2>2. \A k \in Node : state'[k] = "LEADER" => state[k] = "LEADER"
    BY <2>1
  <2> QED
    BY <2>2, NoNewLeader DEF SyncInv
<1>3. ASSUME NEW a \in Node, NEW b \in Node, a # b
      PROVE  Pair(a, b)'
  <2>1. CASE a = n \/ b = n
    <3>1. state'[a] \in {"DOWN", "PRE"} \/ state'[b] \in {"DOWN", "PRE"}
      BY <2>1
    <3> QED
      BY <3>1 DEF Pair, Listens, Ends
  <2>2. CASE a # n /\ b # n
    <3>1. Pair(a, b)
      BY ZenonT(60), <1>3 DEF SyncInv, Pairs
    <3>2. (Ahead(a, b)' <=> Ahead(a, b)) /\ (Ahead(b, a)' <=> Ahead(b, a))
      BY <2>2
    <3>3. ASSUME NEW c, Sent(c, a, b)
          PROVE  Sent(c, a, b)'
      BY <2>2, <3>3 DEF Sent
    <3>4. /\ Sent("SEND_ID", a, b) => IdComes(a, b)'
          /\ Sent("ALIVE", a, b) => Sent("ALIVE", a, b)'
      BY ZenonT(60), <3>3 DEF IdComes
    <3> QED
      BY ZenonT(60), <2>2, <3>1, <3>2, <3>4, PairFrame
  <2> QED
    BY <2>1, <2>2
<1> QED
  BY <1>1, <1>2, <1>3 DEF SyncInv, Pairs

\* The start of a HAD keeps the invariant (SyncStart).
LEMMA StartKeeps ==
    ASSUME SyncInv, SyncTypeOK', NEW n \in Node, SyncStart(n)
    PROVE  SyncInv'
<1>1. TypeOK /\ schedule \in Seq(Place) /\ Distinct(schedule)
  BY DEF SyncInv, SyncTypeOK, Distinct
<1>2. initialize(n) /\ Fresh(n) /\ schedule' = First(n)
  BY DEF SyncStart, initialize
<1>3. /\ state'[n] = "PRE" /\ usePrimary' = usePrimary /\ msgs' = msgs
      /\ \A k \in Node \ {n} :
            /\ state'[k] = state[k] /\ callsCounter'[k] = callsCounter[k]
            /\ idList'[k] = idList[k] /\ aliveList'[k] = aliveList[k]
  BY SMTT(30), <1>1, <1>2 DEF initialize, Fresh, clearBuffers, TypeOK
<1>4. \A a, b \in Place \ {n, Former(n)} : Ahead(a, b)' <=> Ahead(a, b)
  BY <1>1, <1>2, FirstKeepsOrder DEF Ahead
<1>5. \A a, b \in Node \ {n} : Ahead(a, b)' <=> Ahead(a, b)
  BY <1>4, FormerFacts DEF Place
<1> QED
  BY <1>3, <1>5, AsideKeeps

\* The end of a HAD keeps the invariant (SyncEnd).
LEMMA EndKeeps ==
    ASSUME SyncInv, SyncTypeOK', NEW n \in Node, SyncEnd(n)
    PROVE  SyncInv'
<1>1. TypeOK
  BY DEF SyncInv, SyncTypeOK
<1>2. Ended(n) /\ schedule' = schedule
  BY DEF SyncEnd, Exit, MachineDown, Shutdown
<1>3. /\ state'[n] = "DOWN" /\ usePrimary' = usePrimary
      /\ \A m \in msgs : m.to # n => m \in msgs'
      /\ \A k \in Node \ {n} :
            /\ state'[k] = state[k] /\ callsCounter'[k] = callsCounter[k]
            /\ idList'[k] = idList[k] /\ aliveList'[k] = aliveList[k]
  BY <1>1, <1>2 DEF Ended, clearBuffers, TypeOK
<1>4. \A a, b \in Node \ {n} : Ahead(a, b)' <=> Ahead(a, b)
  BY <1>2 DEF Ahead
<1> QED
  BY ZenonT(60), <1>3, <1>4, AsideKeeps

\* The passing of its moment keeps the invariant (SyncPass).
LEMMA PassKeeps ==
    ASSUME SyncInv, SyncTypeOK', NEW n \in Node, SyncPass(n)
    PROVE  SyncInv'
<1>1. schedule \in Seq(Place) /\ Distinct(schedule)
  BY DEF SyncInv, SyncTypeOK, Distinct
<1>2. /\ Turn(n) /\ state[n] = "DOWN" /\ schedule' = Tail(schedule)
      /\ state' = state /\ callsCounter' = callsCounter /\ msgs' = msgs
      /\ idList' = idList /\ aliveList' = aliveList /\ usePrimary' = usePrimary
  BY DEF SyncPass, vars
<1>3. \A a, b \in Place \ {n} : Ahead(a, b)' <=> Ahead(a, b)
  BY <1>1, <1>2, FormerFacts, PassingKeepsOrder DEF Ahead
<1>4. \A a, b \in Node \ {n} : Ahead(a, b)' <=> Ahead(a, b)
  BY <1>3 DEF Place
<1> QED
  BY <1>2, <1>4, AsideKeeps

\* A step without a transition keeps the invariant if what it takes from the
\* commands in flight goes into a buffer.
LEMMA QuietKeeps ==
    ASSUME SyncInv, SyncTypeOK', state' = state, callsCounter' = callsCounter,
           usePrimary' = usePrimary,
           \A a, b \in Node : Ahead(a, b)' <=> Ahead(a, b),
           \A b \in Node : /\ idList[b] \subseteq idList'[b]
                           /\ aliveList[b] \subseteq aliveList'[b],
           \A a, b \in Node :
               /\ Sent("SEND_ID", a, b) => IdComes(a, b)'
               /\ Sent("ALIVE", a, b) => AliveComes(a, b)'
    PROVE  SyncInv'
<1>1. NoPrimaries' /\ SingleLeader'
  BY DEF SyncInv, NoPrimaries, SingleLeader, Leaders
<1>2. ASSUME NEW a \in Node, NEW b \in Node, a # b
      PROVE  Pair(a, b)'
  <2>1. Pair(a, b)
    BY <1>2 DEF SyncInv, Pairs
  <2>2. (Ahead(a, b)' <=> Ahead(a, b)) /\ (Ahead(b, a)' <=> Ahead(b, a))
    OBVIOUS
  <2>3. /\ Sent("SEND_ID", a, b) => IdComes(a, b)'
        /\ Sent("ALIVE", a, b) => Sent("ALIVE", a, b)' \/ a \in aliveList'[b]
    BY DEF AliveComes
  <2> QED
    BY ZenonT(60), <2>1, <2>2, <2>3, PairFrame
<1> QED
  BY <1>1, <1>2 DEF SyncInv, Pairs

\* The passing of a former place keeps the invariant (SyncPassFormer).
LEMMA PassFormerKeeps ==
    ASSUME SyncInv, SyncTypeOK', NEW n \in Node, SyncPassFormer(n)
    PROVE  SyncInv'
<1>1. schedule \in Seq(Place) /\ Distinct(schedule)
  BY DEF SyncInv, SyncTypeOK, Distinct
<1>2. /\ Turn(Former(n)) /\ schedule' = Tail(schedule)
      /\ state' = state /\ callsCounter' = callsCounter /\ msgs' = msgs
      /\ idList' = idList /\ aliveList' = aliveList /\ usePrimary' = usePrimary
  BY DEF SyncPassFormer, vars
<1>3. Former(n) \in Place /\ Former(n) \notin Node
  BY FormerFacts
<1>4. \A a, b \in Place \ {Former(n)} : Ahead(a, b)' <=> Ahead(a, b)
  BY <1>1, <1>2, <1>3, PassingKeepsOrder DEF Ahead
<1>5. \A a, b \in Node : Ahead(a, b)' <=> Ahead(a, b)
  BY <1>3, <1>4 DEF Place
<1> QED
  BY <1>2, <1>5, QuietKeeps DEF IdComes, AliveComes, Sent

\* The handling of a command keeps the invariant (SyncReceive).
LEMMA ReceiveKeeps ==
    ASSUME SyncInv, SyncTypeOK', NEW m \in msgs, SyncReceive(m)
    PROVE  SyncInv'
<1>1. TypeOK /\ m \in Message /\ m.to \in Node /\ m.from \in Node
  BY DEF SyncInv, SyncTypeOK, TypeOK, Message
<1>2. Deliver(m) /\ msgs' = msgs \ {m} /\ schedule' = schedule
  BY DEF SyncReceive, commandHandlerHad
<1>3. /\ state' = state /\ callsCounter' = callsCounter /\ usePrimary' = usePrimary
  BY <1>2 DEF Deliver
<1>4. \A b \in Node : /\ idList[b] \subseteq idList'[b]
                      /\ aliveList[b] \subseteq aliveList'[b]
  BY <1>1, <1>2 DEF Deliver, TypeOK
<1>5. ASSUME NEW a \in Node, NEW b \in Node
      PROVE  /\ Sent("SEND_ID", a, b) => IdComes(a, b)'
             /\ Sent("ALIVE", a, b) => AliveComes(a, b)'
  <2>1. ASSUME Sent("SEND_ID", a, b)
        PROVE  IdComes(a, b)'
    <3>1. CASE m = [cmd |-> "SEND_ID", from |-> a, to |-> b]
      BY ZenonT(60), <1>1, <1>2, <3>1 DEF Deliver, IdComes, TypeOK
    <3>2. CASE m # [cmd |-> "SEND_ID", from |-> a, to |-> b]
      BY <1>2, <2>1, <3>2 DEF IdComes, Sent
    <3> QED
      BY <3>1, <3>2
  <2>2. ASSUME Sent("ALIVE", a, b)
        PROVE  AliveComes(a, b)'
    <3>1. CASE m = [cmd |-> "ALIVE", from |-> a, to |-> b]
      BY <1>1, <1>2, <3>1 DEF Deliver, AliveComes, TypeOK
    <3>2. CASE m # [cmd |-> "ALIVE", from |-> a, to |-> b]
      BY <1>2, <2>2, <3>2 DEF AliveComes, Sent
    <3> QED
      BY <3>1, <3>2
  <2> QED
    BY <2>1, <2>2
<1>6. \A a, b \in Node : Ahead(a, b)' <=> Ahead(a, b)
  BY <1>2 DEF Ahead
<1> QED
  BY <1>3, <1>4, <1>5, <1>6, QuietKeeps

----------------------------------------------------------------------------
\* The timing only leaves out behaviours: a step of HADSync is one of HAD.
LEMMA SyncStepIsStep ==
    [SyncNext]_syncVars => [Next]_vars
<1> SUFFICES ASSUME [SyncNext]_syncVars
             PROVE  [Next]_vars
  OBVIOUS
<1>1. CASE UNCHANGED syncVars
  BY <1>1 DEF syncVars
<1>2. ASSUME NEW n \in Node,
             \/ SyncStart(n) \/ SyncCycle(n) \/ SyncEarlyCycle(n) \/ SyncPass(n)
             \/ SyncPassFormer(n) \/ SyncEnd(n) \/ SyncReinitialize(n) \/ SyncSoft(n)
      PROVE  [Next]_vars
  BY <1>2 DEF SyncStart, SyncCycle, SyncEarlyCycle, SyncPass, SyncPassFormer,
              SyncEnd, SyncReinitialize, SyncSoft, Next
<1>3. ASSUME NEW m \in msgs, SyncReceive(m) \/ SyncReceiveCopy(m) \/ SyncLose(m)
      PROVE  [Next]_vars
  BY <1>3 DEF SyncReceive, SyncReceiveCopy, SyncLose, Next
<1> QED
  BY <1>1, <1>2, <1>3 DEF SyncNext

\* A pool without a primary, none of whose commands is lost.
Undisturbed ==
    /\ UsePrimary = FALSE
    /\ "loss" \notin Faults /\ "reconfig" \notin Faults

\* No HAD has its peers in its list more than once (getHadList).
ListedOnce ==
    \A n \in Node : entries[n] \in {0, 1} /\ (state[n] # "DOWN" => entries[n] = 1)

\* Without a reinitialization it stays so.
LEMMA ListedOnceKept ==
    ASSUME Undisturbed, TypeOK, ListedOnce, [Next]_vars
    PROVE  ListedOnce'
<1>1. ASSUME entries' = entries, \A n \in Node : state[n] = "DOWN" => state'[n] = "DOWN"
      PROVE  ListedOnce'
  BY <1>1 DEF ListedOnce
<1>2. ASSUME NEW n \in Node, initialize(n) PROVE ListedOnce'
  <2>1. /\ entries' = [entries EXCEPT ![n] = 1] /\ entries \in [Node -> Nat]
        /\ state' = [state EXCEPT ![n] = "PRE"] /\ state \in [Node -> States]
    BY <1>2 DEF initialize, Fresh, TypeOK
  <2>2. entries'[n] = 1 /\ \A k \in Node \ {n} : entries'[k] = entries[k]
    BY <2>1
  <2>3. \A k \in Node \ {n} : state'[k] = state[k]
    BY <2>1
  <2> QED BY <2>2, <2>3 DEF ListedOnce
<1>3. ASSUME NEW n \in Node, cycle(n) PROVE ListedOnce'
  <2>1. entries' = entries /\ state[n] # "DOWN"
    BY <1>3 DEF cycle
  <2>2. \A k \in Node \ {n} : state'[k] = state[k]
    BY ZenonT(60), <1>3 DEF cycle, step, StepPre, StepToElection, StepStayPassive,
         StepLoseElection, StepWinElection, StepYield, StepLead, TypeOK
  <2> QED BY <1>1, <2>1, <2>2
<1>4. ASSUME NEW n \in Node, Ended(n) PROVE ListedOnce'
  <2>1. entries' = entries /\ state' = [state EXCEPT ![n] = "DOWN"]
        /\ state \in [Node -> States]
    BY <1>4 DEF Ended, TypeOK
  <2>2. \A k \in Node : state[k] = "DOWN" => state'[k] = "DOWN"
    BY <2>1
  <2> QED BY <1>1, <2>1, <2>2
<1>5. ASSUME NEW n \in Node,
             \/ CycleCrucialError(n) \/ Shutdown(n) \/ Exit(n) \/ MachineDown(n)
             \/ ReinitializeCrucialError(n)
      PROVE  ListedOnce'
  BY <1>4, <1>5 DEF CycleCrucialError, Shutdown, Exit, MachineDown,
                    ReinitializeCrucialError
<1>6. ASSUME NEW n \in Node, reinitialize(n) PROVE FALSE
  BY <1>6 DEF reinitialize, Happens, Undisturbed
<1>7. ASSUME NEW n \in Node, softReconfigure(n) PROVE ListedOnce'
  BY <1>1, <1>7 DEF softReconfigure
<1>8. ASSUME NEW m \in msgs, commandHandlerHad(m) \/ HandleCopy(m) \/ Lose(m)
      PROVE  ListedOnce'
  BY <1>1, <1>8 DEF commandHandlerHad, HandleCopy, Deliver, Lose
<1>9. CASE UNCHANGED vars
  BY <1>1, <1>9 DEF vars
<1> QED BY <1>2, <1>3, <1>5, <1>6, <1>7, <1>8, <1>9 DEF Next

\* Then all intervals are the same: no HAD cycles before its turn, and no command is
\* sent twice (softReconfigure, sendCommandToOthers).
LEMMA InStep ==
    ASSUME SyncTypeOK, ListedOnce
    PROVE  /\ \A n \in Node : ~SyncEarlyCycle(n)
           /\ \A m \in msgs : ~SyncReceiveCopy(m)
<1>0. N \in Nat /\ N > 0 /\ early \in [Node -> Nat] /\ schedule \in Seq(Place)
  BY SMTT(30), HADAssumption DEF SyncTypeOK
<1>1. \A n \in Node : Interval(n) \in {1, N} /\ (state[n] # "DOWN" => Interval(n) = N)
  <2> SUFFICES ASSUME NEW n \in Node
               PROVE  Interval(n) \in {1, N} /\ (state[n] # "DOWN" => Interval(n) = N)
    OBVIOUS
  <2>1. CASE entries[n] = 0
    <3>1. state[n] = "DOWN"
      BY SMTT(30), <2>1 DEF ListedOnce
    <3>2. (N - 1) * 0 + 1 = 1
      BY SMTT(30), <1>0
    <3> QED BY <2>1, <3>1, <3>2 DEF Interval
  <2>2. CASE entries[n] = 1
    <3>1. (N - 1) * 1 + 1 = N
      BY SMTT(30), <1>0
    <3> QED BY <2>2, <3>1 DEF Interval
  <2> QED BY <2>1, <2>2 DEF ListedOnce
<1>2. ASSUME NEW n \in Node, SyncEarlyCycle(n) PROVE FALSE
  <2>1. state[n] # "DOWN" /\ Overtakes(n)
    BY <1>2 DEF SyncEarlyCycle, cycle
  <2>2. PICK i \in DOMAIN schedule :
           /\ i > 1
           /\ \A j \in 1 .. i - 1 :
                 /\ schedule[j] \in Node
                 /\ (early[n] + 1) * Interval(n) < Interval(schedule[j])
    BY <2>1 DEF Overtakes
  <2>3. 1 \in 1 .. i - 1
    BY SMTT(30), <1>0, <2>2
  <2>4. schedule[1] \in Node /\ (early[n] + 1) * Interval(n) < Interval(schedule[1])
    BY <2>2, <2>3
  <2>5. Interval(n) = N /\ Interval(schedule[1]) \in {1, N} /\ early[n] \in Nat
    BY <1>0, <1>1, <2>1, <2>4
  <2>6. ASSUME NEW e \in Nat PROVE (e + 1) * N >= N
    <3>1. (e + 1) * N = e * N + N /\ e * N \in Nat
      BY SMTT(30), <1>0
    <3> QED BY SMTT(30), <1>0, <3>1
  <2>7. (early[n] + 1) * N < Interval(schedule[1]) /\ (early[n] + 1) * N >= N
    BY <2>4, <2>5, <2>6
  <2>8. (early[n] + 1) * N \in Nat
    BY SMTT(30), <1>0, <2>5
  <2> QED BY SMTT(30), <1>0, <2>5, <2>7, <2>8
<1>3. ASSUME NEW m \in msgs, SyncReceiveCopy(m) PROVE FALSE
  <2>1. m.from \in Node /\ entries[m.from] > 1
    BY <1>3 DEF SyncReceiveCopy, SyncTypeOK, TypeOK, Message
  <2> QED BY SMTT(30), <2>1 DEF ListedOnce
<1> QED BY <1>2, <1>3

\* Every step of such a pool keeps the invariant.
LEMMA SyncInvKept ==
    ASSUME Undisturbed, SyncInv, ListedOnce, TypeOK', [SyncNext]_syncVars
    PROVE  SyncInv'
<1>1. SyncTypeOK'
  BY ScheduleKept DEF SyncInv
<1>2. CASE UNCHANGED syncVars
  <2>1. /\ state' = state /\ callsCounter' = callsCounter /\ msgs' = msgs
        /\ idList' = idList /\ aliveList' = aliveList /\ usePrimary' = usePrimary
        /\ schedule' = schedule
    BY <1>2 DEF syncVars, vars
  <2> QED
    BY <1>1, <2>1, QuietKeeps DEF IdComes, AliveComes, Sent, Ahead
<1>3. ASSUME NEW n \in Node, SyncSoft(n)
      PROVE  SyncInv'
  <2>1. /\ state' = state /\ callsCounter' = callsCounter /\ msgs' = msgs
        /\ idList' = idList /\ aliveList' = aliveList /\ usePrimary' = usePrimary
        /\ schedule' = schedule
    BY <1>3 DEF SyncSoft, softReconfigure, buffers
  <2> QED
    BY <1>1, <2>1, QuietKeeps DEF IdComes, AliveComes, Sent, Ahead
<1>4. ASSUME NEW n \in Node, SyncReinitialize(n)
      PROVE  FALSE
  BY <1>4 DEF SyncReinitialize, reinitialize, Happens, Undisturbed
<1>5. ASSUME NEW m \in msgs, SyncLose(m)
      PROVE  FALSE
  BY <1>5 DEF SyncLose, Lose, Happens, Undisturbed
<1>6. /\ \A n \in Node : ~SyncEarlyCycle(n)
      /\ \A m \in msgs : ~SyncReceiveCopy(m)
  BY InStep DEF SyncInv
<1> QED
  BY <1>1, <1>2, <1>3, <1>4, <1>5, <1>6, StartKeeps, CycleKeeps, PassKeeps,
     PassFormerKeeps, EndKeeps, ReceiveKeeps DEF SyncNext

\* The manual, "only a single, active condor_negotiator daemon will be running":
\* in a pool of any size without a primary in which no command is lost and no HAD
\* is reinitialized, no two HADs are ever in LEADER_STATE at once, however often
\* their processes end and start (step, sendMessages, commandHandlerHad).
THEOREM OneLeaderAtMost ==
    Undisturbed => (SyncSpec => []SingleLeader)
<1> SUFFICES ASSUME Undisturbed
             PROVE  SyncSpec => []SingleLeader
  OBVIOUS
<1>1. SyncInit => Init
  BY DEF SyncInit
<1>2. SyncInit /\ TypeOK => SyncInv
  <2> SUFFICES ASSUME SyncInit, TypeOK
               PROVE  SyncInv
    OBVIOUS
  <2>1. /\ \A n \in Node : state[n] = "DOWN" /\ usePrimary[n] = FALSE
        /\ schedule = <<>> /\ early = [n \in Node |-> 0]
    BY DEF SyncInit, Init, Undisturbed
  <2>2. SyncTypeOK
    BY SMTT(30), <2>1 DEF SyncTypeOK, Running
  <2>3. NoPrimaries /\ SingleLeader
    BY <2>1 DEF NoPrimaries, SingleLeader, Leaders
  <2>4. Pairs
    BY <2>1 DEF Pairs, Pair, Listens, Ends
  <2> QED
    BY <2>2, <2>3, <2>4 DEF SyncInv
<1>3. TypeOK' /\ SyncInv /\ ListedOnce /\ [SyncNext]_syncVars => SyncInv'
  BY SyncInvKept
<1>4. SyncInv => SingleLeader
  BY DEF SyncInv
<1>5. SyncInit => ListedOnce
  BY SMTT(30) DEF SyncInit, Init, ListedOnce
<1>6. TypeOK /\ ListedOnce /\ [Next]_vars => ListedOnce'
  BY ListedOnceKept
<1>7. SyncSpec => Spec
  BY <1>1, SyncStepIsStep, PTL DEF SyncSpec, Spec
<1>8. SyncSpec => []ListedOnce
  BY <1>5, <1>6, <1>7, SyncStepIsStep, TypeCorrect, PTL DEF SyncSpec
<1> QED
  BY <1>1, <1>2, <1>3, <1>4, <1>7, <1>8, TypeCorrect, PTL DEF SyncSpec

\* In a pool of any size, with every kind of fault, each HAD has one place in the
\* round of the cycles at most and no running HAD is without one: a HAD that ends
\* and starts again before its moment has passed does not cycle twice in a round
\* (the timer that initialize, reinitialize and cycle arm).
THEOREM SyncTypes == SyncSpec => []SyncTypeOK
<1>1. SyncInit => Init
  BY DEF SyncInit
<1>2. SyncInit /\ TypeOK => SyncTypeOK
  BY SMTT(30) DEF SyncInit, Init, SyncTypeOK, Running
<1>3. TypeOK' /\ SyncTypeOK /\ [SyncNext]_syncVars => SyncTypeOK'
  BY ScheduleKept
<1> QED
  BY <1>1, <1>2, <1>3, SyncStepIsStep, TypeCorrect, PTL DEF SyncSpec, Spec

----------------------------------------------------------------------------
(* A leader stays one until it ends: no ALIVE of another one reaches it,   *)
(* not even one of a leader that has ended since.                          *)

\* The moment by which all that a has sent is handled comes before the turn of b.
Due(a, b) ==
    IF Former(a) \in Range(schedule) THEN Ahead(Former(a), b) ELSE Ahead(a, b)

\* The ALIVE of a leader that may have ended: a leader gets none, and who is about to
\* end its election loses it, or has what is underway before its turn comes.
Late(a, b) ==
    /\ state[b] = "LEADER" => ~AliveComes(a, b)
    /\ Ends(b) /\ Sent("ALIVE", a, b)
           => a \in aliveList[b] \/ Beaten(b) \/ Due(a, b)

\* Who has something underway has a place to wait for it; a former place comes
\* before the second cycle after the start; and the first one sends nothing.
Placed(n) ==
    /\ Handled(n) \/ n \in Range(schedule) \/ Former(n) \in Range(schedule)
    /\ Former(n) \in Range(schedule)
           => \/ state[n] \in {"DOWN", "PRE"}
              \/ state[n] = "PASSIVE" /\ Ahead(Former(n), n)
    /\ state[n] = "PRE" => Settled(n)

LateInv ==
    /\ \A n \in Node : Placed(n)
    /\ \A a, b \in Node : a # b => Late(a, b)

\* What does not touch a pair keeps it.
LEMMA LateFrame ==
    ASSUME NEW a \in Node, NEW b \in Node, Late(a, b),
           state'[b] = state[b], callsCounter'[b] = callsCounter[b],
           idList[b] \subseteq idList'[b], aliveList[b] \subseteq aliveList'[b],
           AliveComes(a, b)' => AliveComes(a, b),
           Sent("ALIVE", a, b)' => Sent("ALIVE", a, b),
           Sent("ALIVE", a, b)' /\ Due(a, b) => Due(a, b)'
    PROVE  Late(a, b)'
<1>1. state'[b] = "LEADER" => ~AliveComes(a, b)'
  BY DEF Late
<1>2. ASSUME Ends(b)', Sent("ALIVE", a, b)'
      PROVE  a \in aliveList'[b] \/ Beaten(b)' \/ Due(a, b)'
  <2>1. Ends(b)
    BY <1>2 DEF Ends
  <2>2. a \in aliveList[b] \/ Beaten(b) \/ Due(a, b)
    BY <1>2, <2>1 DEF Late
  <2>3. Beaten(b) => Beaten(b)'
    BY DEF Beaten
  <2> QED
    BY <1>2, <2>2, <2>3
<1> QED
  BY <1>1, <1>2 DEF Late

\* What does not touch the places of a HAD keeps them.
LEMMA PlacedFrame ==
    ASSUME NEW n \in Node, Placed(n), state'[n] = state[n],
           Handled(n) => Handled(n)',
           n \in Range(schedule) => n \in Range(schedule'),
           Former(n) \in Range(schedule) <=> Former(n) \in Range(schedule'),
           Ahead(Former(n), n) => Ahead(Former(n), n)'
    PROVE  Placed(n)'
<1>1. \/ Handled(n)' \/ n \in Range(schedule') \/ Former(n) \in Range(schedule')
  BY DEF Placed
<1>2. Former(n) \in Range(schedule')
        => \/ state'[n] \in {"DOWN", "PRE"}
           \/ state'[n] = "PASSIVE" /\ Ahead(Former(n), n)'
  BY DEF Placed
<1>3. state'[n] = "PRE" => Settled(n)'
  BY DEF Placed, Settled
<1> QED
  BY <1>1, <1>2, <1>3 DEF Placed

\* The order of the places outside X decides what is due.
LEMMA DueKept ==
    ASSUME NEW X, NEW a \in Node, NEW b \in Node,
           a \notin X, Former(a) \notin X, b \notin X,
           \A p, q \in Place \ X : Ahead(p, q)' <=> Ahead(p, q),
           \A p \in Place \ X : p \in Range(schedule') <=> p \in Range(schedule)
    PROVE  Due(a, b)' <=> Due(a, b)
<1>1. a \in Place \ X /\ b \in Place \ X /\ Former(a) \in Place \ X
  BY DEF Place
<1>2. /\ Former(a) \in Range(schedule') <=> Former(a) \in Range(schedule)
      /\ Ahead(Former(a), b)' <=> Ahead(Former(a), b)
      /\ Ahead(a, b)' <=> Ahead(a, b)
  BY <1>1
<1> QED
  BY <1>2 DEF Due

\* What a call of cycle adds to the commands in flight (sendMessages).
LEMMA SentFacts ==
    ASSUME NEW n \in Node, cycle(n)
    PROVE  /\ \A a, b \in Node :
                 Sent("ALIVE", a, b)'
                   => Sent("ALIVE", a, b) \/ (a = n /\ state'[n] = "LEADER")
           /\ \A k \in Node \ {n} : Handled(k) => Handled(k)'
           /\ state'[n] \notin {"ELECTION", "LEADER"} => msgs' = msgs
<1>1. sendMessages(n)
  BY DEF cycle
<1>2. ASSUME NEW m \in msgs', m \notin msgs
      PROVE  m.from = n /\ m.cmd = CommandOf(state'[n])
  <2>1. m \in [cmd : {CommandOf(state'[n])}, from : {n}, to : Peers(n)]
    BY <1>1, <1>2 DEF sendMessages
  <2> QED
    BY <2>1
<1>3. ASSUME NEW a \in Node, NEW b \in Node, Sent("ALIVE", a, b)'
      PROVE  Sent("ALIVE", a, b) \/ (a = n /\ state'[n] = "LEADER")
  <2> DEFINE m == [cmd |-> "ALIVE", from |-> a, to |-> b]
  <2>1. m \in msgs' /\ m.from = a /\ m.cmd = "ALIVE"
    BY <1>3 DEF Sent
  <2>2. CommandOf(state'[n]) = "ALIVE" => state'[n] = "LEADER"
    BY DEF CommandOf
  <2>3. m \in msgs \/ (a = n /\ state'[n] = "LEADER")
    BY <1>2, <2>1, <2>2
  <2> QED
    BY <2>3 DEF Sent
<1>4. \A k \in Node \ {n} : Handled(k) => Handled(k)'
  BY <1>2 DEF Handled
<1>5. state'[n] \notin {"ELECTION", "LEADER"} => msgs' = msgs
  BY <1>1 DEF sendMessages
<1> QED
  BY <1>3, <1>4, <1>5

\* The first cycle after a start, and what none does.
LEMMA PreFacts ==
    ASSUME TypeOK, NEW n \in Node, cycle(n)
    PROVE  /\ state[n] = "PRE" => state'[n] \in {"PRE", "PASSIVE"}
           /\ state'[n] = "PRE" => state[n] = "PRE"
<1>1. CASE callsCounter[n] # 0
  BY <1>1 DEF cycle
<1>2. CASE callsCounter[n] = 0
  BY <1>2 DEF cycle, step, StepPre, StepToElection, StepStayPassive,
              StepLoseElection, StepWinElection, StepYield, StepLead, TypeOK
<1> QED
  BY <1>1, <1>2

\* A step that clears a buffer or leaves it alone (step).
LEMMA AliveFacts ==
    ASSUME TypeOK, NEW n \in Node, cycle(n)
    PROVE  aliveList'[n] \subseteq aliveList[n]
<1>1. aliveList' = aliveList \/ clearBuffers(n)
  BY DEF cycle, step, StepPre, StepToElection, StepStayPassive,
         StepLoseElection, StepWinElection, StepYield, StepLead, buffers
<1> QED
  BY <1>1 DEF clearBuffers, TypeOK

\* What is underway from n, after its turn.
LEMMA LateFrom ==
    ASSUME SyncInv, SyncInv', LateInv, NEW n \in Node, SyncCycle(n),
           NEW b \in Node, b # n
    PROVE  Late(n, b)'
<1>1. /\ SyncTypeOK /\ NoPrimaries /\ TypeOK /\ cycle(n) /\ Turn(n)
      /\ schedule' = Append(Tail(schedule), n)
  BY DEF SyncInv, SyncTypeOK, SyncCycle
<1>2. /\ state'[b] = state[b] /\ callsCounter'[b] = callsCounter[b]
      /\ idList'[b] = idList[b] /\ aliveList'[b] = aliveList[b]
  BY <1>1, CycleFacts
<1>3. Late(n, b) /\ Placed(n) /\ Pair(n, b)' /\ SingleLeader'
  BY DEF LateInv, SyncInv, Pairs
<1>4. Former(n) \in Place /\ n \in Place /\ b \in Place /\ Former(n) # n
  BY FormerFacts DEF Place
<1>5. /\ Range(schedule') = Range(schedule) /\ ~Ahead(Former(n), n)
      /\ Ahead(Former(n), b)' <=> Ahead(Former(n), b)
  BY <1>1, <1>4, TurnFacts
<1>6. CASE state[n] = "PRE"
  <2>1. msgs' = msgs
    BY <1>1, <1>6, PreFacts, SentFacts
  <2>2. ASSUME Sent("ALIVE", n, b)', Due(n, b)
        PROVE  Due(n, b)'
    <3>1. ~Handled(n)
      BY <2>1, <2>2 DEF Sent, Handled
    <3>2. Former(n) \in Range(schedule)
      BY <1>3, <1>6, <3>1 DEF Placed, Settled
    <3> QED
      BY <1>5, <2>2, <3>2 DEF Due
  <2>3. (AliveComes(n, b)' => AliveComes(n, b)) /\ (Sent("ALIVE", n, b)' => Sent("ALIVE", n, b))
    BY <1>2, <2>1 DEF AliveComes, Sent
  <2> QED
    BY <1>2, <1>3, <2>2, <2>3, LateFrame
<1>7. CASE state[n] # "PRE"
  <2>1. Handled(n) /\ state[n] # "DOWN"
    BY <1>1, <1>7 DEF SyncCycle, cycle
  <2>2. Former(n) \notin Range(schedule')
    BY <1>3, <1>5, <1>7, <2>1 DEF Placed
  <2>3. Sent("ALIVE", n, b)' => state'[n] = "LEADER"
    BY <1>1, <2>1, SentFacts, NothingUnderway
  <2>4. state'[b] = "LEADER" => ~AliveComes(n, b)'
    <3> SUFFICES ASSUME state'[b] = "LEADER", AliveComes(n, b)'
                 PROVE  FALSE
      OBVIOUS
    <3>1. n \notin aliveList'[b]
      BY <1>2, <1>3 DEF Late, AliveComes
    <3>2. state'[n] = "LEADER"
      BY <2>3, <3>1 DEF AliveComes
    <3> QED
      BY <1>3, <3>2 DEF SingleLeader, Leaders
  <2>5. ASSUME Ends(b)', Sent("ALIVE", n, b)'
        PROVE  n \in aliveList'[b] \/ Beaten(b)' \/ Due(n, b)'
    <3>1. n \in aliveList'[b] \/ Beaten(b)' \/ Ahead(n, b)'
      BY <1>3, <2>3, <2>5 DEF Pair, Ends
    <3> QED
      BY <2>2, <3>1 DEF Due
  <2> QED
    BY <2>4, <2>5 DEF Late
<1> QED
  BY <1>6, <1>7

\* What is underway to n, after its turn.
LEMMA LateTo ==
    ASSUME SyncInv, LateInv, NEW n \in Node, SyncCycle(n), NEW a \in Node, a # n
    PROVE  Late(a, n)'
<1>1. /\ SyncTypeOK /\ NoPrimaries /\ TypeOK /\ cycle(n) /\ Turn(n)
      /\ schedule' = Append(Tail(schedule), n)
  BY DEF SyncInv, SyncTypeOK, SyncCycle
<1>2. Late(a, n) /\ Placed(a)
  BY DEF LateInv
<1>3. Former(a) \in Place /\ a \in Place /\ Former(a) # n
  BY FormerFacts
<1>4. /\ Range(schedule') = Range(schedule) /\ ~Due(a, n)
      /\ \A p \in Range(schedule) \ {n} : Ahead(p, n)'
  BY <1>1, <1>3, TurnFacts DEF Due
<1>5. Sent("ALIVE", a, n)' => Sent("ALIVE", a, n)
  BY <1>1, SentFacts
<1>6. aliveList'[n] \subseteq aliveList[n]
  BY <1>1, AliveFacts
<1>7. ASSUME state'[n] = "LEADER"
      PROVE  ~AliveComes(a, n)'
  <2>1. CASE state[n] = "LEADER"
    BY <1>2, <1>5, <1>6, <2>1 DEF Late, AliveComes
  <2>2. CASE state[n] # "LEADER"
    <3>1. callsCounter[n] = 0
      BY <1>1, <1>7, <2>2, CycleFacts
    <3>2. /\ state[n] = "ELECTION" /\ aliveList[n] = {}
          /\ \A id \in idList[n] : id <= n
      BY <1>1, <1>7, <2>2, <3>1, StepFacts
    <3>3. ~Beaten(n)
      BY <1>1, <3>2, NotBeaten
    <3>4. ~Sent("ALIVE", a, n)
      BY <1>2, <1>4, <3>1, <3>2, <3>3 DEF Late, Ends
    <3> QED
      BY <1>5, <1>6, <3>2, <3>4 DEF AliveComes
  <2> QED
    BY <2>1, <2>2
<1>8. ASSUME Ends(n)', Sent("ALIVE", a, n)'
      PROVE  Due(a, n)'
  <2>1. ~Handled(a)
    BY <1>5, <1>8 DEF Sent, Handled
  <2>2. a \in Range(schedule) \/ Former(a) \in Range(schedule)
    BY <1>2, <2>1 DEF Placed
  <2> QED
    BY <1>3, <1>4, <2>2 DEF Due
<1> QED
  BY <1>7, <1>8 DEF Late

\* The turn of a HAD keeps the invariant.
LEMMA LateCycle ==
    ASSUME SyncInv, SyncInv', LateInv, NEW n \in Node, SyncCycle(n)
    PROVE  LateInv'
<1>1. /\ SyncTypeOK /\ NoPrimaries /\ TypeOK /\ cycle(n) /\ Turn(n)
      /\ schedule' = Append(Tail(schedule), n)
  BY DEF SyncInv, SyncTypeOK, SyncCycle
<1>2. /\ Range(schedule') = Range(schedule)
      /\ \A p \in Place : ~Ahead(p, n)
      /\ \A p \in Range(schedule) \ {n} : Ahead(p, n)'
      /\ \A p, q \in Place \ {n} : Ahead(p, q)' <=> Ahead(p, q)
  BY <1>1, TurnFacts
<1>3. /\ state[n] # "DOWN"
      /\ \A k \in Node \ {n} :
            /\ state'[k] = state[k] /\ callsCounter'[k] = callsCounter[k]
            /\ idList'[k] = idList[k] /\ aliveList'[k] = aliveList[k]
  BY <1>1, CycleFacts
<1>4. \A k \in Node : Former(k) \in Place /\ Former(k) # n /\ k \in Place
  BY FormerFacts
<1>5. ASSUME NEW k \in Node, k # n
      PROVE  Placed(k)'
  <2>1. Placed(k)
    BY DEF LateInv
  <2>2. Handled(k) => Handled(k)'
    BY <1>1, <1>5, SentFacts
  <2>3. Ahead(Former(k), k)' <=> Ahead(Former(k), k)
    BY <1>2, <1>4, <1>5
  <2> QED
    BY <1>2, <1>3, <1>5, <2>1, <2>2, <2>3, PlacedFrame
<1>6. Placed(n)'
  <2>1. Placed(n)
    BY DEF LateInv
  <2>2. n \in Range(schedule')
    <3>1. schedule \in Seq(Place) /\ schedule # <<>> /\ Head(schedule) = n
      BY <1>1 DEF SyncTypeOK, Turn
    <3>2. 1 \in DOMAIN schedule /\ schedule[1] = n
      BY SMTT(30), <3>1
    <3> QED
      BY <1>2, <3>2 DEF Range
  <2>3. ASSUME Former(n) \in Range(schedule')
        PROVE  state'[n] \in {"PRE", "PASSIVE"} /\ Ahead(Former(n), n)'
    <3>1. Former(n) \in Range(schedule) /\ ~Ahead(Former(n), n)
      BY <1>2, <1>4, <2>3
    <3>2. state[n] = "PRE"
      BY <1>3, <2>1, <3>1 DEF Placed
    <3>3. state'[n] \in {"PRE", "PASSIVE"}
      BY <1>1, <3>2, PreFacts
    <3> QED
      BY <1>2, <1>4, <3>1, <3>3
  <2>4. ASSUME state'[n] = "PRE"
        PROVE  Settled(n)'
    <3>1. state[n] = "PRE" /\ msgs' = msgs
      BY <1>1, <2>4, PreFacts, SentFacts
    <3> QED
      BY <1>2, <2>1, <3>1 DEF Placed, Settled, Handled
  <2> QED
    BY <2>2, <2>3, <2>4 DEF Placed
<1>7. ASSUME NEW a \in Node, NEW b \in Node, a # b
      PROVE  Late(a, b)'
  <2>1. CASE a = n
    BY <1>7, <2>1, LateFrom
  <2>2. CASE b = n
    BY <1>7, <2>2, LateTo
  <2>3. CASE a # n /\ b # n
    <3>1. Late(a, b)
      BY <1>7 DEF LateInv
    <3>2. Due(a, b)' <=> Due(a, b)
      <4> DEFINE X == {n}
      <4>1. a \notin X /\ b \notin X /\ Former(a) \notin X
        BY <1>4, <2>3
      <4>2. /\ \A p, q \in Place \ X : Ahead(p, q)' <=> Ahead(p, q)
            /\ \A p \in Place \ X : p \in Range(schedule') <=> p \in Range(schedule)
        BY <1>2
      <4> HIDE DEF X
      <4> QED
        BY <4>1, <4>2, DueKept
    <3>3. Sent("ALIVE", a, b)' => Sent("ALIVE", a, b)
      BY <1>1, <2>3, SentFacts
    <3>4. AliveComes(a, b)' => AliveComes(a, b)
      BY <1>3, <2>3, <3>3 DEF AliveComes
    <3> QED
      BY <1>3, <2>3, <3>1, <3>2, <3>3, <3>4, LateFrame
  <2> QED
    BY <2>1, <2>2, <2>3
<1> QED
  BY <1>5, <1>6, <1>7 DEF LateInv

\* A HAD that is not taking part leaves what is underway between the others alone.
LEMMA LateAside ==
    ASSUME LateInv, NEW n \in Node, state'[n] \in {"DOWN", "PRE"},
           \A k \in Node \ {n} :
               /\ state'[k] = state[k] /\ callsCounter'[k] = callsCounter[k]
               /\ idList'[k] = idList[k] /\ aliveList'[k] = aliveList[k],
           msgs' \subseteq msgs, Placed(n)',
           \A p, q \in Place \ {n, Former(n)} : Ahead(p, q)' <=> Ahead(p, q),
           \A p \in Place \ {n, Former(n)} :
               p \in Range(schedule') <=> p \in Range(schedule),
           \A b \in Node \ {n} : Sent("ALIVE", n, b)' /\ Due(n, b) => Due(n, b)'
    PROVE  LateInv'
<1> DEFINE X == {n, Former(n)}
<1>1. ASSUME NEW k \in Node, k # n
      PROVE  k \in Place \ X /\ Former(k) \in Place \ X
  BY <1>1, FormerFacts
<1>2. /\ \A p, q \in Place \ X : Ahead(p, q)' <=> Ahead(p, q)
      /\ \A p \in Place \ X : p \in Range(schedule') <=> p \in Range(schedule)
  OBVIOUS
<1>3. \A c : \A a, b \in Node : Sent(c, a, b)' => Sent(c, a, b)
  BY DEF Sent
<1> HIDE DEF X
<1>4. ASSUME NEW k \in Node, k # n
      PROVE  Placed(k)'
  <2>1. Placed(k) /\ (Handled(k) => Handled(k)')
    BY DEF LateInv, Handled
  <2>2. k \in Place \ X /\ Former(k) \in Place \ X
    BY <1>1, <1>4
  <2>3. /\ Ahead(Former(k), k)' <=> Ahead(Former(k), k)
        /\ k \in Range(schedule') <=> k \in Range(schedule)
        /\ Former(k) \in Range(schedule') <=> Former(k) \in Range(schedule)
    BY <1>2, <2>2
  <2> QED
    BY <1>4, <2>1, <2>3, PlacedFrame
<1>5. ASSUME NEW a \in Node, NEW b \in Node, a # b
      PROVE  Late(a, b)'
  <2>1. CASE b = n
    <3>1. state'[b] # "LEADER" /\ ~Ends(b)'
      BY <2>1 DEF Ends
    <3> QED
      BY <3>1 DEF Late
  <2>2. CASE b # n
    <3>1. Late(a, b) /\ (Sent("ALIVE", a, b)' => Sent("ALIVE", a, b))
      BY <1>3, <1>5 DEF LateInv
    <3>2. AliveComes(a, b)' => AliveComes(a, b)
      BY <2>2, <3>1 DEF AliveComes
    <3>3. Sent("ALIVE", a, b)' /\ Due(a, b) => Due(a, b)'
      <4>1. CASE a = n
        BY <2>2, <4>1
      <4>2. CASE a # n
        BY <1>1, <1>2, <2>2, <4>2, DueKept
      <4> QED
        BY <4>1, <4>2
    <3> QED
      BY <2>2, <3>1, <3>2, <3>3, LateFrame
  <2> QED
    BY <2>1, <2>2
<1> QED
  BY <1>4, <1>5 DEF LateInv

\* The start of a HAD keeps the invariant (SyncStart).
LEMMA LateStart ==
    ASSUME SyncInv, LateInv, NEW n \in Node, SyncStart(n)
    PROVE  LateInv'
<1>1. TypeOK /\ schedule \in Seq(Place) /\ Distinct(schedule)
  BY DEF SyncInv, SyncTypeOK, Distinct
<1>2. initialize(n) /\ Fresh(n) /\ schedule' = First(n) /\ Placed(n)
  BY DEF SyncStart, initialize, LateInv
<1>3. /\ state'[n] = "PRE" /\ msgs' = msgs
      /\ \A k \in Node \ {n} :
            /\ state'[k] = state[k] /\ callsCounter'[k] = callsCounter[k]
            /\ idList'[k] = idList[k] /\ aliveList'[k] = aliveList[k]
  BY SMTT(30), <1>1, <1>2 DEF initialize, Fresh, clearBuffers, TypeOK
<1>4. /\ Range(schedule') = Range(Others(n)) \cup {n}
      /\ \A p, q \in Place \ {n, Former(n)} : Ahead(p, q)' <=> Ahead(p, q)
      /\ \A b \in Node \ {n} :
            IF n \in Range(schedule) /\ ~Settled(n)
            THEN Ahead(Former(n), b)' <=> Ahead(n, b)
            ELSE Ahead(Former(n), b)' <=> Ahead(Former(n), b)
  BY <1>1, <1>2, FirstKeepsOrder DEF Ahead
<1>5. Range(Others(n)) = IF n \in Range(schedule) /\ ~Settled(n)
                         THEN (Range(schedule) \ {n}) \cup {Former(n)}
                         ELSE Range(schedule) \ {n}
  BY <1>1, LeavingKeepsOrder
<1>6. \A p \in Place \ {n, Former(n)} : p \in Range(schedule') <=> p \in Range(schedule)
  BY <1>4, <1>5
<1>7. Former(n) # n
  BY FormerFacts
<1>8. ~Handled(n) => Former(n) \in Range(schedule')
  <2> SUFFICES ASSUME ~Handled(n)
               PROVE  Former(n) \in Range(schedule')
    OBVIOUS
  <2>1. n \in Range(schedule) \/ Former(n) \in Range(schedule)
    BY <1>2 DEF Placed
  <2> QED
    BY <1>4, <1>5, <1>7, <2>1 DEF Settled
<1>9. Placed(n)'
  BY <1>3, <1>4, <1>8 DEF Placed, Settled, Handled
<1>10. ASSUME NEW b \in Node \ {n}, Sent("ALIVE", n, b)', Due(n, b)
       PROVE  Due(n, b)'
  <2>1. ~Handled(n)
    BY <1>3, <1>10 DEF Sent, Handled
  <2>2. Former(n) \in Range(schedule')
    BY <1>8, <2>1
  <2>3. CASE Former(n) \in Range(schedule)
    <3>1. Settled(n) /\ Ahead(Former(n), b)
      BY <1>10, <2>3 DEF Settled, Due
    <3> QED
      BY <1>4, <2>2, <3>1 DEF Due
  <2>4. CASE Former(n) \notin Range(schedule)
    <3>1. ~Settled(n) /\ Ahead(n, b) /\ n \in Range(schedule)
      BY <1>2, <1>10, <2>1, <2>4 DEF Settled, Due, Placed
    <3> QED
      BY <1>4, <2>2, <3>1 DEF Due
  <2> QED
    BY <2>3, <2>4
<1> QED
  BY <1>3, <1>4, <1>6, <1>9, <1>10, LateAside

\* The end of a HAD keeps the invariant (SyncEnd).
LEMMA LateEnd ==
    ASSUME SyncInv, LateInv, NEW n \in Node, SyncEnd(n)
    PROVE  LateInv'
<1>1. TypeOK
  BY DEF SyncInv, SyncTypeOK
<1>2. Ended(n) /\ schedule' = schedule /\ Placed(n)
  BY DEF SyncEnd, Exit, MachineDown, Shutdown, LateInv
<1>3. /\ state'[n] = "DOWN" /\ msgs' \subseteq msgs
      /\ \A k \in Node \ {n} :
            /\ state'[k] = state[k] /\ callsCounter'[k] = callsCounter[k]
            /\ idList'[k] = idList[k] /\ aliveList'[k] = aliveList[k]
  BY <1>1, <1>2 DEF Ended, clearBuffers, TypeOK
<1>4. Placed(n)'
  BY <1>2, <1>3 DEF Placed, Settled, Handled
<1>5. /\ \A p, q \in Place \ {n, Former(n)} : Ahead(p, q)' <=> Ahead(p, q)
      /\ \A b \in Node \ {n} : Due(n, b) => Due(n, b)'
  BY <1>2 DEF Ahead, Due
<1> QED
  BY <1>2, <1>3, <1>4, <1>5, LateAside

\* The passing of its moment keeps the invariant (SyncPass).
LEMMA LatePass ==
    ASSUME SyncInv, LateInv, NEW n \in Node, SyncPass(n)
    PROVE  LateInv'
<1>1. schedule \in Seq(Place) /\ Distinct(schedule)
  BY DEF SyncInv, SyncTypeOK, Distinct
<1>2. /\ Turn(n) /\ state[n] = "DOWN" /\ Settled(n) /\ schedule' = Tail(schedule)
      /\ state' = state /\ callsCounter' = callsCounter /\ msgs' = msgs
      /\ idList' = idList /\ aliveList' = aliveList
  BY DEF SyncPass, vars
<1>3. n \in Place /\ Former(n) \in Place /\ Former(n) # n
  BY FormerFacts
<1>4. /\ Range(schedule') = Range(schedule) \ {n}
      /\ \A p, q \in Place \ {n} : Ahead(p, q)' <=> Ahead(p, q)
  BY <1>1, <1>2, <1>3, PassingKeepsOrder DEF Ahead
<1>5. Placed(n)'
  BY <1>2, <1>3, <1>4 DEF Placed, Settled, Handled
<1>6. ASSUME NEW b \in Node \ {n}, Sent("ALIVE", n, b)', Due(n, b)
      PROVE  Due(n, b)'
  <2>1. ~Handled(n)
    BY <1>2, <1>6 DEF Sent, Handled
  <2>2. Former(n) \in Range(schedule) /\ Former(n) \in Range(schedule')
    BY <1>2, <1>3, <1>4, <2>1 DEF Settled
  <2>3. Ahead(Former(n), b)' <=> Ahead(Former(n), b)
    BY <1>3, <1>4, <1>6 DEF Place
  <2> QED
    BY <1>6, <2>2, <2>3 DEF Due
<1> QED
  BY <1>2, <1>4, <1>5, <1>6, LateAside

\* The passing of a former place keeps the invariant (SyncPassFormer).
LEMMA LatePassFormer ==
    ASSUME SyncInv, LateInv, NEW n \in Node, SyncPassFormer(n)
    PROVE  LateInv'
<1> DEFINE X == {Former(n)}
<1>1. schedule \in Seq(Place) /\ Distinct(schedule)
  BY DEF SyncInv, SyncTypeOK, Distinct
<1>2. /\ Turn(Former(n)) /\ Handled(n) /\ schedule' = Tail(schedule)
      /\ state' = state /\ callsCounter' = callsCounter /\ msgs' = msgs
      /\ idList' = idList /\ aliveList' = aliveList
  BY DEF SyncPassFormer, vars
<1>3. Former(n) \in Place
  BY FormerFacts
<1>4. ASSUME NEW k \in Node
      PROVE  k \in Place \ X /\ (k # n => Former(k) \in Place \ X)
  BY FormerFacts
<1>5. /\ Range(schedule') = Range(schedule) \ {Former(n)}
      /\ \A p, q \in Place \ {Former(n)} : Ahead(p, q)' <=> Ahead(p, q)
  BY <1>1, <1>2, <1>3, PassingKeepsOrder DEF Ahead
<1>6. /\ \A p, q \in Place \ X : Ahead(p, q)' <=> Ahead(p, q)
      /\ \A p \in Place \ X : p \in Range(schedule') <=> p \in Range(schedule)
      /\ Former(n) \notin Range(schedule')
  BY <1>5
<1>7. \A k \in Node : Handled(k)' <=> Handled(k)
  BY <1>2 DEF Handled
<1> HIDE DEF X
<1>8. ASSUME NEW k \in Node
      PROVE  Placed(k)'
  <2>1. CASE k = n
    BY <1>2, <1>6, <1>7, <2>1 DEF Placed, Settled
  <2>2. CASE k # n
    <3>1. Placed(k) /\ k \in Place \ X /\ Former(k) \in Place \ X
      BY <1>4, <2>2 DEF LateInv
    <3>2. /\ Ahead(Former(k), k)' <=> Ahead(Former(k), k)
          /\ k \in Range(schedule') <=> k \in Range(schedule)
          /\ Former(k) \in Range(schedule') <=> Former(k) \in Range(schedule)
      BY <1>6, <3>1
    <3> QED
      BY <1>2, <1>7, <3>1, <3>2, PlacedFrame
  <2> QED
    BY <2>1, <2>2
<1>9. ASSUME NEW a \in Node, NEW b \in Node, a # b
      PROVE  Late(a, b)'
  <2>1. Late(a, b)
    BY <1>9 DEF LateInv
  <2>2. /\ AliveComes(a, b)' => AliveComes(a, b)
        /\ Sent("ALIVE", a, b)' => Sent("ALIVE", a, b)
    BY <1>2 DEF AliveComes, Sent
  <2>3. Sent("ALIVE", a, b)' /\ Due(a, b) => Due(a, b)'
    <3>1. CASE a = n
      BY <1>2, <2>2, <3>1, NothingUnderway
    <3>2. CASE a # n
      BY <1>4, <1>6, <3>2, DueKept
    <3> QED
      BY <3>1, <3>2
  <2> QED
    BY <1>2, <2>1, <2>2, <2>3, LateFrame
<1> QED
  BY <1>8, <1>9 DEF LateInv

\* A step without a transition keeps the invariant if what comes into a buffer was
\* underway.
LEMMA LateQuiet ==
    ASSUME LateInv, state' = state, callsCounter' = callsCounter,
           schedule' = schedule, msgs' \subseteq msgs,
           \A b \in Node : /\ idList[b] \subseteq idList'[b]
                           /\ aliveList[b] \subseteq aliveList'[b],
           \A a, b \in Node : a \in aliveList'[b] => AliveComes(a, b)
    PROVE  LateInv'
<1>1. ASSUME NEW n \in Node
      PROVE  Placed(n)'
  <2>1. Placed(n) /\ (Handled(n) => Handled(n)')
    BY DEF LateInv, Handled
  <2> QED
    BY <2>1, PlacedFrame DEF Ahead
<1>2. ASSUME NEW a \in Node, NEW b \in Node, a # b
      PROVE  Late(a, b)'
  <2>1. Late(a, b) /\ (Due(a, b) => Due(a, b)')
    BY <1>2 DEF LateInv, Due, Ahead
  <2>2. Sent("ALIVE", a, b)' => Sent("ALIVE", a, b)
    BY DEF Sent
  <2>3. AliveComes(a, b)' => AliveComes(a, b)
    BY <2>2 DEF AliveComes
  <2> QED
    BY <2>1, <2>2, <2>3, LateFrame
<1> QED
  BY <1>1, <1>2 DEF LateInv

\* The handling of a command keeps the invariant (SyncReceive).
LEMMA LateReceive ==
    ASSUME SyncInv, LateInv, NEW m \in msgs, SyncReceive(m)
    PROVE  LateInv'
<1>1. TypeOK /\ m \in Message /\ m.to \in Node /\ m.from \in Node
  BY DEF SyncInv, SyncTypeOK, TypeOK, Message
<1>2. Deliver(m) /\ msgs' = msgs \ {m} /\ schedule' = schedule
  BY DEF SyncReceive, commandHandlerHad
<1>3. state' = state /\ callsCounter' = callsCounter
  BY <1>2 DEF Deliver
<1>4. \A b \in Node : /\ idList[b] \subseteq idList'[b]
                      /\ aliveList[b] \subseteq aliveList'[b]
  BY <1>1, <1>2 DEF Deliver, TypeOK
<1>5. ASSUME NEW a \in Node, NEW b \in Node, a \in aliveList'[b], a \notin aliveList[b]
      PROVE  Sent("ALIVE", a, b)
  <2>1. m.cmd = "ALIVE" /\ m.from = a /\ m.to = b
    BY <1>1, <1>2, <1>5 DEF Deliver, TypeOK
  <2>2. m = [cmd |-> "ALIVE", from |-> a, to |-> b]
    BY <1>1, <2>1 DEF Message
  <2> QED
    BY <2>2 DEF Sent
<1> QED
  BY <1>2, <1>3, <1>4, <1>5, LateQuiet DEF AliveComes

\* Every step of an undisturbed pool keeps the invariant.
LEMMA LateKept ==
    ASSUME Undisturbed, SyncInv, SyncInv', ListedOnce, LateInv, [SyncNext]_syncVars
    PROVE  LateInv'
<1>1. CASE UNCHANGED syncVars
  <2>1. /\ state' = state /\ callsCounter' = callsCounter /\ msgs' = msgs
        /\ idList' = idList /\ aliveList' = aliveList /\ schedule' = schedule
    BY <1>1 DEF syncVars, vars
  <2> QED
    BY <2>1, LateQuiet DEF AliveComes
<1>2. ASSUME NEW n \in Node, SyncSoft(n)
      PROVE  LateInv'
  <2>1. /\ state' = state /\ callsCounter' = callsCounter /\ msgs' = msgs
        /\ idList' = idList /\ aliveList' = aliveList /\ schedule' = schedule
    BY <1>2 DEF SyncSoft, softReconfigure, buffers
  <2> QED
    BY <2>1, LateQuiet DEF AliveComes
<1>3. ASSUME NEW n \in Node, SyncReinitialize(n)
      PROVE  FALSE
  BY <1>3 DEF SyncReinitialize, reinitialize, Happens, Undisturbed
<1>4. ASSUME NEW m \in msgs, SyncLose(m)
      PROVE  FALSE
  BY <1>4 DEF SyncLose, Lose, Happens, Undisturbed
<1>5. /\ \A n \in Node : ~SyncEarlyCycle(n)
      /\ \A m \in msgs : ~SyncReceiveCopy(m)
  BY InStep DEF SyncInv
<1> QED
  BY <1>1, <1>2, <1>3, <1>4, <1>5, LateStart, LateCycle, LatePass, LatePassFormer,
     LateEnd, LateReceive DEF SyncNext

\* What the refinement takes for the active central manager.
Active == IF Leaders = {} THEN N ELSE CHOOSE n \in Leaders : TRUE

\* It is the leader, or nobody.
LEMMA ActiveFacts ==
    ASSUME SingleLeader
    PROVE  /\ \A n \in Leaders : Active = n
           /\ Leaders = {} => Active = N
<1>1. ASSUME NEW n \in Leaders
      PROVE  Active = n
  <2>1. Leaders = {n}
    BY <1>1 DEF SingleLeader
  <2> QED
    BY <2>1 DEF Active
<1> QED
  BY <1>1 DEF Active

LEMMA ActiveFactsAfter ==
    ASSUME SingleLeader'
    PROVE  /\ \A n \in Leaders' : Active' = n
           /\ Leaders' = {} => Active' = N
<1>1. ASSUME NEW n \in Leaders'
      PROVE  Active' = n
  <2>1. Leaders' = {n}
    BY <1>1 DEF SingleLeader
  <2> QED
    BY <2>1 DEF Active
<1> QED
  BY <1>1 DEF Active

\* A call of cycle does not end the process.
LEMMA CycleGoesOn ==
    ASSUME TypeOK, NEW n \in Node, cycle(n)
    PROVE  state'[n] # "DOWN"
<1>1. CASE callsCounter[n] # 0
  BY <1>1 DEF cycle
<1>2. CASE callsCounter[n] = 0
  BY <1>2 DEF cycle, step, StepPre, StepToElection, StepStayPassive,
              StepLoseElection, StepWinElection, StepYield, StepLead, TypeOK
<1> QED
  BY <1>1, <1>2

\* The turn of a HAD is an election, or leaves everything as it is: no leader yields.
LEMMA CycleElects ==
    ASSUME SyncInv, SyncInv', LateInv, NEW n \in Node, SyncCycle(n)
    PROVE  CM!Elect(n) \/ UNCHANGED CM!cmVars
<1>1. /\ SyncTypeOK /\ NoPrimaries /\ TypeOK /\ cycle(n)
      /\ SingleLeader /\ SingleLeader'
  BY DEF SyncInv, SyncTypeOK, SyncCycle
<1>2. state[n] # "DOWN" /\ \A k \in Node \ {n} : state'[k] = state[k]
  BY <1>1, CycleFacts
<1>3. state[n] = "LEADER" => state'[n] = "LEADER"
  <2> SUFFICES ASSUME state[n] = "LEADER"
               PROVE  state'[n] = "LEADER"
    OBVIOUS
  <2>1. CASE callsCounter[n] # 0
    BY <1>1, <2>1, CycleFacts
  <2>2. CASE callsCounter[n] = 0
    <3>1. ~YieldsTo(n)
      <4> SUFFICES ASSUME NEW id \in aliveList[n], ~(id <= n)
                   PROVE  FALSE
        BY DEF YieldsTo, checkList
      <4>1. id \in Node /\ id # n
        BY SMTT(30), <1>1, HADAssumption DEF TypeOK, Node
      <4>2. ~AliveComes(id, n)
        BY <4>1 DEF LateInv, Late
      <4> QED
        BY <4>2 DEF AliveComes
    <3>2. StepLead(n)
      BY <1>1, <2>2, <3>1 DEF cycle, step, StepPre, StepToElection, StepStayPassive,
                              StepLoseElection, StepWinElection, StepYield
    <3> QED
      BY <3>2 DEF StepLead
  <2> QED
    BY <2>1, <2>2
<1>4. state'[n] # "DOWN"
  BY <1>1, <1>2, CycleGoesOn
<1>5. Running' = Running
  BY <1>2, <1>4 DEF Running
<1>6. CASE state'[n] = "LEADER" /\ state[n] # "LEADER"
  <2>1. n \in Leaders' /\ n \in Running
    BY <1>2, <1>6 DEF Leaders, Running
  <2>2. Leaders = {}
    <3> SUFFICES ASSUME NEW k \in Leaders
                 PROVE  FALSE
      OBVIOUS
    <3>1. k # n /\ k \in Leaders'
      BY <1>2, <1>6 DEF Leaders
    <3> QED
      BY <1>1, <2>1, <3>1 DEF SingleLeader
  <2>3. Active = N /\ Active' = n
    BY <1>1, <2>1, <2>2, ActiveFacts, ActiveFactsAfter
  <2> QED
    BY <1>5, <2>1, <2>3 DEF CM!Elect, Active
<1>7. CASE ~(state'[n] = "LEADER" /\ state[n] # "LEADER")
  <2>1. Leaders' = Leaders
    BY <1>2, <1>3, <1>7 DEF Leaders
  <2> QED
    BY SMTT(30), <1>5, <2>1 DEF CM!cmVars
<1> QED
  BY <1>6, <1>7

\* Every step of an undisturbed pool is one of CentralManager, or none.
LEMMA StepIsCMStep ==
    ASSUME Undisturbed, SyncInv, SyncInv', ListedOnce, LateInv, [SyncNext]_syncVars
    PROVE  [CM!CMNext]_(CM!cmVars)
<1>1. TypeOK /\ SingleLeader /\ SingleLeader'
  BY DEF SyncInv, SyncTypeOK
<1>2. ASSUME state' = state
      PROVE  UNCHANGED CM!cmVars
  BY SMTT(30), <1>2 DEF CM!cmVars, Running, Leaders
<1>3. ASSUME NEW n \in Node, SyncStart(n)
      PROVE  CM!Begin(n)
  <2>1. state[n] = "DOWN" /\ state' = [state EXCEPT ![n] = "PRE"]
    BY <1>3 DEF SyncStart, initialize, Fresh
  <2>2. /\ n \notin Running /\ Running' = Running \cup {n}
        /\ Leaders' = Leaders
    BY <1>1, <2>1 DEF Running, Leaders, TypeOK
  <2> QED
    BY SMTT(30), <2>2 DEF CM!Begin
<1>4. ASSUME NEW n \in Node, SyncEnd(n)
      PROVE  CM!Finish(n)
  <2>1. state[n] # "DOWN" /\ state' = [state EXCEPT ![n] = "DOWN"]
    BY <1>4 DEF SyncEnd, Exit, MachineDown, Shutdown, Ended
  <2>2. /\ n \in Running /\ Running' = Running \ {n}
        /\ Leaders' = Leaders \ {n}
    BY <1>1, <2>1 DEF Running, Leaders, TypeOK
  <2>3. Active' = IF Active = n THEN N ELSE Active
    <3>1. n # N
      BY SMTT(30), HADAssumption DEF Node
    <3>2. CASE Leaders = {}
      BY <1>1, <2>2, <3>1, <3>2, ActiveFacts, ActiveFactsAfter
    <3>3. CASE Leaders # {}
      <4>1. PICK l \in Leaders : TRUE
        BY <3>3
      <4>2. Active = l /\ Leaders = {l}
        BY <1>1, ActiveFacts DEF SingleLeader
      <4>3. CASE l = n
        BY <1>1, <2>2, <4>2, <4>3, ActiveFactsAfter
      <4>4. CASE l # n
        BY <1>1, <2>2, <4>2, <4>4, ActiveFactsAfter
      <4> QED
        BY <4>3, <4>4
    <3> QED
      BY <3>2, <3>3
  <2> QED
    BY <2>2, <2>3 DEF CM!Finish, Active
<1>5. ASSUME NEW n \in Node, SyncPass(n) \/ SyncPassFormer(n) \/ SyncSoft(n)
      PROVE  UNCHANGED CM!cmVars
  BY <1>2, <1>5 DEF SyncPass, SyncPassFormer, SyncSoft, softReconfigure, vars
<1>6. ASSUME NEW m \in msgs, SyncReceive(m) \/ SyncLose(m)
      PROVE  UNCHANGED CM!cmVars
  BY <1>2, <1>6 DEF SyncReceive, SyncLose, commandHandlerHad, Deliver, Lose
<1>7. ASSUME NEW n \in Node, SyncReinitialize(n)
      PROVE  FALSE
  BY <1>7 DEF SyncReinitialize, reinitialize, Happens, Undisturbed
<1>8. CASE UNCHANGED syncVars
  BY <1>2, <1>8 DEF syncVars, vars
<1>9. /\ \A n \in Node : ~SyncEarlyCycle(n)
      /\ \A m \in msgs : ~SyncReceiveCopy(m)
  BY InStep DEF SyncInv
<1> QED
  BY <1>3, <1>4, <1>5, <1>6, <1>7, <1>8, <1>9, CycleElects DEF SyncNext, CM!CMNext

\* An undisturbed pool starts with the invariant.
LEMMA SyncInvInitially ==
    ASSUME Undisturbed, SyncInit, TypeOK
    PROVE  SyncInv /\ ListedOnce /\ LateInv /\ CM!CMInit
<1>1. /\ \A n \in Node : state[n] = "DOWN" /\ usePrimary[n] = FALSE
      /\ schedule = <<>> /\ msgs = {} /\ early = [n \in Node |-> 0]
  BY DEF SyncInit, Init, Undisturbed
<1>2. SyncTypeOK
  BY SMTT(30), <1>1 DEF SyncTypeOK, Running
<1>3. NoPrimaries /\ SingleLeader
  BY <1>1 DEF NoPrimaries, SingleLeader, Leaders
<1>4. Pairs
  BY <1>1 DEF Pairs, Pair, Listens, Ends
<1>5. Range(schedule) = {}
  BY SMTT(30), <1>1 DEF Range
<1>6. LateInv
  BY <1>1, <1>5 DEF LateInv, Placed, Late, Ends, Handled, Settled
<1>7. CM!CMInit
  BY <1>1 DEF CM!CMInit, Running, Leaders
<1>8. ListedOnce
  BY <1>1 DEF SyncInit, Init, ListedOnce
<1> QED
  BY <1>2, <1>3, <1>4, <1>6, <1>7, <1>8 DEF SyncInv

\* The safety part of ImplementsCentralManager, in a pool of any size without a
\* primary in which no command is lost and no HAD is reinitialized: a HAD becomes
\* the leader only while there is none, and then stays it until its process ends
\* (step, sendMessages, commandHandlerHad, cycle).
THEOREM LeadsUntilItEnds ==
    Undisturbed => (SyncSpec => CM!CMSafety)
<1> SUFFICES ASSUME Undisturbed
             PROVE  SyncSpec => CM!CMSafety
  OBVIOUS
<1>1. SyncInit => Init
  BY DEF SyncInit
<1>2. SyncInit /\ TypeOK => SyncInv /\ ListedOnce /\ LateInv /\ CM!CMInit
  BY SyncInvInitially
<1>3. TypeOK' /\ SyncInv /\ ListedOnce /\ [SyncNext]_syncVars => SyncInv'
  BY SyncInvKept
<1>4. SyncInv /\ SyncInv' /\ ListedOnce /\ LateInv /\ [SyncNext]_syncVars => LateInv'
  BY LateKept
<1>5. SyncInv /\ SyncInv' /\ ListedOnce /\ LateInv /\ [SyncNext]_syncVars
        => [CM!CMNext]_(CM!cmVars)
  BY StepIsCMStep
<1>6. TypeOK /\ ListedOnce /\ [Next]_vars => ListedOnce'
  BY ListedOnceKept
<1> QED
  BY <1>1, <1>2, <1>3, <1>4, <1>5, <1>6, SyncStepIsStep, TypeCorrect, PTL
  DEF SyncSpec, Spec, CM!CMSafety
=============================================================================
