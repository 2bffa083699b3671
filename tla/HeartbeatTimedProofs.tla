------------------------ MODULE HeartbeatTimedProofs ------------------------
(***************************************************************************)
(* Proofs about the election on perfect clocks, for every length of the    *)
(* sleep and of the timeouts.  The timed election is the election of       *)
(* module Heartbeat, so its theorems hold here too.  The time a unit takes *)
(* to replace the other one is bounded by what it has left to do, which    *)
(* shrinks with every tick: two accepts, and a sleep for each rank that    *)
(* waits in its backlog, and one more.  That bound needs no room: it is    *)
(* the one TLC finds to be the smallest.                                   *)
(***************************************************************************)
EXTENDS HeartbeatTimed, HeartbeatProofs

\* The sleeps that n waiting ranks cost.
Load(n) == n * SleepTicks

\* What a unit that is deaf from now on still has to wait for once the accept it
\* is in, or entering, has timed out.
AfterTimeout(u) ==
    CASE at[u] = "start"              -> SleepTicks + 2 * AcceptTicks
      [] at[u] \in {"contest", "raise"} -> 0
      [] OTHER                        -> AcceptTicks

\* The ticks a deserted unit needs at most before it is alpha, by where its thread
\* is and what its backlog holds.
Patience(u) ==
    LET n == Len(backlog[u])
        rounds == Load(n) + 2 * AcceptTicks
    IN  CASE phase[u] \in {"sleep", "backoff"} -> left[u] + rounds
          [] phase[u] = "accept" -> IF n = 0 THEN left[u] + AfterTimeout(u) ELSE rounds
          [] OTHER ->
               IF at[u] = "start" \/ otherRank[u] # 0 THEN Load(n + 1) + 2 * AcceptTicks
               ELSE IF at[u] \in {"contest", "raise"} THEN 0
               ELSE IF n = 0 THEN AcceptTicks ELSE rounds

\* The most that can be: a first round with a full backlog.
Longest == Load(Backlog + 1) + 2 * AcceptTicks

-----------------------------------------------------------------------------
\* No socket queues more than its backlog, none of a stopped unit queues anything.
QueuesFit ==
    \A u \in Unit :
        /\ Len(backlog[u]) <= Backlog
        /\ phase[u] = "off" => backlog[u] = <<>>

\* A unit sleeps at the top of run()'s loop.  In a contest its rank has been
\* raised: it beats an absent unit's.
Placed ==
    \A u \in Unit :
        /\ phase[u] = "sleep" => at[u] = "wake"
        /\ at[u] \in {"contest", "raise"} => myRank[u] >= 2

\* An accept and a backoff are short.
TimersFit ==
    \A u \in Unit : phase[u] \in {"accept", "backoff"} => left[u] <= AcceptTicks

TimedInv == IInv /\ QueuesFit /\ Placed /\ TimedTypeOK /\ TimersFit

\* A deserted unit's waiting and what it has yet to wait for fit into Limit.
OnSchedule ==
    \A u \in Unit :
        IF Deserted(u) THEN alone[u] + Patience(u) <= Limit ELSE alone[u] = 0

-----------------------------------------------------------------------------
\* The two units of a settled pair and all they say to each other: the beta u knows,
\* or is to read, rank 1, and the alpha knows, or is to read, rank 0.
Note(r) == [kind |-> "rank", rank |-> r]

Says(q, r) == \A i \in 1 .. Len(q) : q[i] = Note(r)

Follows(u) ==
    /\ phase[u] \in {"sleep", "accept", "connect"} /\ at[u] \in {"start", "wake"}
    /\ myRank[u] = 0 /\ status[u] = Beta
    /\ Says(backlog[u], 1)
    /\ phase[u] = "connect" => at[u] = "start" \/ otherRank[u] = 1

Leads(v) ==
    /\ phase[v] \in {"sleep", "accept", "connect"} /\ at[v] = "wake"
    /\ myRank[v] = 1 /\ status[v] = Alpha
    /\ Says(backlog[v], 0)
    /\ phase[v] = "connect" => otherRank[v] = 0

Pair(u) == link /\ Follows(u) /\ Leads(Peer(u))

Awake(x) == phase[x] \in {"sleep", "accept"}

\* Ticks until x can read, and until it gives up reading.
Reads(x)   == IF phase[x] = "sleep" THEN left[x] ELSE 0
GivesUp(x) == IF phase[x] = "sleep" THEN left[x] + AcceptTicks ELSE left[x]

Waiting(x) == Len(backlog[x])

\* The joiner has heard nothing yet and gives up no later than the alpha does.
Fresh(u) ==
    LET v == Peer(u) IN
    /\ phase[u] = "accept" /\ at[u] = "start" /\ Awake(v)
    /\ Waiting(u) = 0 /\ Waiting(v) = 0
    /\ left[u] <= GivesUp(v)

\* One rank is on its way: it waits for x, which reads it before y gives up ...
InBox(x) ==
    LET y == Peer(x) IN
    /\ Awake(x) /\ Awake(y)
    /\ Waiting(x) = 1 /\ Waiting(y) = 0
    /\ Reads(x) < GivesUp(y)

\* ... or x has read it and writes its own at once, before the beta can give up.
InHand(u, x) ==
    LET y == Peer(x) IN
    /\ phase[x] = "connect" /\ Awake(y)
    /\ Waiting(x) = 0 /\ Waiting(y) = 0
    /\ x # u => GivesUp(u) > 0 \/ at[u] = "start"

\* Two ranks are on their way: the units run in step.  A unit that is due reads one
\* and writes one before time goes on.
Due(x, extra) ==
    \/ phase[x] = "sleep" /\ left[x] = 0 /\ Waiting(x) = 1 + extra
    \/ phase[x] = "accept" /\ Waiting(x) = 1 + extra
    \/ phase[x] = "connect" /\ Waiting(x) = extra

InStep(x) ==
    LET y == Peer(x) IN
    \/ /\ phase[x] = "sleep" /\ phase[y] = "sleep" /\ left[x] = left[y]
       /\ Waiting(x) = 1 /\ Waiting(y) = 1
    \/ Due(x, 0) /\ Due(y, 0)
    \/ phase[x] = "sleep" /\ left[x] = SleepTicks /\ Waiting(x) = 0 /\ Due(y, 1)

Tempo(u) ==
    \/ Fresh(u)
    \/ \E x \in Unit : InBox(x) \/ InHand(u, x) \/ InStep(x)

JoinedInTempo == \A u \in joined : Pair(u) /\ Tempo(u)
-----------------------------------------------------------------------------
\* Every step of the timed election is one of the election, or only time passes.
LEMMA TimedStepIsStep ==
    ASSUME [TimedNext]_timedVars
    PROVE  [Next]_vars
  BY DEF TimedNext, TimedThread, TimedEnvironment, Tick, timedVars,
         Next, Thread, Environment

\* The election on perfect clocks is one of module Heartbeat's: perfect clocks
\* only take orders of steps away.
THEOREM PerfectClocks == TimedSpec => Spec
<1>1. TimedInit => Init
  BY DEF TimedInit
<1> QED
  BY <1>1, TimedStepIsStep, PTL DEF TimedSpec, Spec

-----------------------------------------------------------------------------
\* Where a round goes on when synchronize() returns: it ends in the sleep, or the
\* rank is raised and the next accept follows, or a draw backs off.
Goes(u) ==
    \E p \in Phase, a \in Place, r \in Rank :
        /\ phase' = [phase EXCEPT ![u] = p]
        /\ at' = [at EXCEPT ![u] = a]
        /\ myRank' = [myRank EXCEPT ![u] = r]
        /\ \/ p = "sleep" /\ a = "wake"
           \/ p = "accept" /\ a \in {"contest", "raise"} /\ r = myRank[u] + 2
           \/ p = "backoff" /\ a = "draw"

LEMMA EndRoundGoes ==
    ASSUME NEW u \in Unit, NEW rank \in Rank, NEW role, EndRound(u, rank, role)
    PROVE  Goes(u)
  BY DEF EndRound, Goto, Goes, Phase, Place

LEMMA RaiseGoes ==
    ASSUME NEW u \in Unit, NEW place \in {"contest", "raise"}, TypeOK, Raise(u, place)
    PROVE  Goes(u)
<1>1. /\ phase' = [phase EXCEPT ![u] = "accept"]
      /\ at' = [at EXCEPT ![u] = place]
      /\ myRank' = [myRank EXCEPT ![u] = myRank[u] + 2]
      /\ myRank[u] + 2 \in Rank
      /\ "accept" \in Phase /\ place \in Place
  BY DEF Raise, Goto, Phase, Place, TypeOK
<1> QED
  BY <1>1 DEF Goes

LEMMA ReturnGoes ==
    ASSUME NEW u \in Unit, NEW other \in Rank, TypeOK, Return(u, other)
    PROVE  Goes(u)
<1>0. 0 \in Rank /\ myRank[u] \in Rank /\ status[u] \in {Alpha, Beta}
  BY MaxRankAssumption DEF TypeOK, Rank
<1>1. CASE \E rank \in Rank, role \in {Alpha, Beta} : EndRound(u, rank, role)
  BY <1>1, EndRoundGoes
<1>2. CASE \E place \in {"contest", "raise"} : Raise(u, place)
  BY <1>2, RaiseGoes
<1>3. CASE /\ Goto(u, "backoff", "draw")
           /\ UNCHANGED <<myRank, status, wasBeta, alerted>>
  <2>1. myRank' = [myRank EXCEPT ![u] = myRank[u]]
    BY <1>3 DEF TypeOK
  <2> QED
    BY <1>0, <1>3, <2>1 DEF Goto, Goes, Phase, Place
<1>4. CASE at[u] = "start" /\ AfterStart(u, other)
  BY <1>0, <1>1, <1>2, <1>4 DEF AfterStart, alphaContest
<1>5. CASE at[u] = "wake" /\ AfterWake(u, other)
  <2>1. CASE EndRound(u, 1, Alpha) /\ myRank[u] > other
    <3>1. 1 \in Rank
      BY <2>1, <1>0, MaxRankAssumption DEF Rank
    <3> QED
      BY <3>1, <2>1, <1>1
  <2> QED
    BY <1>0, <1>1, <1>2, <1>5, <2>1 DEF AfterWake, alphaContest
<1>6. CASE at[u] \in {"contest", "raise"} /\ AfterRaise(u, other)
  BY <1>0, <1>1, <1>3, <1>6 DEF AfterRaise, Verdict
<1>7. CASE at[u] = "draw" /\ AfterDraw(u, other)
  BY <1>0, <1>1, <1>2, <1>7 DEF AfterDraw, Verdict
<1> QED
  BY <1>4, <1>5, <1>6, <1>7 DEF Return

\* Seen from the unit.
LEMMA GoesPlaced ==
    ASSUME NEW u \in Unit, TypeOK, Placed, Goes(u)
    PROVE  /\ Placed'
           /\ phase'[u] \in {"sleep", "accept", "backoff"}
           /\ \A v \in Unit \ {u} : phase'[v] = phase[v]
  BY MaxRankAssumption DEF Goes, Placed, TypeOK, Rank
LEMMA QueueLengths ==
    ASSUME NEW s \in Seq(Message)
    PROVE  /\ Len(s) \in Nat
           /\ \A m \in Message : Len(Append(s, m)) = Len(s) + 1
           /\ s # <<>> => Len(s) >= 1 /\ Len(Tail(s)) = Len(s) - 1
           /\ Len(s) = 0 <=> s = <<>>
  OBVIOUS

\* Whoever connects finds a running peer with room in its queue.
LEMMA AppendFits ==
    ASSUME NEW u \in Unit, NEW m \in Message, TypeOK, QueuesFit, Accepting(u)
    PROVE  /\ Len(Append(backlog[Peer(u)], m)) <= Backlog
           /\ phase[Peer(u)] # "off"
<1>1. Peer(u) \in Unit /\ backlog[Peer(u)] \in Seq(Message)
  BY PeerIsOther DEF TypeOK
<1>2. Len(Append(backlog[Peer(u)], m)) = Len(backlog[Peer(u)]) + 1
  BY <1>1, QueueLengths
<1>3. Len(backlog[Peer(u)]) \in Nat
  BY <1>1, QueueLengths
<1> QED
  BY <1>2, <1>3, BacklogAssumption DEF Accepting

LEMMA ReadFits ==
    ASSUME NEW u \in Unit, TypeOK, QueuesFit, backlog[u] # <<>>
    PROVE  Len(Tail(backlog[u])) <= Backlog
<1>1. Len(Tail(backlog[u])) = Len(backlog[u]) - 1 /\ Len(backlog[u]) \in Nat
  BY QueueLengths DEF TypeOK
<1> QED
  BY <1>1, BacklogAssumption DEF QueuesFit

\* Both hold in the election of module Heartbeat already.
LEMMA ThreadFits ==
    ASSUME NEW u \in Unit, TypeOK, QueuesFit, Placed, Thread(u)
    PROVE  QueuesFit' /\ Placed'
<1>1. CASE AcceptRank(u) \/ AcceptEof(u) \/ AcceptSilent(u)
  <2>1. /\ phase[u] = "accept" /\ backlog[u] # <<>>
        /\ backlog' = [backlog EXCEPT ![u] = Tail(@)]
        /\ \E p \in {"connect", "stuck"} : phase' = [phase EXCEPT ![u] = p]
        /\ at' = [at EXCEPT ![u] = at[u]] /\ myRank' = myRank
    BY <1>1 DEF AcceptRank, AcceptEof, AcceptSilent, Goto
  <2>2. QueuesFit'
    BY <2>1, ReadFits DEF QueuesFit, TypeOK
  <2>3. Placed'
    BY <2>1 DEF Placed, TypeOK
  <2> QED
    BY <2>2, <2>3
<1>2. CASE AcceptTimeout(u)
  BY <1>2 DEF AcceptTimeout, Goto, QueuesFit, Placed, TypeOK
<1>3. CASE Wake(u) \/ BackoffEnds(u)
  BY <1>3 DEF Wake, BackoffEnds, Goto, QueuesFit, Placed, TypeOK
<1>4. CASE SendRank(u)
  <2>1. Goes(u)
    BY <1>4, ReturnGoes DEF SendRank, TypeOK
  <2>2. [kind |-> "rank", rank |-> myRank[u]] \in Message
    BY DEF TypeOK, Message
  <2>3. /\ backlog' = [backlog EXCEPT ![Peer(u)] =
                         Append(@, [kind |-> "rank", rank |-> myRank[u]])]
        /\ Accepting(u) /\ phase[u] = "connect"
    BY <1>4 DEF SendRank
  <2>4. QueuesFit'
    BY <2>1, <2>2, <2>3, AppendFits, GoesPlaced, PeerIsOther DEF QueuesFit, TypeOK
  <2> QED
    BY <2>1, <2>4, GoesPlaced
<1>5. CASE ConnectFails(u) \/ ConnectError(u)
  <2>1. PICK other \in Rank : Return(u, other)
    BY <1>5, MaxRankAssumption DEF ConnectFails, ConnectError, TypeOK, Rank
  <2>2. Goes(u) /\ backlog' = backlog
    BY <1>5, <2>1, ReturnGoes DEF ConnectFails, ConnectError
  <2>3. QueuesFit'
    BY <2>2, GoesPlaced DEF QueuesFit, TypeOK
  <2> QED
    BY <2>2, <2>3, GoesPlaced
<1> QED
  BY <1>1, <1>2, <1>3, <1>4, <1>5 DEF Thread

LEMMA EnvironmentFits ==
    ASSUME TypeOK, QueuesFit, Placed, Environment
    PROVE  QueuesFit' /\ Placed'
<1>1. ASSUME NEW u \in Unit, Start(u) PROVE QueuesFit' /\ Placed'
  BY <1>1 DEF Start, Goto, QueuesFit, Placed, TypeOK
<1>2. ASSUME NEW u \in Unit, Exit(u) \/ PowerLoss(u) PROVE QueuesFit' /\ Placed'
  <2>1. PICK leaves \in {"eof", "silent"}, fault \in {"exit", "power"} :
          Stop(u, fault, leaves)
    BY <1>2 DEF Exit, PowerLoss
  <2>2. Placed'
    BY <2>1 DEF Stop, Placed, TypeOK
  <2>3. Len(<<>>) = 0 /\ [kind |-> leaves, rank |-> 0] \in Message
    BY DEF Message
  <2>a. /\ phase'[u] = "off"
        /\ \A v \in Unit \ {u} : phase'[v] = phase[v]
    BY <2>1 DEF Stop, TypeOK
  <2>4. CASE backlog' = [backlog EXCEPT ![u] = <<>>]
    <3>1. /\ backlog'[u] = <<>>
          /\ \A v \in Unit \ {u} : backlog'[v] = backlog[v]
      BY <2>4 DEF TypeOK
    <3>2. Len(backlog'[u]) <= Backlog
      BY <3>1, <2>3, BacklogAssumption
    <3>3. \A v \in Unit \ {u} : /\ Len(backlog'[v]) <= Backlog
                                /\ phase'[v] = "off" => backlog'[v] = <<>>
      BY <3>1, <2>a DEF QueuesFit
    <3> QED
      BY <2>2, <3>1, <3>2, <3>3 DEF QueuesFit
  <2>5. CASE /\ Accepting(u)
             /\ backlog' = [backlog EXCEPT ![u] = <<>>,
                              ![Peer(u)] = Append(@, [kind |-> leaves, rank |-> 0])]
    <3>1. /\ backlog'[u] = <<>>
          /\ backlog'[Peer(u)] = Append(backlog[Peer(u)], [kind |-> leaves, rank |-> 0])
          /\ \A v \in Unit \ {u, Peer(u)} : backlog'[v] = backlog[v]
      BY <2>5, PeerIsOther DEF TypeOK
    <3>2. Len(backlog'[u]) <= Backlog
      BY <3>1, <2>3, BacklogAssumption
    <3>3. Len(backlog'[Peer(u)]) <= Backlog /\ phase'[Peer(u)] # "off"
      BY <2>3, <2>5, <2>a, <3>1, AppendFits, PeerIsOther
    <3>4. \A v \in Unit \ {u, Peer(u)} : /\ Len(backlog'[v]) <= Backlog
                                         /\ phase'[v] = "off" => backlog'[v] = <<>>
      BY <3>1, <2>a DEF QueuesFit
    <3> QED
      BY <2>2, <3>1, <3>2, <3>3, <3>4 DEF QueuesFit
  <2> QED
    BY <2>1, <2>2, <2>4, <2>5 DEF Stop
<1>3. CASE LinkChanges
  BY <1>3 DEF LinkChanges, unitVars, QueuesFit, Placed
<1> QED
  BY <1>1, <1>2, <1>3 DEF Environment
LEMMA StepFits ==
    ASSUME TypeOK, QueuesFit, Placed, [Next]_vars
    PROVE  QueuesFit' /\ Placed'
<1>1. CASE UNCHANGED vars
  BY <1>1 DEF vars, unitVars, QueuesFit, Placed
<1> QED
  BY <1>1, ThreadFits, EnvironmentFits DEF Next

\* A thread sets its own unit's fields only, and goes from a call to a call.
LEMMA ThreadFrame ==
    ASSUME NEW u \in Unit, IInv, Thread(u)
    PROVE  /\ phase[u] # "off" /\ phase'[u] # "off"
           /\ \A v \in Unit \ {u} :
                /\ phase'[v] = phase[v] /\ at'[v] = at[v]
                /\ myRank'[v] = myRank[v] /\ otherRank'[v] = otherRank[v]
                /\ status'[v] = status[v]
<1>0. TypeOK /\ 0 \in Rank
  BY MaxRankAssumption DEF IInv, Rank
<1>1. CASE \E other \in Rank : phase[u] = "connect" /\ Return(u, other)
  <2>1. ReturnEffect(u, 0) \/ \E other \in Rank : ReturnEffect(u, other)
    BY <1>1, ReturnHasEffect DEF Running
  <2>2. /\ phase'[u] # "off"
        /\ \A v \in Unit \ {u} : /\ phase'[v] = phase[v] /\ at'[v] = at[v]
                                 /\ myRank'[v] = myRank[v] /\ status'[v] = status[v]
    BY <1>0, <2>1 DEF ReturnEffect, TypeOK
  <2>3. \A v \in Unit \ {u} : otherRank'[v] = otherRank[v]
    BY <1>0, <1>1
    DEF Thread, AcceptRank, AcceptEof, AcceptSilent, AcceptTimeout, SendRank,
        ConnectFails, ConnectError, Wake, BackoffEnds, TypeOK
  <2> QED
    BY <1>1, <2>2, <2>3
<1>2. CASE SendRank(u) \/ ConnectFails(u) \/ ConnectError(u)
  BY <1>0, <1>1, <1>2 DEF SendRank, ConnectFails, ConnectError, TypeOK
<1>3. CASE ~(SendRank(u) \/ ConnectFails(u) \/ ConnectError(u))
  BY <1>0, <1>3
  DEF Thread, AcceptRank, AcceptEof, AcceptSilent, AcceptTimeout, Wake, BackoffEnds,
      Goto, TypeOK
<1> QED
  BY <1>2, <1>3

-----------------------------------------------------------------------------
\* The timer of the call a thread enters.
LEMMA TimerSet ==
    ASSUME NEW u \in Unit, TimedTypeOK, TimersFit, SetTimer(u),
           \A v \in Unit \ {u} : phase'[v] = phase[v]
    PROVE  /\ left' \in [Unit -> 0 .. SleepTicks]
           /\ alone' \in [Unit -> 0 .. Limit + 1]
           /\ TimersFit'
<1>1. PICK d \in Duration(phase'[u]) : left' = [left EXCEPT ![u] = d]
  BY DEF SetTimer
<1>2. /\ d \in 0 .. SleepTicks
      /\ phase'[u] \in {"accept", "backoff"} => d <= AcceptTicks
  BY <1>1, TicksAssumption DEF Duration
<1>3. alone' \in [Unit -> 0 .. Limit + 1]
  BY TicksAssumption DEF SetTimer, TimedTypeOK
<1> QED
  BY <1>1, <1>2, <1>3 DEF TimedTypeOK, TimersFit

LEMMA TimedStepTypes ==
    ASSUME TimedInv, [TimedNext]_timedVars
    PROVE  TimedInv'
<1>0. IInv /\ TypeOK /\ QueuesFit /\ Placed /\ TimedTypeOK /\ TimersFit
  BY DEF TimedInv, IInv
<1>1. IInv' /\ TypeOK' /\ QueuesFit' /\ Placed'
  BY <1>0, TimedStepIsStep, NextIInv, StepFits DEF IInv
<1> SUFFICES TimedTypeOK' /\ TimersFit'
  BY <1>1 DEF TimedInv
<1>2. ASSUME NEW u \in Unit, TimedThread(u)
      PROVE  TimedTypeOK' /\ TimersFit'
  <2>1. \A v \in Unit \ {u} : phase'[v] = phase[v]
    BY <1>0, <1>2, ThreadFrame DEF TimedThread, Thread
  <2> QED
    BY <1>0, <1>1, <1>2, <2>1, TimerSet DEF TimedThread, TimedTypeOK
<1>3. ASSUME NEW u \in Unit,
             SetTimer(u), joined' \subseteq Unit,
             Start(u) \/ Exit(u) \/ PowerLoss(u)
      PROVE  TimedTypeOK' /\ TimersFit'
  <2>1. \A v \in Unit \ {u} : phase'[v] = phase[v]
    BY <1>0, <1>3 DEF Start, Exit, PowerLoss, Stop, Goto, TypeOK
  <2> QED
    BY <1>0, <1>1, <1>3, <2>1, TimerSet DEF TimedTypeOK
<1>4. CASE TimedEnvironment
  <2>1. CASE LinkChanges /\ joined' = {} /\ UNCHANGED <<left, alone>>
    <3>1. TimersFit'
      BY <1>0, <2>1 DEF LinkChanges, unitVars, TimersFit
    <3>2. joined' \subseteq Unit
      BY <2>1
    <3> QED
      BY <1>0, <1>1, <2>1, <3>1, <3>2, Zenon DEF TimedTypeOK
  <2>2. CASE \E u \in Unit : Start(u) /\ SetTimer(u) /\ joined' = IF Settled(Peer(u)) THEN {u} ELSE {}
    <3>1. joined' \subseteq Unit
      BY <2>2, Zenon DEF Settled
    <3> QED
      BY <1>3, <2>2, <3>1
  <2>3. CASE \E u \in Unit : (Exit(u) \/ PowerLoss(u)) /\ SetTimer(u) /\ joined' = {}
    <3>1. joined' \subseteq Unit
      BY <2>3
    <3> QED
      BY <1>3, <2>3, <3>1
  <2> QED
    BY <1>4, <2>1, <2>2, <2>3, Zenon DEF TimedEnvironment
<1>5. CASE Tick
  <2>1. left' \in [Unit -> 0 .. SleepTicks] /\ \A u \in Unit : left'[u] <= left[u]
    BY <1>0, <1>5, TicksAssumption DEF Tick, TimedTypeOK
  <2>2. alone' \in [Unit -> 0 .. Limit + 1]
    BY <1>0, <1>5, TicksAssumption DEF Tick, TimedTypeOK
  <2>3. TimersFit'
    BY <1>0, <1>5, <2>1, TicksAssumption DEF Tick, TimersFit, TimedTypeOK, vars, unitVars
  <2> QED
    BY <1>0, <1>1, <1>5, <2>1, <2>2, <2>3, Zenon DEF Tick, TimedTypeOK
<1>6. CASE UNCHANGED timedVars
  <2>1. phase' = phase /\ left' = left /\ alone' = alone /\ joined' = joined
    BY <1>6 DEF timedVars, vars, unitVars
  <2>2. TimersFit'
    BY <1>0, <2>1 DEF TimersFit
  <2> QED
    BY <1>0, <1>1, <2>1, <2>2, Zenon DEF TimedTypeOK
<1> QED
  BY <1>1, <1>2, <1>4, <1>5, <1>6 DEF TimedNext, TimedInv

LEMMA TimedInvHolds == TimedSpec => []TimedInv
<1>1. TimedInit => TimedInv
  <2>1. SUFFICES ASSUME TimedInit PROVE TimedInv
    OBVIOUS
  <2>2. IInv /\ TypeOK
    BY <2>1, InitIInv DEF TimedInit, IInv
  <2>3. Len(<<>>) = 0
    OBVIOUS
  <2>4. QueuesFit /\ Placed
    BY <2>1, <2>3, BacklogAssumption DEF TimedInit, Init, QueuesFit, Placed
  <2>5. TimedTypeOK /\ TimersFit
    <3>1. left \in [Unit -> 0 .. SleepTicks] /\ alone \in [Unit -> 0 .. Limit + 1] /\ TimersFit
      BY <2>1, TicksAssumption DEF TimedInit, TimersFit
    <3>2. joined \subseteq Unit
      BY <2>1 DEF TimedInit
    <3> QED
      BY <2>2, <3>1, <3>2, Zenon DEF TimedTypeOK
  <2> QED
    BY <2>2, <2>4, <2>5 DEF TimedInv
<1> QED
  BY <1>1, TimedStepTypes, PTL DEF TimedSpec

\* Every reachable state of the timed election is well typed: no sleep or timeout
\* is ever longer than it is set, and the clocks stop counting.
THEOREM TimedTypeCorrect == TimedSpec => []TimedTypeOK
<1>1. TimedInv => TimedTypeOK
  BY DEF TimedInv
<1> QED
  BY <1>1, TimedInvHolds, PTL
-----------------------------------------------------------------------------
\* The other unit's peer is this unit.
LEMMA UnitsAreTwo ==
    ASSUME NEW u \in Unit, NEW v \in Unit, v # u
    PROVE  v = Peer(u) /\ u = Peer(v)
<1>1. Peer(u) \in Unit /\ Peer(u) # u
  BY PeerIsOther
<1>2. Peer(v) \in Unit /\ Peer(v) # v
  BY PeerIsOther
<1>3. ASSUME NEW x \in Unit, NEW y \in Unit, NEW z \in Unit, y # x, z # x
      PROVE  y = z
  <2>1. IsFiniteSet(Unit \ {x}) /\ Cardinality(Unit \ {x}) = 1
    BY UnitAssumption, FS_RemoveElement
  <2>2. PICK w : Unit \ {x} = {w}
    BY <2>1, FS_Singleton
  <2> QED
    BY <1>3, <2>2
<1> QED
  BY <1>1, <1>2, <1>3

LEMMA Loads ==
    /\ Load(0) = 0
    /\ \A n \in Nat : Load(n) \in Nat /\ Load(n + 1) = Load(n) + SleepTicks
    /\ \A m, n \in Nat : m <= n => Load(m) <= Load(n)
<1>1. SleepTicks \in Nat
  BY TicksAssumption
<1>2. \A n \in Nat : n * SleepTicks \in Nat /\ (n + 1) * SleepTicks = n * SleepTicks + SleepTicks
  BY <1>1
<1>3. ASSUME NEW m \in Nat, NEW n \in Nat, m <= n
      PROVE  m * SleepTicks <= n * SleepTicks
  <2>1. PICK k \in Nat : n = m + k
    BY <1>3
  <2>2. n * SleepTicks = m * SleepTicks + k * SleepTicks
    BY <1>1, <2>1
  <2>3. k * SleepTicks \in Nat /\ m * SleepTicks \in Nat
    BY <1>1
  <2> QED
    BY <2>2, <2>3
<1> QED
  BY <1>1, <1>2, <1>3 DEF Load

\* No unit needs longer than a first round with a full backlog takes.
PatienceFits == TimedInv => \A u \in Unit : Patience(u) \in Nat /\ Patience(u) <= Longest

LEMMA PatienceIsBounded == PatienceFits
<1> SUFFICES ASSUME TimedInv, NEW u \in Unit
             PROVE  Patience(u) \in Nat /\ Patience(u) <= Longest
  BY DEF PatienceFits
<1> DEFINE n == Len(backlog[u])
<1>1. n \in Nat /\ n <= Backlog
  BY QueueLengths DEF TimedInv, TimedTypeOK, TypeOK, QueuesFit
<1>2. left[u] \in Nat /\ left[u] <= SleepTicks
  BY TicksAssumption DEF TimedInv, TimedTypeOK
<1>3. phase[u] \in {"accept", "backoff"} => left[u] <= AcceptTicks
  BY DEF TimedInv, TimersFit
<1>4. /\ Load(n) \in Nat /\ Load(n + 1) = Load(n) + SleepTicks
      /\ Load(n + 1) <= Load(Backlog + 1)
  <2> HIDE DEF n
  <2>1. n + 1 \in Nat /\ Backlog + 1 \in Nat /\ n + 1 <= Backlog + 1
    BY <1>1, BacklogAssumption
  <2>2. Load(n + 1) <= Load(Backlog + 1)
    BY <2>1, Loads
  <2> QED
    BY <1>1, <2>2, Loads
<1>5. AcceptTicks \in Nat /\ SleepTicks \in Nat /\ SleepTicks > AcceptTicks
  BY TicksAssumption
<1>6. /\ AfterTimeout(u) \in Nat
      /\ AfterTimeout(u) <= SleepTicks + 2 * AcceptTicks
  BY <1>5 DEF AfterTimeout
<1>7. Load(Backlog + 1) >= 2 * SleepTicks
  <2>1. Load(1 + 1) = Load(0 + 1) + SleepTicks /\ Load(0 + 1) = Load(0) + SleepTicks
    BY Loads
  <2>2. Load(1 + 1) <= Load(Backlog + 1)
    BY Loads, BacklogAssumption
  <2>3. Load(Backlog + 1) \in Nat
    BY Loads, BacklogAssumption
  <2> QED
    BY <2>1, <2>2, <2>3, <1>5, Loads
<1>8. Load(Backlog + 1) \in Nat
  BY Loads, BacklogAssumption
<1> DEFINE full == Load(Backlog + 1)
           a == AfterTimeout(u)
           l == Load(n)
           l1 == Load(n + 1)
<1>9. CASE phase[u] \in {"sleep", "backoff"}
  <2>1. Patience(u) = left[u] + (l + 2 * AcceptTicks)
    BY <1>9 DEF Patience
  <2> HIDE DEF l, full, l1
  <2> QED
    BY <2>1, <1>2, <1>4, <1>5, <1>8 DEF Longest, l, full, l1
<1>10. CASE phase[u] = "accept"
  <2>1. Patience(u) = IF n = 0 THEN left[u] + a ELSE l + 2 * AcceptTicks
    BY <1>10 DEF Patience
  <2> QED
    <3>1. CASE n = 0
      BY <2>1, <1>2, <1>3, <1>5, <1>6, <1>7, <1>8, <1>10, <3>1 DEF Longest
    <3>2. CASE n # 0
      BY <2>1, <1>4, <1>5, <1>8, <3>2 DEF Longest
    <3> QED
      BY <3>1, <3>2
<1>11. CASE phase[u] \notin {"sleep", "backoff", "accept"}
  <2>1. Patience(u) \in {l1 + 2 * AcceptTicks, 0, AcceptTicks, l + 2 * AcceptTicks}
    BY <1>11 DEF Patience
  <2> QED
    BY <2>1, <1>4, <1>5, <1>7, <1>8 DEF Longest
<1> QED
  BY <1>9, <1>10, <1>11

\* It holds of the next state too.
LEMMA PatienceIsBoundedNext == PatienceFits'
  BY PatienceIsBounded, PTL
\* A beta that returns from synchronize() and is still beta has heard a rank, or
\* ends its first round, or enters a contest.
LEMMA StillBeta ==
    ASSUME NEW u \in Unit, NEW other \in Rank, IInv, Placed,
           phase[u] = "connect", Return(u, other), status[u] = Beta, status'[u] = Beta
    PROVE  \/ phase'[u] = "sleep" /\ at'[u] = "wake" /\ (at[u] = "start" \/ other # 0)
           \/ phase'[u] = "accept" /\ at'[u] \in {"contest", "raise"}
                                   /\ at[u] \in {"wake", "draw"}
           \/ phase'[u] = "backoff" /\ at'[u] = "draw" /\ other # 0
                                    /\ at[u] \in {"contest", "raise"}
<1>0. /\ TypeOK /\ Alpha # Beta
      /\ myRank[u] \in Nat /\ other \in Nat
      /\ at[u] = "start" => myRank[u] = 0
      /\ at[u] \in {"contest", "raise"} => myRank[u] >= 2
  BY MaxRankAssumption DEF IInv, TypeOK, FirstRound, Placed, Rank, Alpha, Beta
<1>1. ASSUME NEW p, NEW a, Goto(u, p, a)
      PROVE  phase'[u] = p /\ at'[u] = a
  BY <1>0, <1>1 DEF Goto, TypeOK
<1>2. ASSUME NEW r, NEW role, EndRound(u, r, role)
      PROVE  phase'[u] = "sleep" /\ at'[u] = "wake" /\ role = Beta
  BY <1>0, <1>1, <1>2 DEF EndRound, TypeOK
<1>3. ASSUME NEW place, Raise(u, place)
      PROVE  phase'[u] = "accept" /\ at'[u] = place
  BY <1>1, <1>3 DEF Raise
<1>4. CASE at[u] = "start" /\ AfterStart(u, other)
  <2>1. EndRound(u, myRank[u], status[u])
    BY <1>0, <1>4 DEF AfterStart
  <2> QED
    BY <1>2, <1>4, <2>1
<1>5. CASE at[u] = "wake" /\ AfterWake(u, other)
  <2>1. \/ other > myRank[u] /\ EndRound(u, 0, Beta)
        \/ Raise(u, "contest")
    BY <1>0, <1>5 DEF AfterWake, alphaContest
  <2> QED
    BY <1>0, <1>2, <1>3, <1>5, <2>1
<1>6. CASE at[u] \in {"contest", "raise"} /\ AfterRaise(u, other)
  <2>1. CASE myRank[u] = other
    BY <1>0, <1>1, <1>6, <2>1 DEF AfterRaise
  <2>2. CASE myRank[u] # other
    <3>1. EndRound(u, myRank[u], IF myRank[u] > other THEN Alpha ELSE Beta)
      BY <1>6, <2>2 DEF AfterRaise, Verdict
    <3>2. ~(myRank[u] > other) /\ phase'[u] = "sleep" /\ at'[u] = "wake"
      BY <1>0, <1>2, <3>1
    <3> QED
      BY <1>0, <1>6, <3>2
  <2> QED
    BY <2>1, <2>2
<1>7. CASE at[u] = "draw" /\ AfterDraw(u, other)
  <2>1. CASE myRank[u] < other
    <3>1. EndRound(u, myRank[u], IF myRank[u] > other THEN Alpha ELSE Beta)
      BY <1>7, <2>1 DEF AfterDraw, Verdict
    <3> QED
      BY <1>0, <1>2, <2>1, <3>1
  <2>2. CASE Raise(u, "raise")
    BY <1>3, <1>7, <2>2
  <2> QED
    BY <1>7, <2>1, <2>2 DEF AfterDraw
<1> QED
  BY <1>4, <1>5, <1>6, <1>7 DEF Return

\* No step of a deserted unit's thread lengthens what it has yet to wait for.
LEMMA PatienceShrinks ==
    ASSUME NEW u \in Unit, TimedInv, TimedInv', TimedThread(u),
           Deserted(u), Deserted(u)'
    PROVE  Patience(u)' <= Patience(u)
<1> DEFINE n == Len(backlog[u])
           m == Len(backlog'[u])
           S == SleepTicks
           A == AcceptTicks
<1>0. /\ IInv /\ TypeOK /\ Placed
      /\ status[u] = Beta /\ status'[u] = Beta
      /\ phase[Peer(u)] = "off" /\ phase'[u] # "stuck"
      /\ 0 \in Rank /\ otherRank[u] \in Rank
      /\ backlog[u] \in Seq(Message)
  <2>1. IInv /\ TypeOK /\ Placed
    BY DEF TimedInv, IInv
  <2>2. /\ status[u] = Beta /\ status'[u] = Beta
        /\ phase[Peer(u)] = "off" /\ phase'[u] # "stuck"
    BY DEF Deserted
  <2> QED
    BY <2>1, <2>2, MaxRankAssumption DEF TypeOK, Rank
<1>1. /\ A \in Nat /\ S \in Nat /\ S > A
      /\ n \in Nat /\ m \in Nat /\ left[u] \in Nat /\ left'[u] \in Nat
  BY TicksAssumption, QueueLengths DEF TimedInv, TimedTypeOK, TypeOK
<1>2. /\ phase'[u] = "sleep" => left'[u] <= S
      /\ phase'[u] \in {"accept", "backoff"} => left'[u] <= A
  BY TicksAssumption DEF TimedInv, TimedTypeOK, TimersFit
<1>3. /\ Load(0) = 0
      /\ Load(n) \in Nat /\ Load(n + 1) = Load(n) + S
      /\ Load(m) \in Nat /\ Load(m + 1) = Load(m) + S
  BY <1>1, Loads
<1>4. /\ n = 0 <=> backlog[u] = <<>>
      /\ backlog[u] # <<>> => Len(Tail(backlog[u])) = n - 1
  BY <1>0, QueueLengths
<1> HIDE DEF n, m, S, A
<1>5. CASE Wake(u) \/ BackoffEnds(u)
  <2>1. /\ phase[u] \in {"sleep", "backoff"} /\ phase'[u] = "accept"
        /\ at'[u] \in {"wake", "draw"} /\ m = n
    BY <1>0, <1>5 DEF Wake, BackoffEnds, Goto, TypeOK, m, n
  <2>2. Patience(u) = left[u] + (Load(n) + 2 * A)
    BY <2>1 DEF Patience, n, A
  <2>3. Patience(u)' = IF m = 0 THEN left'[u] + A ELSE Load(m) + 2 * A
    BY <2>1 DEF Patience, AfterTimeout, m, A
  <2> QED
    BY <1>1, <1>2, <1>3, <2>1, <2>2, <2>3
<1>6. CASE AcceptRank(u) \/ AcceptEof(u)
  <2>1. /\ phase[u] = "accept" /\ phase'[u] = "connect" /\ m = n - 1 /\ n # 0
    BY <1>0, <1>4, <1>6 DEF AcceptRank, AcceptEof, Goto, TypeOK, m, n
  <2>2. Patience(u) = Load(n) + 2 * A
    BY <2>1 DEF Patience, n, A
  <2>3. Patience(u)' \in {Load(m + 1) + 2 * A, 0, A, Load(m) + 2 * A}
    BY <2>1 DEF Patience, m, A
  <2>4. m + 1 = n
    BY <1>1, <2>1
  <2> QED
    BY <1>1, <1>3, <2>2, <2>3, <2>4
<1>7. CASE AcceptTimeout(u)
  <2>1. /\ phase[u] = "accept" /\ phase'[u] = "connect" /\ m = 0 /\ n = 0
        /\ otherRank'[u] = 0 /\ at'[u] = at[u]
    BY <1>0, <1>4, <1>7 DEF AcceptTimeout, Goto, TypeOK, m, n
  <2>2. Patience(u) = left[u] + AfterTimeout(u)
    BY <2>1 DEF Patience, n
  <2>3. Patience(u)' = CASE at[u] = "start" -> Load(m + 1) + 2 * A
                         [] at[u] \in {"contest", "raise"} -> 0
                         [] OTHER -> A
    <3>1. CASE at[u] = "start"
      BY <2>1, <3>1 DEF Patience, m, A
    <3>2. CASE at[u] # "start"
      BY <2>1, <3>2 DEF Patience, m, A
    <3> QED
      BY <3>1, <3>2
  <2>4. AfterTimeout(u) = CASE at[u] = "start" -> S + 2 * A
                            [] at[u] \in {"contest", "raise"} -> 0
                            [] OTHER -> A
    BY DEF AfterTimeout, S, A
  <2> QED
    BY <1>1, <1>3, <2>1, <2>2, <2>3, <2>4
<1>8. ASSUME NEW other \in Rank, phase[u] = "connect", Return(u, other),
             backlog' = backlog, other = otherRank[u] \/ other = 0
      PROVE  Patience(u)' <= Patience(u)
  <2>1. m = n
    BY <1>8 DEF m, n
  <2>2. Patience(u) = IF at[u] = "start" \/ otherRank[u] # 0 THEN Load(n + 1) + 2 * A
                      ELSE IF at[u] \in {"contest", "raise"} THEN 0
                      ELSE IF n = 0 THEN A ELSE Load(n) + 2 * A
    BY <1>8 DEF Patience, n, A
  <2>3. CASE phase'[u] \in {"sleep", "backoff"}
    <3>1. at[u] = "start" \/ otherRank[u] # 0
      <4>1. at[u] = "start" \/ other # 0
        BY <1>0, <1>8, <2>3, StillBeta
      <4> QED
        BY <1>8, <4>1
    <3>2. Patience(u) = Load(n + 1) + 2 * A
      BY <2>2, <3>1
    <3>3. Patience(u)' = left'[u] + (Load(m) + 2 * A)
      BY <2>3 DEF Patience, m, A
    <3> QED
      BY <1>1, <1>2, <1>3, <2>1, <2>3, <3>2, <3>3
  <2>4. CASE phase'[u] = "accept"
    <3>1. at'[u] \in {"contest", "raise"} /\ at[u] \in {"wake", "draw"}
      BY <1>0, <1>8, <2>4, StillBeta
    <3>2. Patience(u)' = IF m = 0 THEN left'[u] + 0 ELSE Load(m) + 2 * A
      BY <2>4, <3>1 DEF Patience, AfterTimeout, m, A
    <3> QED
      BY <1>1, <1>2, <1>3, <2>1, <2>2, <2>4, <3>1, <3>2
  <2> QED
    BY <1>0, <1>8, <2>3, <2>4, StillBeta
<1>9. CASE ConnectFails(u) \/ ConnectError(u)
  BY <1>0, <1>8, <1>9 DEF ConnectFails, ConnectError
<1>10. ~SendRank(u) /\ ~AcceptSilent(u)
  BY <1>0 DEF SendRank, Accepting, AcceptSilent, Goto, TypeOK
<1> QED
  BY <1>5, <1>6, <1>7, <1>9, <1>10 DEF TimedThread
\* A unit that is deserted from this step on starts with a count of 0, and with less
\* ahead of it than Limit allows.
LEMMA CountStarts ==
    ASSUME NEW u \in Unit, Longest <= Limit, TimedInv, TimedInv', OnSchedule,
           alone'[u] = IF Deserted(u)' THEN alone[u] ELSE 0,
           Deserted(u) /\ Deserted(u)' => Patience(u)' <= Patience(u)
    PROVE  IF Deserted(u)' THEN alone'[u] + Patience(u)' <= Limit ELSE alone'[u] = 0
<1>1. /\ Patience(u) \in Nat /\ Patience(u)' \in Nat
      /\ Patience(u)' <= Longest /\ Longest \in Nat /\ Limit \in Nat
  <2>1. Load(Backlog + 1) \in Nat
    BY Loads, BacklogAssumption
  <2>2. Longest \in Nat /\ Limit \in Nat
    BY <2>1, TicksAssumption DEF Longest
  <2>3. Patience(u) \in Nat
    BY PatienceIsBounded DEF PatienceFits
  <2>4. Patience(u)' \in Nat /\ Patience(u)' <= Longest
    BY PatienceIsBoundedNext DEF PatienceFits
  <2> QED
    BY <2>2, <2>3, <2>4
<1>2. alone[u] \in Nat
  BY TicksAssumption DEF TimedInv, TimedTypeOK
<1>3. CASE Deserted(u)' /\ Deserted(u)
  BY <1>1, <1>2, <1>3 DEF OnSchedule
<1>4. CASE Deserted(u)' /\ ~Deserted(u)
  BY <1>1, <1>4 DEF OnSchedule
<1> QED
  BY <1>3, <1>4

LEMMA ScheduleIsKept ==
    ASSUME Longest <= Limit, TimedInv, OnSchedule, [TimedNext]_timedVars
    PROVE  OnSchedule'
<1>0. TimedInv' /\ TypeOK /\ TimedTypeOK
  BY TimedStepTypes DEF TimedInv, IInv
<1> SUFFICES ASSUME NEW u \in Unit
             PROVE  IF Deserted(u)' THEN alone'[u] + Patience(u)' <= Limit
                                    ELSE alone'[u] = 0
  BY DEF OnSchedule
<1>1. ASSUME NEW w \in Unit, TimedThread(w)
      PROVE  IF Deserted(u)' THEN alone'[u] + Patience(u)' <= Limit ELSE alone'[u] = 0
  <2>1. alone'[u] = IF Deserted(u)' THEN alone[u] ELSE 0
    BY <1>1 DEF TimedThread, SetTimer
  <2>2. Deserted(u) => u = w
    <3>1. phase[w] # "off"
      BY <1>1, ThreadFrame DEF TimedThread, Thread, TimedInv
    <3>2. u # w => Peer(u) = w
      BY PeerIsOther, UnitsAreTwo
    <3> QED
      BY <3>1, <3>2 DEF Deserted
  <2>3. Deserted(u) /\ Deserted(u)' => Patience(u)' <= Patience(u)
    BY <1>0, <1>1, <2>2, PatienceShrinks
  <2> QED
    BY <1>0, <2>1, <2>3, CountStarts
<1>2. ASSUME NEW w \in Unit, Start(w) \/ Exit(w) \/ PowerLoss(w), SetTimer(w)
      PROVE  IF Deserted(u)' THEN alone'[u] + Patience(u)' <= Limit ELSE alone'[u] = 0
  <2>1. alone'[u] = IF Deserted(u)' THEN alone[u] ELSE 0
    BY <1>2 DEF SetTimer
  <2>2. ~(Deserted(u) /\ Deserted(u)')
    <3>1. \/ phase[w] = "off" /\ phase'[w] # "off"
          \/ phase[w] # "off" /\ phase'[w] = "off"
      BY <1>0, <1>2 DEF Start, Exit, PowerLoss, Stop, Goto, TypeOK
    <3>2. w = u \/ w = Peer(u)
      BY PeerIsOther, UnitsAreTwo
    <3> QED
      BY <3>1, <3>2 DEF Deserted
  <2> QED
    BY <1>0, <2>1, <2>2, CountStarts
<1>3. CASE LinkChanges /\ UNCHANGED <<left, alone>>
  <2>1. UNCHANGED <<unitVars, backlog, left, alone>>
    BY <1>3 DEF LinkChanges
  <2>2. /\ Deserted(u)' <=> Deserted(u)
        /\ Patience(u)' = Patience(u) /\ alone'[u] = alone[u]
    BY <2>1 DEF unitVars, Deserted, Capped, Patience, AfterTimeout
  <2> QED
    BY <2>2 DEF OnSchedule
<1>4. CASE Tick
  <2>1. UNCHANGED vars
    BY <1>4 DEF Tick
  <2>2. Deserted(u)' <=> Deserted(u)
    BY <2>1 DEF vars, unitVars, Deserted, Capped
  <2>3. alone'[u] = IF Deserted(u) /\ alone[u] <= Limit THEN alone[u] + 1 ELSE alone[u]
    BY <1>4 DEF Tick
  <2>4. CASE Deserted(u)
    <3>1. /\ alone[u] + Patience(u) <= Limit
          /\ Patience(u) \in Nat /\ alone[u] \in Nat /\ Limit \in Nat
      BY <1>0, <2>4, PatienceIsBounded, TicksAssumption
      DEF OnSchedule, PatienceFits, TimedTypeOK
    <3>2. /\ left[u] \in Nat /\ left[u] # 0 /\ left'[u] = left[u] - 1
          /\ \/ phase[u] \in {"sleep", "backoff"}
             \/ phase[u] = "accept" /\ backlog[u] = <<>>
      BY <1>0, <1>4, <2>4, TicksAssumption
      DEF Tick, Ready, Deserted, TypeOK, Phase, TimedTypeOK
    <3>3. Patience(u)' = Patience(u) - 1
      <4>1. UNCHANGED <<phase, at, backlog>>
        BY <2>1 DEF vars, unitVars
      <4>2. CASE phase[u] \in {"sleep", "backoff"}
        <5>1. PICK rounds \in Nat : rounds = Load(Len(backlog[u])) + 2 * AcceptTicks
          <6>1. Len(backlog[u]) \in Nat
            BY <1>0, QueueLengths DEF TypeOK
          <6>2. Load(Len(backlog[u])) \in Nat
            BY <6>1, Loads
          <6> QED
            BY <6>2, TicksAssumption
        <5>2. Patience(u) = left[u] + rounds
          BY <4>2, <5>1 DEF Patience
        <5>3. Patience(u)' = left'[u] + rounds
          BY <4>1, <4>2, <5>1 DEF Patience
        <5> QED
          BY <3>2, <5>2, <5>3
      <4>3. CASE phase[u] = "accept" /\ backlog[u] = <<>>
        <5>1. Len(backlog[u]) = 0
          BY <4>3
        <5>2. AfterTimeout(u) \in Nat
          BY TicksAssumption DEF AfterTimeout
        <5>3. Patience(u) = left[u] + AfterTimeout(u)
          BY <4>3, <5>1 DEF Patience
        <5>4. Patience(u)' = left'[u] + AfterTimeout(u)
          BY <4>1, <4>3, <5>1 DEF Patience, AfterTimeout
        <5> QED
          BY <3>2, <5>2, <5>3, <5>4
      <4> QED
        BY <3>2, <4>2, <4>3
    <3>4. alone'[u] = alone[u] + 1
      BY <2>3, <2>4, <3>1
    <3>5. alone'[u] + Patience(u)' <= Limit
      BY <3>1, <3>3, <3>4
    <3> QED
      BY <2>2, <2>4, <3>5
  <2>5. CASE ~Deserted(u)
    BY <2>2, <2>3, <2>5 DEF OnSchedule
  <2> QED
    BY <2>4, <2>5
<1>5. CASE UNCHANGED timedVars
  <2>1. /\ Deserted(u)' <=> Deserted(u)
        /\ Patience(u)' = Patience(u) /\ alone'[u] = alone[u]
    BY <1>5 DEF timedVars, vars, unitVars, Deserted, Capped, Patience, AfterTimeout
  <2> QED
    BY <2>1 DEF OnSchedule
<1> QED
  BY <1>1, <1>2, <1>3, <1>4, <1>5 DEF TimedNext, TimedEnvironment

\* A unit whose peer stopped is alpha, at the latest, when it has slept once for
\* every rank its backlog can hold and once more, and timed out in two accepts: for
\* any length of the calls, whatever happened before and whichever faults occur.
THEOREM TakesOverInTime ==
    ASSUME Longest <= Limit
    PROVE  TimedSpec => []TakeOverInTime
<1>1. TimedInit => OnSchedule
  BY DEF TimedInit, Init, OnSchedule, Deserted
<1>2. TimedInv /\ OnSchedule => TakeOverInTime
  <2>1. SUFFICES ASSUME TimedInv, OnSchedule, NEW u \in Unit PROVE alone[u] <= Limit
    BY DEF TakeOverInTime
  <2>2. alone[u] \in Nat /\ Limit \in Nat /\ Patience(u) \in Nat
    BY <2>1, PatienceIsBounded, TicksAssumption DEF PatienceFits, TimedInv, TimedTypeOK
  <2> QED
    BY <2>1, <2>2 DEF OnSchedule
<1> QED
  BY <1>1, <1>2, TimedInvHolds, ScheduleIsKept, PTL DEF TimedSpec
-----------------------------------------------------------------------------
\* Reading and writing a queue in which all says the same.
LEMMA SaysOn ==
    ASSUME NEW q \in Seq(Message), NEW r \in Rank, Says(q, r)
    PROVE  /\ Says(Append(q, Note(r)), r)
           /\ q # <<>> => Head(q) = Note(r) /\ Says(Tail(q), r)
<1>1. Note(r) \in Message
  BY DEF Note, Message
<1>2. Says(Append(q, Note(r)), r)
  <2>1. SUFFICES ASSUME NEW i \in 1 .. Len(q) + 1 PROVE Append(q, Note(r))[i] = Note(r)
    BY <1>1 DEF Says
  <2> QED
    BY <1>1 DEF Says
<1>3. ASSUME q # <<>> PROVE Head(q) = Note(r) /\ Says(Tail(q), r)
  <2>1. Len(q) \in Nat /\ Len(q) >= 1 /\ Len(Tail(q)) = Len(q) - 1
    BY <1>3
  <2>2. Head(q) = q[1] /\ \A i \in 1 .. Len(q) - 1 : Tail(q)[i] = q[i + 1]
    BY <1>3
  <2>3. \A i \in 1 .. Len(q) - 1 : i + 1 \in 1 .. Len(q)
    BY <2>1
  <2>4. 1 \in 1 .. Len(q)
    BY <2>1
  <2> QED
    BY <2>1, <2>2, <2>3, <2>4 DEF Says
<1> QED
  BY <1>2, <1>3

\* What a thread of a settled pair does: it wakes, reads, gives up reading, or
\* writes.  The other unit is left alone, but for its queue.
Beat(w) ==
    LET z == Peer(w) IN
    /\ phase'[z] = phase[z] /\ left'[z] = left[z] /\ at'[z] = at[z]
    /\ \/ /\ phase[w] = "sleep" /\ left[w] = 0
          /\ phase'[w] = "accept" /\ left'[w] = AcceptTicks
          /\ Waiting(w)' = Waiting(w) /\ Waiting(z)' = Waiting(z)
       \/ /\ phase[w] = "accept" /\ Waiting(w) > 0
          /\ phase'[w] = "connect"
          /\ Waiting(w)' = Waiting(w) - 1 /\ Waiting(z)' = Waiting(z)
       \/ /\ phase[w] = "accept" /\ Waiting(w) = 0 /\ left[w] = 0
          /\ phase'[w] = "connect"
          /\ Waiting(w)' = 0 /\ Waiting(z)' = Waiting(z)
       \/ /\ phase[w] = "connect"
          /\ phase'[w] = "sleep" /\ left'[w] = SleepTicks
          /\ Waiting(w)' = Waiting(w) /\ Waiting(z)' = Waiting(z) + 1

\* A round of a settled pair ends as it began, with the same rank and role.
LEMMA PairReturns ==
    ASSUME NEW u \in Unit, NEW w \in Unit, TypeOK, FirstRound, Pair(u),
           phase[w] = "connect", Return(w, otherRank[w])
    PROVE  /\ myRank'[w] = myRank[w] /\ status'[w] = status[w]
           /\ phase'[w] = "sleep" /\ at'[w] = "wake"
<1>0. Alpha # Beta /\ otherRank[w] \in Nat /\ (w = u \/ w = Peer(u))
  BY PeerIsOther, UnitsAreTwo, MaxRankAssumption DEF TypeOK, Rank, Alpha, Beta
<1>1. EndRound(w, myRank[w], status[w])
  <2>1. CASE w = u
    BY <1>0, <2>1
    DEF Pair, Follows, Return, AfterStart, AfterWake, alphaContest
  <2>2. CASE w = Peer(u)
    BY <1>0, <2>2
    DEF Pair, Leads, Return, AfterStart, AfterWake, alphaContest
  <2> QED
    BY <1>0, <2>1, <2>2
<1> QED
  BY <1>1 DEF EndRound, Goto, TypeOK
\* A pair stays one as long as its beta does not give up once it has read a rank and
\* its queues never fill.
LEMMA PairBeats ==
    ASSUME NEW u \in Unit, NEW w \in Unit, TimedInv, Pair(u), TimedThread(w),
           w = u /\ phase[w] = "accept" /\ Waiting(w) = 0 /\ left[w] = 0 => at[w] = "start",
           phase[w] = "connect" => Waiting(Peer(w)) < Backlog
    PROVE  Pair(u)' /\ Beat(w)
<1> DEFINE z == Peer(w)
           v == Peer(u)
           said(x) == IF x = u THEN 1 ELSE 0
<1>0. /\ IInv /\ TypeOK /\ FirstRound /\ TimedTypeOK
      /\ z \in Unit /\ z # w /\ v \in Unit /\ v # u
      /\ Peer(z) = w /\ Peer(v) = u
      /\ \A x \in Unit : x = w \/ x = z
      /\ \A x \in Unit : x = u \/ x = v
  BY PeerIsOther, UnitsAreTwo DEF TimedInv, IInv
<1>1. /\ link /\ 0 \in Rank /\ 1 \in Rank
      /\ \A x \in Unit : /\ phase[x] \in {"sleep", "accept", "connect"}
                         /\ said(x) \in Rank /\ Says(backlog[x], said(x))
                         /\ backlog[x] \in Seq(Message)
      /\ myRank[w] = said(z)
  <2>1. link /\ myRank[u] = 0 /\ myRank[v] = 1
    BY DEF Pair, Follows, Leads
  <2>2. 0 \in Rank /\ 1 \in Rank
    BY <1>0, <2>1 DEF TypeOK
  <2>3. \A x \in Unit : /\ phase[x] \in {"sleep", "accept", "connect"}
                        /\ Says(backlog[x], said(x)) /\ backlog[x] \in Seq(Message)
    BY <1>0 DEF Pair, Follows, Leads, TypeOK
  <2>4. myRank[w] = said(z)
    BY <1>0, <2>1
  <2> QED
    BY <2>1, <2>2, <2>3, <2>4
<1>2. /\ \A x \in Unit \ {w} :
           /\ phase'[x] = phase[x] /\ at'[x] = at[x] /\ myRank'[x] = myRank[x]
           /\ otherRank'[x] = otherRank[x] /\ status'[x] = status[x]
      /\ left'[z] = left[z]
      /\ \A p \in {"sleep", "accept"} :
           phase'[w] = p => left'[w] = IF p = "sleep" THEN SleepTicks ELSE AcceptTicks
  <2>1. \A x \in Unit \ {w} :
           /\ phase'[x] = phase[x] /\ at'[x] = at[x] /\ myRank'[x] = myRank[x]
           /\ otherRank'[x] = otherRank[x] /\ status'[x] = status[x]
    BY <1>0, ThreadFrame DEF TimedThread, Thread
  <2>2. PICK d \in Duration(phase'[w]) : left' = [left EXCEPT ![w] = d]
    BY DEF TimedThread, SetTimer
  <2>3. left'[z] = left[z] /\ left'[w] = d
    BY <1>0, <2>2 DEF TimedTypeOK
  <2>4. /\ phase'[w] = "sleep" => d = SleepTicks
        /\ phase'[w] = "accept" => d = AcceptTicks
    BY <2>2 DEF Duration
  <2> QED
    BY <2>1, <2>3, <2>4
\* The fields that stay, the queue that changes, and where the thread goes.
<1>3. ASSUME link' = link, \A x \in Unit : Says(backlog'[x], said(x)),
             myRank'[w] = myRank[w], status'[w] = status[w],
             phase'[w] \in {"sleep", "accept", "connect"},
             at'[w] \in {at[w], "wake"},
             phase'[w] = "connect" =>
                IF w = u THEN at'[w] = "start" \/ otherRank'[w] = 1 ELSE otherRank'[w] = 0
      PROVE  Pair(u)'
  <2>1. CASE w = u
    <3>1. Follows(u)'
      BY <1>0, <1>3, <2>1 DEF Pair, Follows
    <3>2. Leads(v)'
      BY <1>0, <1>2, <1>3, <2>1 DEF Pair, Leads
    <3> QED
      BY <1>1, <1>3, <3>1, <3>2 DEF Pair
  <2>2. CASE w = v
    <3>1. Follows(u)'
      BY <1>0, <1>2, <1>3, <2>2 DEF Pair, Follows
    <3>2. Leads(v)'
      BY <1>0, <1>3, <2>2 DEF Pair, Leads
    <3> QED
      BY <1>1, <1>3, <3>1, <3>2 DEF Pair
  <2> QED
    BY <1>0, <2>1, <2>2
<1> HIDE DEF z, v, said
<1>4. CASE Wake(w)
  <2>1. /\ phase[w] = "sleep" /\ left[w] = 0 /\ backlog' = backlog /\ link' = link
        /\ phase'[w] = "accept" /\ at'[w] = "wake"
        /\ myRank' = myRank /\ status' = status
    BY <1>0, <1>1, <1>4 DEF TimedThread, Wake, Goto, TypeOK, AcceptRank, AcceptEof,
       AcceptSilent, SendRank, ConnectFails, ConnectError, BackoffEnds, AcceptTimeout
  <2>2. Pair(u)'
    BY <1>1, <1>3, <2>1
  <2>3. Beat(w)
    BY <1>0, <1>2, <2>1 DEF Beat, Waiting, z
  <2> QED
    BY <2>2, <2>3
<1>5. CASE AcceptRank(w)
  <2>1. Head(backlog[w]) = Note(said(w)) /\ Says(Tail(backlog[w]), said(w))
    BY <1>1, <1>5, SaysOn DEF AcceptRank
  <2>2. /\ phase[w] = "accept" /\ link' = link
        /\ backlog'[w] = Tail(backlog[w]) /\ \A x \in Unit \ {w} : backlog'[x] = backlog[x]
        /\ phase'[w] = "connect" /\ at'[w] = at[w]
        /\ otherRank'[w] = Head(backlog[w]).rank
        /\ myRank' = myRank /\ status' = status
    BY <1>0, <1>5 DEF AcceptRank, Goto, TypeOK
  <2>3. otherRank'[w] = said(w)
    BY <2>1, <2>2 DEF Note
  <2>4. \A x \in Unit : Says(backlog'[x], said(x))
    BY <1>1, <2>1, <2>2
  <2>5. Pair(u)'
    BY <1>3, <2>2, <2>3, <2>4 DEF said
  <2>6. Waiting(w) > 0 /\ Waiting(w)' = Waiting(w) - 1 /\ Waiting(z)' = Waiting(z)
    <3>1. Len(backlog[w]) \in Nat /\ Len(backlog[w]) >= 1
          /\ Len(Tail(backlog[w])) = Len(backlog[w]) - 1
      BY <1>1, <1>5, QueueLengths DEF AcceptRank
    <3> QED
      BY <1>0, <2>2, <3>1 DEF Waiting
  <2>7. Beat(w)
    BY <1>0, <1>2, <2>2, <2>6 DEF Beat, z
  <2> QED
    BY <2>5, <2>7
<1>6. ~AcceptEof(w) /\ ~AcceptSilent(w) /\ ~BackoffEnds(w)
  <2>1. backlog[w] # <<>> => Head(backlog[w]) = Note(said(w))
    BY <1>1, SaysOn
  <2>2. backlog[w] # <<>> => Head(backlog[w]).kind = "rank"
    BY <2>1 DEF Note
  <2>3. phase[w] # "backoff"
    BY <1>1
  <2> QED
    BY <2>2, <2>3 DEF AcceptEof, AcceptSilent, BackoffEnds
<1>7. CASE AcceptTimeout(w)
  <2>1. /\ phase[w] = "accept" /\ backlog[w] = <<>> /\ left[w] = 0
        /\ phase'[w] = "connect" /\ at'[w] = at[w] /\ otherRank'[w] = 0
        /\ backlog' = backlog /\ link' = link /\ myRank' = myRank /\ status' = status
    BY <1>0, <1>1, <1>7 DEF TimedThread, AcceptTimeout, Goto, TypeOK, AcceptRank, AcceptEof,
       AcceptSilent, SendRank, ConnectFails, ConnectError, BackoffEnds, Wake
  <2>2. Waiting(w) = 0 /\ Waiting(w)' = 0 /\ Waiting(z)' = Waiting(z)
    BY <2>1 DEF Waiting
  <2>3. w = u => at'[w] = "start"
    BY <2>1, <2>2
  <2>4. Pair(u)'
    BY <1>1, <1>3, <2>1, <2>3
  <2>5. Beat(w)
    BY <1>0, <1>2, <2>1, <2>2 DEF Beat, z
  <2> QED
    BY <2>4, <2>5
<1>8. ~ConnectFails(w) /\ ~ConnectError(w)
  <2>1. phase[z] # "off"
    BY <1>0, <1>1
  <2> QED
    BY <1>1, <2>1 DEF ConnectFails, ConnectError, Accepting, Waiting, z
<1>9. CASE SendRank(w)
  <2>1. /\ phase[w] = "connect" /\ Return(w, otherRank[w]) /\ link' = link
        /\ backlog' = [backlog EXCEPT ![z] = Append(@, Note(said(z)))]
    BY <1>1, <1>9 DEF SendRank, Note, z
  <2>2. /\ backlog'[z] = Append(backlog[z], Note(said(z)))
        /\ \A x \in Unit \ {z} : backlog'[x] = backlog[x]
    BY <1>0, <2>1 DEF TypeOK
  <2>3. /\ myRank'[w] = myRank[w] /\ status'[w] = status[w]
        /\ phase'[w] = "sleep" /\ at'[w] = "wake"
    BY <1>0, <2>1, PairReturns
  <2>4. \A x \in Unit : Says(backlog'[x], said(x))
    BY <1>0, <1>1, <2>2, SaysOn
  <2>5. Pair(u)'
    BY <1>3, <2>1, <2>3, <2>4
  <2>6. Waiting(w)' = Waiting(w) /\ Waiting(z)' = Waiting(z) + 1
    <3>1. Note(said(z)) \in Message
      BY <1>0, <1>1 DEF Note, Message
    <3>2. Len(Append(backlog[z], Note(said(z)))) = Len(backlog[z]) + 1
      BY <1>0, <1>1, <3>1, QueueLengths
    <3> QED
      BY <1>0, <2>2, <3>2 DEF Waiting
  <2>7. Beat(w)
    BY <1>0, <1>2, <2>1, <2>3, <2>6 DEF Beat, z
  <2> QED
    BY <2>5, <2>7
<1> QED
  BY <1>4, <1>5, <1>6, <1>7, <1>8, <1>9 DEF TimedThread
\* In tempo, the beta that gives up has not heard anything yet, and no queue is full
\* when a unit writes: two ranks at most are on their way.
LEMMA TempoAllows ==
    ASSUME NEW u \in Unit, NEW w \in Unit, TimedInv, Pair(u), Tempo(u), Backlog >= 2
    PROVE  /\ w = u /\ phase[w] = "accept" /\ Waiting(w) = 0 /\ left[w] = 0
                => at[w] = "start"
           /\ phase[w] = "connect" => Waiting(Peer(w)) < Backlog
<1>0. /\ \A x \in Unit : Waiting(x) \in Nat /\ left[x] \in Nat
      /\ \A x \in Unit : /\ Peer(x) \in Unit /\ Peer(x) # x /\ Peer(Peer(x)) = x
                         /\ w = x \/ w = Peer(x)
      /\ Backlog \in Nat
  BY PeerIsOther, UnitsAreTwo, QueueLengths, TicksAssumption, BacklogAssumption
  DEF TimedInv, TimedTypeOK, TypeOK, Waiting
<1> HIDE DEF Waiting
<1>1. CASE Fresh(u)
  BY <1>0, <1>1 DEF Fresh, Awake
<1>2. ASSUME NEW x \in Unit, InBox(x)
      PROVE  /\ w = u /\ phase[w] = "accept" /\ Waiting(w) = 0 /\ left[w] = 0
                  => at[w] = "start"
             /\ phase[w] = "connect" => Waiting(Peer(w)) < Backlog
  <2>1. CASE w = x
    BY <1>0, <1>2, <2>1 DEF InBox, Awake
  <2>2. CASE w = Peer(x)
    BY <1>0, <1>2, <2>2 DEF InBox, Awake, Reads, GivesUp
  <2> QED
    BY <1>0, <2>1, <2>2
<1>3. ASSUME NEW x \in Unit, InHand(u, x)
      PROVE  /\ w = u /\ phase[w] = "accept" /\ Waiting(w) = 0 /\ left[w] = 0
                  => at[w] = "start"
             /\ phase[w] = "connect" => Waiting(Peer(w)) < Backlog
  <2>1. CASE w = x
    BY <1>0, <1>3, <2>1 DEF InHand
  <2>2. CASE w = Peer(x)
    BY <1>0, <1>3, <2>2 DEF InHand, Awake, GivesUp
  <2> QED
    BY <1>0, <2>1, <2>2
<1>4. ASSUME NEW x \in Unit, InStep(x)
      PROVE  /\ w = u /\ phase[w] = "accept" /\ Waiting(w) = 0 /\ left[w] = 0
                  => at[w] = "start"
             /\ phase[w] = "connect" => Waiting(Peer(w)) < Backlog
  <2>1. CASE w = x
    BY <1>0, <1>4, <2>1 DEF InStep, Due
  <2>2. CASE w = Peer(x)
    BY <1>0, <1>4, <2>2 DEF InStep, Due
  <2> QED
    BY <1>0, <2>1, <2>2
<1> QED
  BY <1>1, <1>2, <1>3, <1>4 DEF Tempo

\* The beats keep the tempo: a unit that writes puts a rank in the other's queue
\* less than a sleep and an accept before the other gives up reading.
LEMMA TempoBeats ==
    ASSUME NEW u \in Unit, NEW w \in Unit, TimedInv, TimedInv', Tempo(u), Beat(w)
    PROVE  Tempo(u)'
<1> DEFINE z == Peer(w)
<1>0. /\ z \in Unit /\ z # w /\ Peer(w) = z /\ Peer(z) = w /\ (u = w \/ u = z)
      /\ \A x \in Unit : x = w \/ x = z
      /\ Waiting(w) \in Nat /\ Waiting(z) \in Nat
      /\ Waiting(w)' \in Nat /\ Waiting(z)' \in Nat
      /\ left[w] \in 0 .. SleepTicks /\ left[z] \in 0 .. SleepTicks
      /\ AcceptTicks \in Nat \ {0} /\ SleepTicks \in Nat
      /\ SleepTicks > 0 /\ AcceptTicks > 0
  BY PeerIsOther, UnitsAreTwo, QueueLengths, TicksAssumption
  DEF TimedInv, TimedTypeOK, TypeOK, Waiting
<1>1. \/ Fresh(u) \/ InBox(w) \/ InBox(z) \/ InHand(u, w) \/ InHand(u, z)
      \/ InStep(w) \/ InStep(z)
  BY <1>0 DEF Tempo
<1>2. \/ Fresh(u)' \/ InBox(w)' \/ InBox(z)' \/ InHand(u, w)' \/ InHand(u, z)'
      \/ InStep(w)' \/ InStep(z)'
      => Tempo(u)'
  BY <1>0 DEF Tempo
<1> DEFINE Wakes    == /\ phase[w] = "sleep" /\ left[w] = 0
                       /\ phase'[w] = "accept" /\ left'[w] = AcceptTicks
                       /\ Waiting(w)' = Waiting(w) /\ Waiting(z)' = Waiting(z)
           Takes    == /\ phase[w] = "accept" /\ Waiting(w) > 0
                       /\ phase'[w] = "connect"
                       /\ Waiting(w)' = Waiting(w) - 1 /\ Waiting(z)' = Waiting(z)
           TimesOut == /\ phase[w] = "accept" /\ Waiting(w) = 0 /\ left[w] = 0
                       /\ phase'[w] = "connect"
                       /\ Waiting(w)' = 0 /\ Waiting(z)' = Waiting(z)
           Writes   == /\ phase[w] = "connect"
                       /\ phase'[w] = "sleep" /\ left'[w] = SleepTicks
                       /\ Waiting(w)' = Waiting(w) /\ Waiting(z)' = Waiting(z) + 1
<1>3. /\ phase'[z] = phase[z] /\ left'[z] = left[z] /\ at'[z] = at[z]
      /\ Wakes \/ Takes \/ TimesOut \/ Writes
  BY DEF Beat
<1> HIDE DEF Waiting, z
<1>4. CASE Fresh(u)
  <2>1. CASE u = w
    <3>1. InHand(u, w)'
      BY <1>0, <1>3, <1>4, <2>1 DEF Fresh, InHand, Awake
    <3> QED
      BY <1>2, <3>1
  <2>2. CASE u = z /\ Wakes
    <3>1. Fresh(u)'
      BY <1>0, <1>3, <1>4, <2>2 DEF Fresh, Awake, GivesUp
    <3> QED
      BY <1>2, <3>1
  <2>3. CASE u = z /\ ~Wakes
    <3>1. InHand(u, w)'
      BY <1>0, <1>3, <1>4, <2>3 DEF Fresh, Awake, GivesUp, InHand
    <3> QED
      BY <1>2, <3>1
  <2> QED
    BY <1>0, <2>1, <2>2, <2>3
<1>5. CASE InBox(w)
  <2>1. CASE Wakes
    <3>1. InBox(w)'
      BY <1>0, <1>3, <1>5, <2>1 DEF InBox, Awake, Reads, GivesUp
    <3> QED
      BY <1>2, <3>1
  <2>2. CASE ~Wakes
    <3>1. InHand(u, w)'
      BY <1>0, <1>3, <1>5, <2>2 DEF InBox, InHand, Awake, Reads, GivesUp
    <3> QED
      BY <1>2, <3>1
  <2> QED
    BY <2>1, <2>2
<1>6. CASE InBox(z)
  <2>1. InBox(z)'
    BY <1>0, <1>3, <1>6 DEF InBox, Awake, Reads, GivesUp
  <2> QED
    BY <1>2, <2>1
<1>7. CASE InHand(u, w)
  <2>1. InBox(z)'
    BY <1>0, <1>3, <1>7 DEF InBox, InHand, Awake, Reads, GivesUp
  <2> QED
    BY <1>2, <2>1
<1>8. CASE InHand(u, z)
  <2>1. CASE Wakes
    <3>1. InHand(u, z)'
      BY <1>0, <1>3, <1>8, <2>1 DEF InHand, Awake, GivesUp
    <3> QED
      BY <1>2, <3>1
  <2>2. CASE ~Wakes
    <3>1. InStep(w)'
      BY <1>0, <1>3, <1>8, <2>2 DEF InHand, Awake, InStep, Due
    <3> QED
      BY <1>2, <3>1
  <2> QED
    BY <2>1, <2>2
<1>9. CASE InStep(w)
  <2>1. InStep(w)'
    BY <1>0, <1>3, <1>9 DEF InStep, Due
  <2> QED
    BY <1>2, <2>1
<1>10. CASE InStep(z)
  <2>1. InStep(z)' \/ InStep(w)'
    BY <1>0, <1>3, <1>10 DEF InStep, Due
  <2> QED
    BY <1>2, <2>1
<1> QED
  BY <1>1, <1>4, <1>5, <1>6, <1>7, <1>8, <1>9, <1>10

\* Time passes when both units wait, by the same amount for both.
LEMMA TempoTicks ==
    ASSUME NEW u \in Unit, TimedInv, Pair(u), Tempo(u), Tick
    PROVE  Pair(u)' /\ Tempo(u)'
<1> DEFINE v == Peer(u)
<1>0. /\ v \in Unit /\ v # u /\ Peer(v) = u
      /\ \A x \in Unit : x = u \/ x = v
      /\ Waiting(u) \in Nat /\ Waiting(v) \in Nat
      /\ left[u] \in 0 .. SleepTicks /\ left[v] \in 0 .. SleepTicks
      /\ AcceptTicks \in Nat \ {0} /\ SleepTicks \in Nat
  BY PeerIsOther, UnitsAreTwo, QueueLengths, TicksAssumption
  DEF TimedInv, TimedTypeOK, TypeOK, Waiting
<1>1. UNCHANGED vars
  BY DEF Tick
<1>2. Pair(u)'
  BY <1>1 DEF vars, unitVars, Pair, Follows, Leads
<1>3. \A x \in Unit : Waiting(x)' = Waiting(x) /\ phase'[x] = phase[x] /\ at'[x] = at[x]
  BY <1>1 DEF vars, unitVars, Waiting
<1>4. \A x \in Unit : /\ phase[x] # "connect"
                      /\ phase[x] \in {"sleep", "accept"} => left[x] # 0
                      /\ phase[x] = "accept" => Waiting(x) = 0
                      /\ left'[x] = IF left[x] = 0 THEN 0 ELSE left[x] - 1
  BY QueueLengths DEF Tick, Ready, Waiting
<1> HIDE DEF Waiting, v
<1>5. CASE Fresh(u)
  <2>1. Fresh(u)'
    BY <1>0, <1>3, <1>4, <1>5 DEF Fresh, Awake, GivesUp, v
  <2> QED
    BY <1>2, <2>1 DEF Tempo
<1>6. ASSUME NEW x \in Unit, InBox(x) \/ InHand(u, x) \/ InStep(x)
      PROVE  InBox(x)' \/ InStep(x)'
  <2> DEFINE y == Peer(x)
  <2>1. /\ y \in Unit /\ y # x
        /\ Waiting(x) \in Nat /\ Waiting(y) \in Nat
        /\ left[x] \in 0 .. SleepTicks /\ left[y] \in 0 .. SleepTicks
    BY <1>0, PeerIsOther
  <2>2. /\ Waiting(x)' = Waiting(x) /\ phase'[x] = phase[x]
        /\ Waiting(y)' = Waiting(y) /\ phase'[y] = phase[y]
        /\ phase[x] # "connect" /\ phase[y] # "connect"
        /\ phase[x] \in {"sleep", "accept"} => left[x] # 0 /\ left'[x] = left[x] - 1
        /\ phase[y] \in {"sleep", "accept"} => left[y] # 0 /\ left'[y] = left[y] - 1
        /\ phase[x] = "accept" => Waiting(x) = 0
        /\ phase[y] = "accept" => Waiting(y) = 0
    BY <1>3, <1>4, <2>1
  <2> HIDE DEF y
  <2>3. CASE InBox(x)
    BY <1>0, <2>1, <2>2, <2>3 DEF InBox, Awake, Reads, GivesUp, y
  <2>4. ~InHand(u, x)
    BY <2>2 DEF InHand
  <2>5. CASE InStep(x)
    BY <1>0, <2>1, <2>2, <2>5 DEF InStep, Due, y
  <2> QED
    BY <1>6, <2>3, <2>4, <2>5
<1> QED
  BY <1>2, <1>5, <1>6 DEF Tempo

\* A unit that starts beside a settled alpha.
LEMMA PairStarts ==
    ASSUME NEW u \in Unit, TimedInv, Start(u), SetTimer(u), Settled(Peer(u))
    PROVE  Pair(u)' /\ Tempo(u)'
<1> DEFINE v == Peer(u)
<1>0. /\ v \in Unit /\ v # u /\ TypeOK /\ TimedTypeOK
      /\ backlog[u] = <<>> /\ Len(<<>>) = 0
      /\ at[v] = "wake" /\ left[v] \in Nat /\ AcceptTicks \in Nat
  BY PeerIsOther, TicksAssumption
  DEF TimedInv, TimedTypeOK, IInv, QueuesFit, Placed, Start, Settled
<1>1. /\ phase'[u] = "accept" /\ at'[u] = "start" /\ myRank'[u] = 0 /\ status'[u] = Beta
      /\ phase'[v] = "sleep" /\ at'[v] = "wake" /\ myRank'[v] = 1 /\ status'[v] = Alpha
      /\ link' /\ backlog'[u] = <<>> /\ backlog'[v] = <<>>
  BY <1>0 DEF Start, Goto, Settled, TypeOK
<1>2. left'[u] = AcceptTicks /\ left'[v] = left[v]
  BY <1>0, <1>1 DEF SetTimer, Duration, TimedTypeOK
<1>3. Pair(u)'
  BY <1>0, <1>1 DEF Pair, Follows, Leads, Says
<1>4. Fresh(u)'
  BY <1>0, <1>1, <1>2 DEF Fresh, Awake, GivesUp, Waiting
<1> QED
  BY <1>3, <1>4 DEF Tempo

-----------------------------------------------------------------------------
LEMMA TempoIsKept ==
    ASSUME Backlog >= 2, TimedInv, JoinedInTempo, [TimedNext]_timedVars
    PROVE  JoinedInTempo'
<1>0. TimedInv'
  BY TimedStepTypes
<1>1. ASSUME NEW w \in Unit, TimedThread(w), NEW u \in joined
      PROVE  Pair(u)' /\ Tempo(u)'
  <2>1. u \in Unit /\ Pair(u) /\ Tempo(u)
    BY <1>1 DEF JoinedInTempo, TimedInv, TimedTypeOK
  <2>2. Pair(u)' /\ Beat(w)
    BY <1>1, <2>1, TempoAllows, PairBeats
  <2>3. Tempo(u)'
    BY <1>0, <2>1, <2>2, TempoBeats
  <2> QED
    BY <2>2, <2>3
<1>2. CASE \E u \in Unit : TimedThread(u)
  <2>1. UNCHANGED joined
    BY <1>2 DEF TimedThread
  <2> QED
    BY <1>1, <1>2, <2>1 DEF JoinedInTempo
<1>3. CASE TimedEnvironment
  <2>1. joined' = {} \/ \E u \in Unit : /\ Start(u) /\ SetTimer(u) /\ Settled(Peer(u))
                                      /\ joined' = {u}
    BY <1>3 DEF TimedEnvironment
  <2> QED
    BY <2>1, PairStarts DEF JoinedInTempo
<1>4. CASE Tick
  <2>1. \A u \in joined : u \in Unit /\ Pair(u) /\ Tempo(u)
    BY DEF JoinedInTempo, TimedInv, TimedTypeOK
  <2>2. UNCHANGED joined
    BY <1>4 DEF Tick
  <2> QED
    BY <1>4, <2>1, <2>2, TempoTicks DEF JoinedInTempo
<1>5. CASE UNCHANGED timedVars
  BY <1>5
  DEF timedVars, vars, unitVars, JoinedInTempo, Pair, Follows, Leads, Tempo, Fresh,
      InBox, InHand, InStep, Due, Awake, Reads, GivesUp, Waiting
<1> QED
  BY <1>2, <1>3, <1>4, <1>5 DEF TimedNext

\* A unit that starts beside a settled alpha stays beta, and that alpha alpha
\* (JoinerStaysBeta), for as long as both run and the link holds, however long a sleep
\* and a timeout are, if a socket queues two connections (the code asks for five).  TLC
\* finds it violated with a queue of one.
THEOREM JoinersStayBeta ==
    ASSUME Backlog >= 2
    PROVE  TimedSpec => []JoinerStaysBeta
<1>1. TimedInit => JoinedInTempo
  BY DEF TimedInit, JoinedInTempo
<1>2. JoinedInTempo => JoinerStaysBeta
  BY DEF JoinedInTempo, JoinerStaysBeta, Pair, Follows, Leads
<1> QED
  BY <1>1, <1>2, TimedInvHolds, TempoIsKept, PTL DEF TimedSpec

=============================================================================
