--------------------------- MODULE HeartbeatProofs ---------------------------
(***************************************************************************)
(* Proofs about the election of module Heartbeat, for every backlog, rank  *)
(* bound and set of faults.  The inductive invariant IInv adds to the      *)
(* checked properties what their preservation rests on: a thread that has  *)
(* not left its first synchronize() is a beta of rank 0, and afterwards    *)
(* the role is the one wasBeta and the mail record speak of.               *)
(***************************************************************************)
EXTENDS Heartbeat, FiniteSetTheorems, TLAPS

\* Before the first synchronize() returns the unit is as constructed; it sleeps
\* only afterwards.
FirstRound ==
    \A u \in Unit : at[u] = "start" =>
        myRank[u] = 0 /\ status[u] = Beta /\ phase[u] \notin {"sleep", "backoff"}

\* From then on wasBeta covers every beta, a mail every alpha.
RoleNoted ==
    \A u \in Unit : at[u] # "start" =>
        /\ status[u] = Beta => wasBeta[u]
        /\ status[u] = Alpha => alerted[u]

IInv ==
    /\ TypeOK
    /\ FirstRound
    /\ RoleNoted
    /\ AlphaAudible
    /\ BetaDefers
    /\ DownMeansRankZero

-----------------------------------------------------------------------------
\* There is another unit, and only one.
LEMMA PeerIsOther ==
    ASSUME NEW u \in Unit
    PROVE  Peer(u) \in Unit /\ Peer(u) # u
<1>1. \E v \in Unit : v # u
  <2>1. SUFFICES ASSUME \A v \in Unit : v = u PROVE FALSE
    OBVIOUS
  <2>2. Unit = {u}
    BY <2>1
  <2>3. Cardinality({u}) = 1
    BY FS_Singleton
  <2> QED
    BY <2>2, <2>3, UnitAssumption
<1> QED
  BY <1>1 DEF Peer

\* What synchronize()'s caller does with the rank it returns: the unit is set to
\* a new phase, place, rank and role that satisfy what the invariants ask for,
\* and a role is only lost to a higher rank.
ReturnEffect(u, other) ==
    \E p \in {"sleep", "backoff", "accept"}, a \in Place \ {"start"},
       r \in Rank, s \in {Alpha, Beta}, w \in BOOLEAN, m \in BOOLEAN :
        /\ phase' = [phase EXCEPT ![u] = p]
        /\ at' = [at EXCEPT ![u] = a]
        /\ myRank' = [myRank EXCEPT ![u] = r]
        /\ status' = [status EXCEPT ![u] = s]
        /\ wasBeta' = [wasBeta EXCEPT ![u] = w]
        /\ alerted' = [alerted EXCEPT ![u] = m]
        /\ s = Beta => w
        /\ s = Alpha => m /\ r >= 1
        /\ p = "sleep" /\ s = Beta => r = 0 \/ r < other
        /\ status[u] = Alpha /\ s = Beta => other > r

\* EndRound achieves the effect for a role that fits the rank.
LEMMA EndRoundEffect ==
    ASSUME NEW u \in Unit, NEW other \in Rank, NEW rank \in Rank,
           NEW role \in {Alpha, Beta},
           TypeOK, RoleNoted, FirstRound,
           EndRound(u, rank, role),
           at[u] = "start" => role = Beta,
           role = Alpha => rank >= 1,
           role = Beta => rank = 0 \/ rank < other,
           status[u] = Alpha /\ role = Beta => other > rank
    PROVE  ReturnEffect(u, other)
<1> DEFINE m == role = Alpha /\ (alerted[u] \/ wasBeta[u])
<1> DEFINE w == role = Beta
<1>1. /\ phase' = [phase EXCEPT ![u] = "sleep"]
      /\ at' = [at EXCEPT ![u] = "wake"]
      /\ myRank' = [myRank EXCEPT ![u] = rank]
      /\ status' = [status EXCEPT ![u] = role]
      /\ wasBeta' = [wasBeta EXCEPT ![u] = w]
      /\ alerted' = [alerted EXCEPT ![u] = m]
  BY DEF EndRound, Goto, TypeOK
<1>2. role = Alpha => m
  BY DEF RoleNoted, FirstRound, TypeOK, Alpha, Beta
<1>3. w \in BOOLEAN /\ m \in BOOLEAN /\ (role = Beta => w)
  OBVIOUS
<1>4. "sleep" \in {"sleep", "backoff", "accept"} /\ "wake" \in Place \ {"start"}
  BY DEF Place
<1> HIDE DEF m, w
<1> QED
  BY <1>1, <1>2, <1>3, <1>4 DEF ReturnEffect

\* So does a raise, from a unit that has left its first round or is about to.
LEMMA RaiseEffect ==
    ASSUME NEW u \in Unit, NEW other \in Rank, NEW place \in {"contest", "raise"},
           TypeOK, RoleNoted, at[u] # "start",
           Raise(u, place)
    PROVE  ReturnEffect(u, other)
<1> DEFINE r == myRank[u] + 2
<1>1. r \in Rank /\ r >= 1
  BY MaxRankAssumption DEF Raise, Rank, TypeOK
<1>2. /\ phase' = [phase EXCEPT ![u] = "accept"]
      /\ at' = [at EXCEPT ![u] = place]
      /\ myRank' = [myRank EXCEPT ![u] = r]
      /\ status' = [status EXCEPT ![u] = status[u]]
      /\ wasBeta' = [wasBeta EXCEPT ![u] = wasBeta[u]]
      /\ alerted' = [alerted EXCEPT ![u] = alerted[u]]
  BY DEF Raise, Goto, TypeOK
<1>3. /\ status[u] \in {Alpha, Beta}
      /\ wasBeta[u] \in BOOLEAN
      /\ alerted[u] \in BOOLEAN
      /\ status[u] = Beta => wasBeta[u]
      /\ status[u] = Alpha => alerted[u]
  BY DEF TypeOK, RoleNoted
<1>4. place \in Place \ {"start"} /\ Alpha # Beta
  BY DEF Place, Alpha, Beta
<1> HIDE DEF r
<1> QED
  BY <1>1, <1>2, <1>3, <1>4 DEF ReturnEffect

\* Whatever rank synchronize() returns, and wherever it was called.
LEMMA ReturnHasEffect ==
    ASSUME NEW u \in Unit, NEW other \in Rank,
           IInv, Running(u), Return(u, other)
    PROVE  ReturnEffect(u, other)
<1> USE DEF IInv
<1>0. /\ myRank[u] \in Rank
      /\ status[u] \in {Alpha, Beta}
      /\ status[u] = Alpha => myRank[u] >= 1
      /\ 0 \in Rank
      /\ Alpha # Beta
  BY MaxRankAssumption DEF TypeOK, AlphaAudible, Rank, Alpha, Beta
<1>1. CASE at[u] = "start" /\ AfterStart(u, other)
  <2>1. myRank[u] = 0 /\ status[u] = Beta
    BY <1>1 DEF FirstRound
  <2>2. ~(myRank[u] > other)
    BY <2>1 DEF Rank
  <2>3. EndRound(u, myRank[u], status[u])
    BY <1>1, <2>2 DEF AfterStart
  <2> QED
    BY <1>0, <1>1, <2>1, <2>3, EndRoundEffect
<1>2. CASE at[u] = "wake" /\ AfterWake(u, other)
  <2>1. CASE alphaContest(u)
    BY <1>2, <2>1, RaiseEffect DEF alphaContest
  <2>2. CASE status[u] = Alpha /\ myRank[u] > other /\ other = 0 /\ EndRound(u, 1, Alpha)
    <3>1. 1 \in Rank
      BY <2>2, <1>0, MaxRankAssumption DEF Rank
    <3> QED
      BY <1>0, <1>2, <2>2, <3>1, EndRoundEffect
  <2>3. CASE status[u] = Alpha /\ EndRound(u, myRank[u], Alpha)
    BY <1>0, <1>2, <2>3, EndRoundEffect
  <2>4. CASE status[u] = Beta /\ EndRound(u, 0, Beta)
    BY <1>0, <1>2, <2>4, EndRoundEffect
  <2> QED
    BY <1>2, <2>1, <2>2, <2>3, <2>4 DEF AfterWake
<1>3. CASE at[u] # "start" /\ myRank[u] # other /\ Verdict(u, other)
  <2>1. CASE myRank[u] > other
    <3>1. EndRound(u, myRank[u], Alpha) /\ myRank[u] >= 1
      BY <1>3, <2>1, <1>0 DEF Verdict, Rank
    <3> QED
      BY <1>0, <1>3, <3>1, EndRoundEffect
  <2>2. CASE ~(myRank[u] > other)
    <3>1. EndRound(u, myRank[u], Beta) /\ myRank[u] < other
      BY <1>3, <2>2, <1>0 DEF Verdict, Rank
    <3> QED
      BY <1>0, <1>3, <3>1, EndRoundEffect
  <2> QED
    BY <2>1, <2>2
<1>4. CASE at[u] \in {"contest", "raise"} /\ AfterRaise(u, other)
  <2>1. CASE myRank[u] = other
    <3>1. /\ phase' = [phase EXCEPT ![u] = "backoff"]
          /\ at' = [at EXCEPT ![u] = "draw"]
          /\ myRank' = [myRank EXCEPT ![u] = myRank[u]]
          /\ status' = [status EXCEPT ![u] = status[u]]
          /\ wasBeta' = [wasBeta EXCEPT ![u] = wasBeta[u]]
          /\ alerted' = [alerted EXCEPT ![u] = alerted[u]]
      BY <1>4, <2>1 DEF AfterRaise, Goto, TypeOK
    <3>2. /\ wasBeta[u] \in BOOLEAN
          /\ alerted[u] \in BOOLEAN
          /\ status[u] = Beta => wasBeta[u]
          /\ status[u] = Alpha => alerted[u]
          /\ "draw" \in Place \ {"start"}
      BY <1>4 DEF TypeOK, RoleNoted, Place
    <3> QED
      BY <1>0, <3>1, <3>2 DEF ReturnEffect
  <2>2. CASE myRank[u] # other
    BY <1>3, <1>4, <2>2 DEF AfterRaise
  <2> QED
    BY <2>1, <2>2
<1>5. CASE at[u] = "draw" /\ AfterDraw(u, other)
  <2>1. CASE myRank[u] < other
    BY <1>0, <1>3, <1>5, <2>1 DEF AfterDraw, Rank
  <2>2. CASE ~(myRank[u] < other)
    BY <1>5, <2>2, RaiseEffect DEF AfterDraw
  <2> QED
    BY <2>1, <2>2
<1> QED
  BY <1>1, <1>2, <1>4, <1>5 DEF Return

-----------------------------------------------------------------------------
\* The backlogs stay sequences of messages.
LEMMA MessageTypes ==
    ASSUME NEW s \in Seq(Message)
    PROVE  /\ \A m \in Message : Append(s, m) \in Seq(Message)
           /\ s # <<>> => Head(s) \in Message /\ Tail(s) \in Seq(Message)
  OBVIOUS

\* The parts of the invariant a step of unit u has to re-establish, stated for u
\* alone; every other unit keeps its fields.
UnitInv(u) ==
    /\ at[u] = "start" =>
         myRank[u] = 0 /\ status[u] = Beta /\ phase[u] \notin {"sleep", "backoff"}
    /\ at[u] # "start" => /\ status[u] = Beta => wasBeta[u]
                          /\ status[u] = Alpha => alerted[u]
    /\ Running(u) /\ status[u] = Alpha => myRank[u] >= 1
    /\ phase[u] = "sleep" /\ status[u] = Beta =>
         myRank[u] = 0 \/ myRank[u] < otherRank[u]
    /\ ~connected[u] => otherRank[u] = 0

LEMMA IInvByUnit == IInv <=> TypeOK /\ \A u \in Unit : UnitInv(u)
  BY DEF IInv, FirstRound, RoleNoted, AlphaAudible, BetaDefers,
         DownMeansRankZero, UnitInv

\* A step that touches the fields of one unit only need only keep that unit's
\* part.
LEMMA OneUnitStep ==
    ASSUME NEW u \in Unit, IInv, TypeOK', UnitInv(u)',
           \A v \in Unit \ {u} :
             /\ phase'[v] = phase[v] /\ at'[v] = at[v]
             /\ myRank'[v] = myRank[v] /\ otherRank'[v] = otherRank[v]
             /\ status'[v] = status[v] /\ connected'[v] = connected[v]
             /\ wasBeta'[v] = wasBeta[v] /\ alerted'[v] = alerted[v]
    PROVE  IInv'
<1>1. \A v \in Unit \ {u} : UnitInv(v)'
  BY IInvByUnit DEF UnitInv, Running
<1> QED
  BY <1>1 DEF UnitInv, IInv, FirstRound, RoleNoted, AlphaAudible, BetaDefers,
              DownMeansRankZero

\* synchronize() returns, having set otherRank and connected.
LEMMA ReturnKeepsIInv ==
    ASSUME NEW u \in Unit, NEW other \in Rank, NEW c \in BOOLEAN,
           IInv, Running(u), Return(u, other),
           otherRank' = [otherRank EXCEPT ![u] = other],
           connected' = [connected EXCEPT ![u] = c],
           ~c => other = 0,
           backlog' \in [Unit -> Seq(Message)], link' \in BOOLEAN
    PROVE  IInv' /\ (status[u] = Alpha /\ status'[u] = Beta =>
                       connected'[u] /\ otherRank'[u] > myRank'[u])
<1>1. ReturnEffect(u, other)
  BY ReturnHasEffect
<1>2. PICK p \in {"sleep", "backoff", "accept"}, a \in Place \ {"start"},
           r \in Rank, s \in {Alpha, Beta}, w \in BOOLEAN, m \in BOOLEAN :
        /\ phase' = [phase EXCEPT ![u] = p]
        /\ at' = [at EXCEPT ![u] = a]
        /\ myRank' = [myRank EXCEPT ![u] = r]
        /\ status' = [status EXCEPT ![u] = s]
        /\ wasBeta' = [wasBeta EXCEPT ![u] = w]
        /\ alerted' = [alerted EXCEPT ![u] = m]
        /\ s = Beta => w
        /\ s = Alpha => m /\ r >= 1
        /\ p = "sleep" /\ s = Beta => r = 0 \/ r < other
        /\ status[u] = Alpha /\ s = Beta => other > r
  BY <1>1 DEF ReturnEffect
<1>3. TypeOK
  BY DEF IInv
<1>4. TypeOK'
  BY <1>2, <1>3 DEF TypeOK, Phase
<1>5. /\ phase'[u] = p /\ at'[u] = a /\ myRank'[u] = r /\ otherRank'[u] = other
      /\ status'[u] = s /\ connected'[u] = c /\ wasBeta'[u] = w /\ alerted'[u] = m
  BY <1>2, <1>3 DEF TypeOK
<1>6. UnitInv(u)'
  BY <1>2, <1>5 DEF UnitInv
<1>7. IInv'
  BY <1>2, <1>3, <1>4, <1>6, OneUnitStep DEF TypeOK
<1>8. status[u] = Alpha /\ status'[u] = Beta =>
        connected'[u] /\ otherRank'[u] > myRank'[u]
  <2>1. SUFFICES ASSUME status[u] = Alpha, s = Beta
                 PROVE  c /\ other > r
    BY <1>5
  <2>2. other > r /\ r \in Nat
    BY <1>2, <2>1, MaxRankAssumption DEF Rank
  <2>3. other # 0
    BY <2>2
  <2> QED
    BY <2>2, <2>3
<1> QED
  BY <1>7, <1>8

-----------------------------------------------------------------------------
LEMMA InitIInv == Init => IInv
  BY MaxRankAssumption
  DEF Init, IInv, TypeOK, FirstRound, RoleNoted, AlphaAudible, BetaDefers,
      DownMeansRankZero, Phase, Place, Rank, Alpha, Beta, Running

\* The steps of the election do not disturb the invariant, and an alpha loses its
\* role only to a rank it heard.
LEMMA ThreadStep ==
    ASSUME NEW u \in Unit, IInv, Thread(u)
    PROVE  IInv' /\ (\A v \in Unit : Running(v) /\ status[v] = Alpha /\ status'[v] = Beta
                       => connected'[v] /\ otherRank'[v] > myRank'[v])
<1> DEFINE Kept == \A v \in Unit : Running(v) /\ status[v] = Alpha /\ status'[v] = Beta
                       => connected'[v] /\ otherRank'[v] > myRank'[v]
<1>0. /\ TypeOK
      /\ UnitInv(u)
      /\ Alpha # Beta
      /\ 0 \in Rank
  BY IInvByUnit, MaxRankAssumption DEF IInv, Alpha, Beta, Rank
<1>a. status' = status => Kept
  BY <1>0 DEF TypeOK
<1>1. CASE AcceptRank(u)
  <2>1. Head(backlog[u]).rank \in Rank /\ Tail(backlog[u]) \in Seq(Message)
    BY <1>0, <1>1, MessageTypes DEF AcceptRank, TypeOK, Message
  <2>2. TypeOK'
    BY <1>0, <1>1, <2>1 DEF AcceptRank, TypeOK, Goto, Phase
  <2>3. UnitInv(u)'
    BY <1>0, <1>1, <2>1 DEF AcceptRank, TypeOK, UnitInv, Goto, Running
  <2>4. IInv'
    BY <1>0, <1>1, <2>2, <2>3, OneUnitStep DEF AcceptRank, TypeOK, Goto
  <2> QED
    BY <1>1, <1>a, <2>4 DEF AcceptRank
<1>2. CASE AcceptEof(u) \/ AcceptSilent(u)
  <2>1. Tail(backlog[u]) \in Seq(Message)
    BY <1>0, <1>2, MessageTypes DEF AcceptEof, AcceptSilent, TypeOK
  <2>2. TypeOK'
    <3>1. CASE AcceptEof(u)
      BY <1>0, <2>1, <3>1 DEF AcceptEof, TypeOK, Goto, Phase
    <3>2. CASE AcceptSilent(u)
      BY <1>0, <2>1, <3>2 DEF AcceptSilent, TypeOK, Goto, Phase
    <3> QED
      BY <1>2, <3>1, <3>2
  <2>3. UnitInv(u)'
    BY <1>0, <1>2 DEF AcceptEof, AcceptSilent, TypeOK, UnitInv, Goto, Running
  <2>4. IInv'
    BY <1>0, <1>2, <2>2, <2>3, OneUnitStep DEF AcceptEof, AcceptSilent, TypeOK, Goto
  <2> QED
    BY <1>2, <1>a, <2>4 DEF AcceptEof, AcceptSilent
<1>3. CASE AcceptTimeout(u)
  <2>1. TypeOK'
    BY <1>0, <1>3 DEF AcceptTimeout, TypeOK, Goto, Phase
  <2>2. UnitInv(u)'
    BY <1>0, <1>3 DEF AcceptTimeout, TypeOK, UnitInv, Goto, Running
  <2>3. IInv'
    BY <1>0, <1>3, <2>1, <2>2, OneUnitStep DEF AcceptTimeout, TypeOK, Goto
  <2> QED
    BY <1>3, <1>a, <2>3 DEF AcceptTimeout
<1>4. CASE Wake(u) \/ BackoffEnds(u)
  <2>1. TypeOK'
    BY <1>0, <1>4 DEF Wake, BackoffEnds, TypeOK, Goto, Phase, Place
  <2>2. UnitInv(u)'
    BY <1>0, <1>4 DEF Wake, BackoffEnds, TypeOK, UnitInv, Goto, Running
  <2>3. IInv'
    BY <1>0, <1>4, <2>1, <2>2, OneUnitStep DEF Wake, BackoffEnds, TypeOK, Goto
  <2> QED
    BY <1>4, <1>a, <2>3 DEF Wake, BackoffEnds
<1>b. ASSUME NEW other \in Rank, NEW c \in BOOLEAN,
             phase[u] = "connect", Return(u, other),
             otherRank' = [otherRank EXCEPT ![u] = other],
             connected' = [connected EXCEPT ![u] = c],
             ~c => other = 0,
             backlog' \in [Unit -> Seq(Message)], link' \in BOOLEAN
      PROVE  IInv' /\ Kept
  <2>1. Running(u)
    BY <1>b DEF Running
  <2>2. IInv' /\ (status[u] = Alpha /\ status'[u] = Beta =>
                    connected'[u] /\ otherRank'[u] > myRank'[u])
    BY <1>b, <2>1, ReturnKeepsIInv
  <2>3. \A v \in Unit \ {u} : status'[v] = status[v]
    BY <1>0, <1>b, <2>1, ReturnHasEffect DEF ReturnEffect, TypeOK
  <2> QED
    BY <1>0, <2>2, <2>3
<1>5. CASE SendRank(u)
  <2>1. [kind |-> "rank", rank |-> myRank[u]] \in Message
    BY <1>0 DEF TypeOK, Message
  <2>2. backlog' \in [Unit -> Seq(Message)]
    BY <1>0, <1>5, <2>1, PeerIsOther, MessageTypes DEF SendRank, TypeOK
  <2>3. /\ otherRank' = [otherRank EXCEPT ![u] = otherRank[u]]
        /\ otherRank[u] \in Rank
        /\ connected' = [connected EXCEPT ![u] = TRUE]
        /\ phase[u] = "connect" /\ Return(u, otherRank[u]) /\ link' \in BOOLEAN
    BY <1>0, <1>5 DEF SendRank, TypeOK
  <2> QED
    BY <1>b, <2>2, <2>3
<1>6. CASE ConnectFails(u)
  <2>1. /\ otherRank' = [otherRank EXCEPT ![u] = 0]
        /\ connected' = [connected EXCEPT ![u] = FALSE]
        /\ phase[u] = "connect" /\ Return(u, 0)
        /\ backlog' \in [Unit -> Seq(Message)] /\ link' \in BOOLEAN
    BY <1>0, <1>6 DEF ConnectFails, TypeOK
  <2> QED
    BY <1>0, <1>b, <2>1
<1>7. CASE ConnectError(u)
  <2>1. /\ otherRank' = [otherRank EXCEPT ![u] = otherRank[u]]
        /\ otherRank[u] \in Rank
        /\ connected' = [connected EXCEPT ![u] = connected[u]]
        /\ connected[u] \in BOOLEAN
        /\ ~connected[u] => otherRank[u] = 0
        /\ phase[u] = "connect" /\ Return(u, otherRank[u])
        /\ backlog' \in [Unit -> Seq(Message)] /\ link' \in BOOLEAN
    BY <1>0, <1>7 DEF ConnectError, TypeOK, UnitInv
  <2> QED
    BY <1>b, <2>1
<1> QED
  BY <1>1, <1>2, <1>3, <1>4, <1>5, <1>6, <1>7 DEF Thread

\* Neither do starts and faults; no running unit changes its role in one.
LEMMA EnvironmentStep ==
    ASSUME IInv, Environment
    PROVE  IInv' /\ \A v \in Unit : Running(v) => status'[v] = status[v]
<1>0. TypeOK /\ \A v \in Unit : UnitInv(v)
  BY IInvByUnit
<1>1. ASSUME NEW u \in Unit, Start(u)
      PROVE  IInv' /\ \A v \in Unit : Running(v) => status'[v] = status[v]
  <2>1. TypeOK'
    BY <1>0, <1>1, MaxRankAssumption DEF Start, Goto, TypeOK, Phase, Place, Rank
  <2>2. UnitInv(u)'
    BY <1>0, <1>1 DEF Start, Goto, TypeOK, UnitInv, Alpha, Beta
  <2>3. IInv'
    BY <1>0, <1>1, <2>1, <2>2, OneUnitStep DEF Start, Goto, TypeOK
  <2> QED
    BY <1>0, <1>1, <2>3 DEF Start, Running, TypeOK
<1>2. ASSUME NEW u \in Unit, Exit(u) \/ PowerLoss(u)
      PROVE  IInv' /\ \A v \in Unit : Running(v) => status'[v] = status[v]
  <2>1. PICK leaves \in {"eof", "silent"}, fault \in {"exit", "power"} :
          Stop(u, fault, leaves)
    BY <1>2 DEF Exit, PowerLoss
  <2>2. backlog' \in [Unit -> Seq(Message)]
    <3>1. <<>> \in Seq(Message) /\ [kind |-> leaves, rank |-> 0] \in Message
      BY DEF Message
    <3>2. CASE backlog' = [backlog EXCEPT ![u] = <<>>]
      BY <1>0, <3>1, <3>2 DEF TypeOK
    <3>3. CASE backlog' = [backlog EXCEPT ![u] = <<>>,
                             ![Peer(u)] = Append(@, [kind |-> leaves, rank |-> 0])]
      <4>1. Append(backlog[Peer(u)], [kind |-> leaves, rank |-> 0]) \in Seq(Message)
        BY <1>0, <3>1, PeerIsOther, MessageTypes DEF TypeOK
      <4> QED
        BY <1>0, <3>1, <3>3, <4>1, PeerIsOther DEF TypeOK
    <3> QED
      BY <2>1, <3>2, <3>3 DEF Stop
  <2>3. TypeOK'
    BY <1>0, <2>1, <2>2 DEF Stop, TypeOK, Phase
  <2>4. UnitInv(u)'
    BY <1>0, <2>1 DEF Stop, TypeOK, UnitInv, Running
  <2>5. IInv'
    BY <1>0, <2>1, <2>3, <2>4, OneUnitStep DEF Stop, TypeOK
  <2> QED
    BY <2>1, <2>5 DEF Stop
<1>3. CASE LinkChanges
  <2>1. TypeOK'
    BY <1>0, <1>3 DEF LinkChanges, unitVars, TypeOK
  <2>2. IInv'
    BY <1>3, <2>1
    DEF LinkChanges, unitVars, IInv, FirstRound, RoleNoted, AlphaAudible,
        BetaDefers, DownMeansRankZero, Running
  <2> QED
    BY <1>3, <2>2 DEF LinkChanges, unitVars
<1> QED
  BY <1>1, <1>2, <1>3 DEF Environment

LEMMA NextIInv ==
    ASSUME IInv, [Next]_vars
    PROVE  IInv'
<1>1. CASE Next
  BY <1>1, ThreadStep, EnvironmentStep DEF Next
<1>2. CASE UNCHANGED vars
  BY <1>2
  DEF vars, unitVars, IInv, TypeOK, FirstRound, RoleNoted, AlphaAudible,
      BetaDefers, DownMeansRankZero, Running
<1> QED
  BY <1>1, <1>2

LEMMA IInvHolds == Spec => []IInv
  BY InitIInv, NextIInv, PTL DEF Spec

-----------------------------------------------------------------------------
\* Every reachable state of the election is well typed.
THEOREM TypeCorrect == Spec => []TypeOK
<1>1. IInv => TypeOK
  BY DEF IInv
<1> QED
  BY <1>1, IInvHolds, PTL

\* A resting beta never sits on a rank that beats what it knows of the other unit.
THEOREM BetasDefer == Spec => []BetaDefers
<1>1. IInv => BetaDefers
  BY DEF IInv
<1> QED
  BY <1>1, IInvHolds, PTL

\* A running alpha never advertises the rank of an absent unit.
THEOREM AlphasAreAudible == Spec => []AlphaAudible
<1>1. IInv => AlphaAudible
  BY DEF IInv
<1> QED
  BY <1>1, IInvHolds, PTL

\* No rank is remembered of a unit that is shown as down.
THEOREM DownIsAbsent == Spec => []DownMeansRankZero
<1>1. IInv => DownMeansRankZero
  BY DEF IInv
<1> QED
  BY <1>1, IInvHolds, PTL

\* No unit rests as alpha without a mail about its promotion.
THEOREM PromotionsAreAlerted == Spec => []PromotionsAlerted
<1>1. IInv => PromotionsAlerted
  BY DEF IInv, FirstRound, RoleNoted, PromotionsAlerted, Alpha, Beta
<1> QED
  BY <1>1, IInvHolds, PTL

\* A running alpha gives up its role only to a rank above its own that it heard
\* from a unit it is connected to.
THEOREM AlphasYieldOnlyToRivals == Spec => StepsDownOnlyToARival
<1> DEFINE Yields ==
      \A u \in Unit :
         Running(u) /\ status[u] = Alpha /\ status'[u] = Beta =>
            connected'[u] /\ otherRank'[u] > myRank'[u]
<1>1. ASSUME IInv, [Next]_vars PROVE [Yields]_vars
  <2>1. Alpha # Beta
    BY DEF Alpha, Beta
  <2>2. CASE \E u \in Unit : Thread(u)
    BY <1>1, <2>2, ThreadStep
  <2>3. CASE Environment
    BY <1>1, <2>1, <2>3, EnvironmentStep
  <2> QED
    BY <1>1, <2>2, <2>3 DEF Next
<1> QED
  BY <1>1, IInvHolds, PTL DEF Spec, StepsDownOnlyToARival

=============================================================================
