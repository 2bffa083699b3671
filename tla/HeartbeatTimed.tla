--------------------------- MODULE HeartbeatTimed ---------------------------
(***************************************************************************)
(* The election of module Heartbeat on perfect clocks.  Time passes in     *)
(* ticks of one accept timeout (250 ms); reading, writing and computing    *)
(* take no time, every sleep and timeout ends exactly when it is due, and  *)
(* time stands still while a thread can run.  What goes wrong here does    *)
(* not need a slow machine or a late packet.                               *)
(***************************************************************************)
EXTENDS Heartbeat

CONSTANTS
    SleepTicks,     \* SLEEPTIME in ticks
    AcceptTicks,    \* SOCKETTIMEOUT * 5, and WAITTIME, in ticks
    Limit           \* ticks a unit may take to replace the other one

ASSUME TicksAssumption ==
    /\ AcceptTicks \in Nat \ {0}
    /\ SleepTicks \in Nat /\ SleepTicks > AcceptTicks
    /\ Limit \in Nat

VARIABLES
    left,   \* ticks until each thread's blocking call ends by itself
    alone,  \* ticks since the unit's peer stopped, up to Limit + 1
    joined  \* the unit that last started, beside a settled alpha, if nothing has
            \* happened to the units and the link since; a set of one, or empty

timedVars == <<vars, left, alone, joined>>

\* The type invariant.
TimedTypeOK ==
    /\ TypeOK
    /\ left \in [Unit -> 0 .. SleepTicks]
    /\ alone \in [Unit -> 0 .. Limit + 1]
    /\ joined \subseteq Unit

\* Mutant: the sleep is one tick longer than SLEEPTIME.
DurationOverslept(p) ==
    CASE p = "sleep"   -> {SleepTicks + 1}
      [] p = "accept"  -> {AcceptTicks}
      [] p = "backoff" -> 0 .. AcceptTicks
      [] OTHER         -> {0}

\* The durations of the three calls that end by themselves.
Duration(p) ==
    CASE p = "sleep"   -> {SleepTicks}
      [] p = "accept"  -> {AcceptTicks}
      [] p = "backoff" -> 0 .. AcceptTicks
      [] OTHER         -> {0}

TimedInit ==
    /\ Init
    /\ left = [u \in Unit |-> 0]
    /\ alone = [u \in Unit |-> 0]
    /\ joined = {}

\* A unit that waits in vain for its peer: running, not blocked for good, and
\* neither alpha nor at the model's rank bound.
Deserted(u) ==
    /\ phase[u] \notin {"off", "stuck"}
    /\ phase[Peer(u)] = "off"
    /\ status[u] = Beta
    /\ ~Capped(u)

SetTimer(u) ==
    /\ \E d \in Duration(phase'[u]) : left' = [left EXCEPT ![u] = d]
    /\ alone' = [v \in Unit |-> IF Deserted(v)' THEN alone[v] ELSE 0]

TimedThread(u) ==
    /\ \/ (Wake(u) \/ BackoffEnds(u) \/ AcceptTimeout(u)) /\ left[u] = 0
       \/ AcceptRank(u) \/ AcceptEof(u) \/ AcceptSilent(u)
       \/ SendRank(u) \/ ConnectFails(u) \/ ConnectError(u)
    /\ SetTimer(u)
    /\ UNCHANGED joined

\* An alpha that rests, advertises rank 1 and has no old rank to read.
Settled(u) ==
    /\ link /\ phase[u] = "sleep" /\ status[u] = Alpha
    /\ myRank[u] = 1 /\ backlog[u] = <<>>

TimedEnvironment ==
    \/ \E u \in Unit :
          \/ /\ Start(u) /\ SetTimer(u)
             /\ joined' = IF Settled(Peer(u)) THEN {u} ELSE {}
          \/ (Exit(u) \/ PowerLoss(u)) /\ SetTimer(u) /\ joined' = {}
    \/ LinkChanges /\ joined' = {} /\ UNCHANGED <<left, alone>>

\* A thread that can go on now.
Ready(u) ==
    \/ phase[u] = "connect"
    \/ phase[u] \in {"sleep", "backoff", "accept"} /\ left[u] = 0
    \/ phase[u] = "accept" /\ backlog[u] # <<>>

Tick ==
    /\ \A u \in Unit : ~Ready(u)
    /\ left' = [u \in Unit |-> IF left[u] = 0 THEN 0 ELSE left[u] - 1]
    /\ alone' = [u \in Unit |->
                   IF Deserted(u) /\ alone[u] <= Limit THEN alone[u] + 1 ELSE alone[u]]
    /\ UNCHANGED <<vars, joined>>

TimedNext == (\E u \in Unit : TimedThread(u)) \/ TimedEnvironment \/ Tick

TimedSpec == TimedInit /\ [][TimedNext]_timedVars

FairTimedSpec ==
    /\ TimedSpec
    /\ WF_timedVars(Tick)
    /\ \A u \in Unit : WF_timedVars(TimedThread(u))

-----------------------------------------------------------------------------
\* A unit whose peer stopped is alpha within Limit ticks, although every rank
\* left in its backlog may keep it beta for one more round: ConnectError keeps
\* the rank just read.  The requirements (docs) give the cluster 30 seconds.
TakeOverInTime == \A u \in Unit : alone[u] <= Limit

\* A unit that starts beside a settled alpha stays beta, and that alpha alpha, for
\* as long as both run and the link holds.
JoinerStaysBeta == \A u \in joined : status[u] = Beta /\ status[Peer(u)] = Alpha

=============================================================================
