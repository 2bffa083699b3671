------------------------------ MODULE Heartbeat ------------------------------
(***************************************************************************)
(* The rank election of the two cluster units: the thread                  *)
(* src/gui-java/Snapptix_backend/Heartbeat.java starts inside each unit's  *)
(* GUI process.                                                            *)
(*                                                                         *)
(* A unit keeps its own rank and the last rank it knows of the other unit. *)
(* Every round it synchronizes: it accepts one connection from the other   *)
(* unit and reads a rank from it (or gives up after 250 ms), then connects *)
(* to the other unit and writes its own rank (or gives up after 50 ms).    *)
(* The ranks decide who is alpha.  Connections that nobody has accepted    *)
(* yet wait in the listening socket's backlog, so a rank may be read long  *)
(* after it was sent.                                                      *)
(*                                                                         *)
(* Time is left out: a sleep may end at any moment and an accept may give  *)
(* up whenever no connection is waiting.  One step of the model runs from  *)
(* one blocking call of the thread to the next; what lies between reads    *)
(* and writes only the unit's own fields.                                  *)
(***************************************************************************)
EXTENDS Integers, Sequences, FiniteSets

CONSTANTS
    Unit,       \* the two units
    Backlog,    \* connections the listening socket queues (ServerSocket(.., 5))
    MaxRank,    \* bound: no contest takes a rank above this
    Faults      \* which faults happen: a subset of {"exit", "power", "link"}

ASSUME UnitAssumption    == IsFiniteSet(Unit) /\ Cardinality(Unit) = 2
ASSUME BacklogAssumption == Backlog \in Nat \ {0}
ASSUME MaxRankAssumption == MaxRank \in Nat

Alpha == "A"
Beta  == "B"

Rank == 0 .. MaxRank

\* What a waiting connection holds: a rank, or nothing.  "eof": its sender's
\* process died between connect() and write(), readLine() returns null.
\* "silent": its sender's machine died there, readLine() never returns.
Message == [kind : {"rank"}, rank : Rank] \cup [kind : {"eof", "silent"}, rank : {0}]

VARIABLES
    phase,      \* where the thread is: not running, or in which blocking call
    at,         \* the call of synchronize() it is in, by its place in the code
    myRank, otherRank, status, connected, wasBeta,   \* the object's fields
    alerted,    \* a promotion mail was sent since the unit was last beta
    backlog,    \* the connections waiting in each unit's listening socket
    link        \* the network between the units works

unitVars == <<phase, at, myRank, otherRank, status, connected, wasBeta, alerted>>
vars == <<unitVars, backlog, link>>

Phase == {"off", "sleep", "backoff", "accept", "connect", "stuck"}
Place == {"start", "wake", "contest", "draw", "raise"}

\* The type invariant.
TypeOK ==
    /\ phase \in [Unit -> Phase]
    /\ at \in [Unit -> Place]
    /\ myRank \in [Unit -> Rank]
    /\ otherRank \in [Unit -> Rank]
    /\ status \in [Unit -> {Alpha, Beta}]
    /\ connected \in [Unit -> BOOLEAN]
    /\ wasBeta \in [Unit -> BOOLEAN]
    /\ alerted \in [Unit -> BOOLEAN]
    /\ backlog \in [Unit -> Seq(Message)]
    /\ link \in BOOLEAN

Init ==
    /\ phase = [u \in Unit |-> "off"]
    /\ at = [u \in Unit |-> "start"]
    /\ myRank = [u \in Unit |-> 0]
    /\ otherRank = [u \in Unit |-> 0]
    /\ status = [u \in Unit |-> Beta]
    /\ connected = [u \in Unit |-> FALSE]
    /\ wasBeta = [u \in Unit |-> FALSE]
    /\ alerted = [u \in Unit |-> FALSE]
    /\ backlog = [u \in Unit |-> <<>>]
    /\ link = TRUE

-----------------------------------------------------------------------------
\* The code between two blocking calls.

Goto(u, p, a) ==
    /\ phase' = [phase EXCEPT ![u] = p]
    /\ at' = [at EXCEPT ![u] = a]

\* Mutant: wasBeta is refreshed before the mail is considered, not after.
EndRoundLateMail(u, rank, role) ==
    /\ myRank' = [myRank EXCEPT ![u] = rank]
    /\ status' = [status EXCEPT ![u] = role]
    /\ alerted' = [alerted EXCEPT ![u] = role = Alpha /\ @]
    /\ wasBeta' = [wasBeta EXCEPT ![u] = role = Beta]
    /\ Goto(u, "sleep", "wake")

\* The bottom of run()'s loop and its top: mail the promotion, note the role,
\* sleep 5 s.
EndRound(u, rank, role) ==
    /\ myRank' = [myRank EXCEPT ![u] = rank]
    /\ status' = [status EXCEPT ![u] = role]
    /\ alerted' = [alerted EXCEPT ![u] = role = Alpha /\ (@ \/ wasBeta[u])]
    /\ wasBeta' = [wasBeta EXCEPT ![u] = role = Beta]
    /\ Goto(u, "sleep", "wake")

\* Two more on the rank, and synchronize again (place: which call that is).
Raise(u, place) ==
    /\ myRank[u] + 2 \in Rank
    /\ myRank' = [myRank EXCEPT ![u] = @ + 2]
    /\ Goto(u, "accept", place)
    /\ UNCHANGED <<status, wasBeta, alerted>>

alphaContest(u) == Raise(u, "contest")

Verdict(u, other) ==
    EndRound(u, myRank[u], IF myRank[u] > other THEN Alpha ELSE Beta)

\* Mutant: >= for >, a unit that has heard nothing contests at once.
AfterStartHasty(u, other) ==
    IF myRank[u] >= other THEN alphaContest(u)
                          ELSE EndRound(u, myRank[u], status[u])

\* run() before its loop: the constructor has set both ranks to 0.
AfterStart(u, other) ==
    IF myRank[u] > other THEN alphaContest(u)
                         ELSE EndRound(u, myRank[u], status[u])

\* Mutant: an unopposed alpha goes back to rank 0, as a beta does.
AfterWakeMuteAlpha(u, other) ==
    \/ /\ status[u] = Alpha
       /\ \/ myRank[u] > other /\ other = 0 /\ EndRound(u, 0, Alpha)
          \/ myRank[u] > other /\ other # 0 /\ alphaContest(u)
          \/ myRank[u] <= other /\ EndRound(u, myRank[u], Alpha)
    \/ /\ status[u] = Beta
       /\ \/ other > myRank[u] /\ EndRound(u, 0, Beta)
          \/ other <= myRank[u] /\ alphaContest(u)

\* run()'s loop body.  An alpha that is not ahead does nothing at all.
AfterWake(u, other) ==
    \/ /\ status[u] = Alpha
       /\ \/ myRank[u] > other /\ other = 0 /\ EndRound(u, 1, Alpha)
          \/ myRank[u] > other /\ other # 0 /\ alphaContest(u)
          \/ myRank[u] <= other /\ EndRound(u, myRank[u], Alpha)
    \/ /\ status[u] = Beta
       /\ \/ other > myRank[u] /\ EndRound(u, 0, Beta)
          \/ other <= myRank[u] /\ alphaContest(u)

\* The head of alphaContest()'s loop: on equal ranks sleep at most 250 ms.
AfterRaise(u, other) ==
    IF myRank[u] = other
    THEN /\ Goto(u, "backoff", "draw")
         /\ UNCHANGED <<myRank, status, wasBeta, alerted>>
    ELSE Verdict(u, other)

\* Mutant: the contest ends after one draw, also on equal ranks.
AfterDrawOnce(u, other) == Verdict(u, other)

\* Inside that loop, after the sleep: give in to a higher rank, or outbid it.
AfterDraw(u, other) ==
    IF myRank[u] < other THEN Verdict(u, other) ELSE Raise(u, "raise")

\* synchronize() returns with otherRank = other.
Return(u, other) ==
    \/ at[u] = "start"              /\ AfterStart(u, other)
    \/ at[u] = "wake"               /\ AfterWake(u, other)
    \/ at[u] \in {"contest", "raise"} /\ AfterRaise(u, other)
    \/ at[u] = "draw"               /\ AfterDraw(u, other)

-----------------------------------------------------------------------------
\* synchronize(), first half: listen.accept() and in.readLine().

Peer(u) == CHOOSE v \in Unit : v # u

AcceptRank(u) ==
    /\ phase[u] = "accept"
    /\ backlog[u] # <<>>
    /\ Head(backlog[u]).kind = "rank"
    /\ otherRank' = [otherRank EXCEPT ![u] = Head(backlog[u]).rank]
    /\ connected' = [connected EXCEPT ![u] = TRUE]
    /\ backlog' = [backlog EXCEPT ![u] = Tail(@)]
    /\ Goto(u, "connect", at[u])
    /\ UNCHANGED <<myRank, status, wasBeta, alerted, link>>

\* Mutant: a connection that ends at once counts as rank -1.
AcceptEofAsRank(u) ==
    /\ phase[u] = "accept"
    /\ backlog[u] # <<>>
    /\ Head(backlog[u]).kind = "eof"
    /\ backlog' = [backlog EXCEPT ![u] = Tail(@)]
    /\ otherRank' = [otherRank EXCEPT ![u] = -1]
    /\ Goto(u, "connect", at[u])
    /\ UNCHANGED <<myRank, status, connected, wasBeta, alerted, link>>

\* new String(null) throws, the catch-all prints it: both fields keep their value.
AcceptEof(u) ==
    /\ phase[u] = "accept"
    /\ backlog[u] # <<>>
    /\ Head(backlog[u]).kind = "eof"
    /\ backlog' = [backlog EXCEPT ![u] = Tail(@)]
    /\ Goto(u, "connect", at[u])
    /\ UNCHANGED <<myRank, otherRank, status, connected, wasBeta, alerted, link>>

\* The accepted socket has no read timeout: the thread waits for good.
AcceptSilent(u) ==
    /\ phase[u] = "accept"
    /\ backlog[u] # <<>>
    /\ Head(backlog[u]).kind = "silent"
    /\ backlog' = [backlog EXCEPT ![u] = Tail(@)]
    /\ Goto(u, "stuck", at[u])
    /\ UNCHANGED <<myRank, otherRank, status, connected, wasBeta, alerted, link>>

\* Mutant: the timeout does not forget the other unit's rank.
AcceptTimeoutKeepsRank(u) ==
    /\ phase[u] = "accept"
    /\ backlog[u] = <<>>
    /\ connected' = [connected EXCEPT ![u] = FALSE]
    /\ Goto(u, "connect", at[u])
    /\ UNCHANGED <<myRank, otherRank, status, wasBeta, alerted, backlog, link>>

AcceptTimeout(u) ==
    /\ phase[u] = "accept"
    /\ backlog[u] = <<>>
    /\ otherRank' = [otherRank EXCEPT ![u] = 0]
    /\ connected' = [connected EXCEPT ![u] = FALSE]
    /\ Goto(u, "connect", at[u])
    /\ UNCHANGED <<myRank, status, wasBeta, alerted, backlog, link>>

-----------------------------------------------------------------------------
\* synchronize(), second half: connect, write the rank, close; then Return.

Accepting(u) ==
    link /\ phase[Peer(u)] # "off" /\ Len(backlog[Peer(u)]) < Backlog

SendRank(u) ==
    /\ phase[u] = "connect"
    /\ Accepting(u)
    /\ backlog' = [backlog EXCEPT ![Peer(u)] =
                     Append(@, [kind |-> "rank", rank |-> myRank[u]])]
    /\ connected' = [connected EXCEPT ![u] = TRUE]
    /\ Return(u, otherRank[u])
    /\ UNCHANGED <<otherRank, link>>

\* Mutant: the rank just read survives a refused connection.
ConnectFailsKeepsRank(u) ==
    /\ phase[u] = "connect"
    /\ ~Accepting(u)
    /\ connected' = [connected EXCEPT ![u] = FALSE]
    /\ Return(u, otherRank[u])
    /\ UNCHANGED <<otherRank, backlog, link>>

\* Refused, or not answered within 50 ms: the rank just read is forgotten.
ConnectFails(u) ==
    /\ phase[u] = "connect"
    /\ ~Accepting(u)
    /\ otherRank' = [otherRank EXCEPT ![u] = 0]
    /\ connected' = [connected EXCEPT ![u] = FALSE]
    /\ Return(u, 0)
    /\ UNCHANGED <<backlog, link>>

\* Any other IOException (no route to the host, connection reset): only printed.
ConnectError(u) ==
    /\ phase[u] = "connect"
    /\ ~link \/ phase[Peer(u)] = "off"
    /\ Return(u, otherRank[u])
    /\ UNCHANGED <<otherRank, connected, backlog, link>>

-----------------------------------------------------------------------------
\* The sleeps.

Wake(u) ==
    /\ phase[u] = "sleep"
    /\ Goto(u, "accept", "wake")
    /\ UNCHANGED <<myRank, otherRank, status, connected, wasBeta, alerted, backlog, link>>

BackoffEnds(u) ==
    /\ phase[u] = "backoff"
    /\ Goto(u, "accept", "draw")
    /\ UNCHANGED <<myRank, otherRank, status, connected, wasBeta, alerted, backlog, link>>

-----------------------------------------------------------------------------
\* The environment: the GUI process starts and ends, machines and the network
\* fail.

Start(u) ==
    /\ phase[u] = "off"
    /\ Goto(u, "accept", "start")
    /\ myRank' = [myRank EXCEPT ![u] = 0]
    /\ otherRank' = [otherRank EXCEPT ![u] = 0]
    /\ status' = [status EXCEPT ![u] = Beta]
    /\ connected' = [connected EXCEPT ![u] = FALSE]
    /\ wasBeta' = [wasBeta EXCEPT ![u] = FALSE]
    /\ alerted' = [alerted EXCEPT ![u] = FALSE]
    /\ UNCHANGED <<backlog, link>>

\* The process or the machine stops.  Its listening socket goes, with every
\* rank waiting in it; a connection it had just opened may stay at the peer.
Stop(u, fault, leaves) ==
    /\ fault \in Faults
    /\ phase[u] # "off"
    /\ phase' = [phase EXCEPT ![u] = "off"]
    /\ \/ backlog' = [backlog EXCEPT ![u] = <<>>]
       \/ /\ phase[u] = "connect" /\ Accepting(u)
          /\ backlog' = [backlog EXCEPT ![u] = <<>>,
                           ![Peer(u)] = Append(@, [kind |-> leaves, rank |-> 0])]
    /\ UNCHANGED <<at, myRank, otherRank, status, connected, wasBeta, alerted, link>>

Exit(u)      == Stop(u, "exit", "eof")
PowerLoss(u) == Stop(u, "power", "silent")

LinkChanges ==
    /\ "link" \in Faults
    /\ link' = ~link
    /\ UNCHANGED <<unitVars, backlog>>

-----------------------------------------------------------------------------

Thread(u) ==
    \/ AcceptRank(u) \/ AcceptEof(u) \/ AcceptSilent(u) \/ AcceptTimeout(u)
    \/ SendRank(u) \/ ConnectFails(u) \/ ConnectError(u)
    \/ Wake(u) \/ BackoffEnds(u)

Environment ==
    \/ \E u \in Unit : Start(u) \/ Exit(u) \/ PowerLoss(u)
    \/ LinkChanges

Next == (\E u \in Unit : Thread(u)) \/ Environment

Spec == Init /\ [][Next]_vars

\* A running thread keeps running: every blocking call but readLine() returns.
\* Nothing is assumed of starts and faults.
FairSpec == Spec /\ \A u \in Unit : WF_vars(Thread(u))

-----------------------------------------------------------------------------
(***************************************************************************)
(* Properties.                                                             *)
(***************************************************************************)

Running(u) == phase[u] # "off"

\* The contest the unit wants to enter is above the model's bound.
Capped(u) == phase[u] = "connect" /\ myRank[u] + 2 > MaxRank

\* A beta at rest either advertises rank 0 or has just heard of a higher rank:
\* no beta sits on a rank that beats what it knows of the other unit, which
\* alphaContest() and the beta branch of run() establish together.
BetaDefers ==
    \A u \in Unit : phase[u] = "sleep" /\ status[u] = Beta =>
        myRank[u] = 0 \/ myRank[u] < otherRank[u]

\* A running alpha never has rank 0, the value that stands for an absent unit
\* in the other unit's synchronize().
AlphaAudible ==
    \A u \in Unit : Running(u) /\ status[u] = Alpha => myRank[u] >= 1

\* The unit that Monitor.java shows as down counts as absent in the election too:
\* whatever order of accepts, timeouts and errors a round went through, no rank is
\* remembered of a unit that is not connected.
DownMeansRankZero ==
    \A u \in Unit : ~connected[u] => otherRank[u] = 0

\* The administrator, where mail is set up, has been mailed about every unit that
\* rests as alpha (wasBeta is read a whole round after it was set).
PromotionsAlerted ==
    \A u \in Unit : phase[u] = "sleep" /\ status[u] = Alpha => alerted[u]

\* A running alpha becomes beta only in a round in which it reached or heard the
\* other unit and knows a rank above its own: it never abdicates to a unit it
\* believes absent, whatever stale ranks its backlog held.
StepsDownOnlyToARival ==
    [][\A u \in Unit :
         Running(u) /\ status[u] = Alpha /\ status'[u] = Beta =>
            connected'[u] /\ otherRank'[u] > myRank'[u]]_vars

\* When the other unit is gone for good, a unit whose thread still runs is alpha
\* in the end: the stale ranks in its backlog are finitely many.
TakeOver ==
    \A u \in Unit :
        <>[](phase[Peer(u)] = "off" /\ phase[u] \notin {"off", "stuck"})
            => <>[](status[u] = Alpha \/ Capped(u))

\* Monitor.java says of the alpha's screen: "if I'm Alpha, then other unit should
\* be beta; meaning the other should be 0".  Two running alphas do not stay alphas
\* together.
CollisionResolved ==
    []<>(\/ \E u \in Unit : ~Running(u) \/ status[u] = Beta
         \/ \E u \in Unit : Capped(u))

=============================================================================
