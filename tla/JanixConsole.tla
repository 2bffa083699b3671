---------------------------- MODULE JanixConsole ----------------------------
(***************************************************************************)
(* The Janix daemon and its clients on one machine: the server loop of     *)
(* src/janix/Janix.c, which forks a child for every connection, with the   *)
(* handlers of JanixProcess and JanixManage; the GUI, whose threads share  *)
(* one SSLcomm (src/gui-java/Snapptix_backend) and with it the socket      *)
(* field sd and the response field of Janix.java; and the command line     *)
(* client of src/janix/client.c, which has a socket of its own.            *)
(*                                                                         *)
(* The parent never closes the socket it forked a child for.  So a         *)
(* connection stays open when its child is done, and whoever reads from it *)
(* sees no end of file before the daemon itself is gone; and when no       *)
(* descriptor is left accept() fails and the machine is rebooted.          *)
(***************************************************************************)
EXTENDS JanixProcess, JanixManage

CONSTANTS
    Swing,          \* the event thread of the GUI
    Monitor,        \* the GUI's Heartbeat thread, which sends mail
    Client,         \* runs of client.c
    Sessions,       \* what each of them may do: one choice for every behaviour
    Budget,         \* bound: connections for the operations of each thread
    MaxText,        \* the longest text of a message PROTOCOLMAXSIZE allows
    Descriptors,    \* the connections the daemon can have descriptors for
    MaxRestarts     \* bound: reboots, and restarts of the GUI, together

Gui == {Swing, Monitor}
Thread == Gui \cup Client

ASSUME ThreadAssumption == Swing # Monitor /\ Gui \cap Client = {} /\ IsFiniteSet(Client)
ASSUME BoundAssumption == MaxText \in Nat /\ Descriptors \in Nat /\ MaxRestarts \in Nat

VARIABLES
    tpc,        \* where each thread is in sendMessage
    op, step,   \* what it is doing, and at which of its messages it is
    mine,       \* the connection it waits on; 0 for none
    sd,         \* the socket field of the GUI; 0 for null
    response,   \* the response field of the GUI
    inbox,      \* the messages sent on each connection, not yet read
    outbox,     \* the reply sent on it, not yet read; "-" for none
    toggle,     \* the "Mount Floppy" toggle of the GUI is selected
    promised,   \* connections the operations of each thread so far may need
    raced,      \* two threads of the GUI were in sendMessage at the same time
    restarts,   \* reboots, and restarts of the GUI, so far
    left,       \* since the boot the GUI has ended with its disc mounted, or
                \* when it could not tell: during a click, or when raced
    session     \* what each thread may do in this behaviour

threadVars == <<tpc, op, step, mine, sd, response, toggle, promised, raced>>
wireVars   == <<inbox, outbox>>
modeVars   == <<restarts, left, session>>
vars == <<childVars, processVars, manageVars, threadVars, wireVars, modeVars>>

-----------------------------------------------------------------------------
\* What the threads do, and the messages it takes.

Message(command, text) == [command |-> command, text |-> text]
ChangePassword(old, new) == Message("MP", old \o <<Hash>> \o new)

\* Every message an operation may send, in order.  The GUI puts a "#" between
\* the passwords; client.c sends what it is given.
Messages(o) ==
    CASE o.kind = "check"   -> <<ChangePassword(o.first, o.first)>>
      [] o.kind = "dialog"  -> <<ChangePassword(o.first, o.first),
                                 ChangePassword(o.first, o.first),
                                 ChangePassword(o.first, o.second)>>
      [] o.kind = "change"  -> <<ChangePassword(o.first, o.second)>>
      [] o.kind = "mount"   -> <<Message("MM", o.first)>>
      [] o.kind = "unmount" -> <<Message("MU", o.first)>>
      [] o.kind = "restart" -> <<Message("P-", o.first), Message("PR", o.first)>>
      [] o.kind = "kill"    -> <<Message("PK", o.first)>>
      [] o.kind = "email"   -> <<Message("ME", <<>>)>>
      [] o.kind = "alpha"   -> <<Message("AK", <<>>)>>
      [] o.kind = "echo"    -> <<Message("E-", o.first)>>
      [] o.kind = "raw"     -> <<Message("MP", o.first)>>
      [] OTHER              -> <<>>

\* An operation has messages, with the letters of the protocol.
ASSUME SessionAssumption ==
    \A s \in Sessions : \A t \in Thread : \A o \in s[t] :
        Messages(o) \in Seq(Request) /\ Messages(o) # <<>>

Nothing == [kind |-> "none", first |-> <<>>, second |-> <<>>]

\* The reply that means yes, or no error.
Good(m) == IF m.command = "P-" THEN "Y" ELSE IF m.command = "E-" THEN "E" ELSE "S"

\* Mutant: one message too many.
GoesOnPast(o, i, yes) ==
    /\ i <= Len(Messages(o))
    /\ yes = ~(o.kind = "dialog" /\ i = 1)

\* Whether the operation goes on after its i-th message: the password dialog
\* only when the current password was refused, and then API.setPassword and
\* restart only when they were answered yes.
GoesOn(o, i, yes) ==
    /\ i < Len(Messages(o))
    /\ yes = ~(o.kind = "dialog" /\ i = 1)

ThreadStep == {"idle", "connect", "send", "read", "wait", "judge"}

\* The type invariant.
TypeOK ==
    /\ ChildTypeOK /\ ProcessTypeOK /\ ManageTypeOK
    /\ tpc \in [Thread -> ThreadStep]
    /\ step \in [Thread -> 1 .. 3]
    /\ \A t \in Thread :
         op[t] = Nothing \/ (op[t] \in session[t] /\ step[t] <= Len(Messages(op[t])))
    /\ mine \in [Thread -> 0 .. MaxConn]
    /\ sd \in 0 .. MaxConn
    /\ response \in Reply
    /\ \A k \in Conn : inbox[k] \in Seq(Request) /\ outbox[k] \in Reply
    /\ toggle \in BOOLEAN /\ raced \in BOOLEAN
    /\ promised \in [Thread -> Nat]
    /\ restarts \in 0 .. MaxRestarts /\ left \in BOOLEAN

EachThread(x) == [t \in Thread |-> x]

\* The GUI has just been started: no thread is in a call.
ThreadInit ==
    /\ tpc = EachThread("idle") /\ op = EachThread(Nothing) /\ step = EachThread(1)
    /\ mine = EachThread(0) /\ sd = 0 /\ response = "-"
    /\ toggle = FALSE /\ raced = FALSE

ThreadReboot ==
    /\ tpc' = EachThread("idle") /\ op' = EachThread(Nothing) /\ step' = EachThread(1)
    /\ mine' = EachThread(0) /\ sd' = 0 /\ response' = "-"
    /\ toggle' = FALSE /\ raced' = FALSE

WireInit   == inbox = Each(<<>>) /\ outbox = Each("-")
WireReboot == inbox' = Each(<<>>) /\ outbox' = Each("-")

Init ==
    /\ ChildInit /\ ProcessInit /\ ManageInit
    /\ ThreadInit /\ WireInit
    /\ promised = EachThread(0) /\ restarts = 0 /\ left = FALSE
    /\ session \in Sessions

ThreadGoto(t, s) == tpc' = [tpc EXCEPT ![t] = s]

-----------------------------------------------------------------------------
\* The server.

Serving == runs[JanixPid] = "Janix"

\* The machine goes down and comes up again: a power failure, the deliberate
\* failover, or a system call of the daemon that fails.
Reboot ==
    /\ restarts < MaxRestarts
    /\ restarts' = restarts + 1 /\ left' = FALSE
    /\ ChildReboot /\ ProcessReboot /\ ManageReboot
    /\ ThreadReboot /\ WireReboot
    /\ UNCHANGED <<promised, session>>

\* The connections the parent has a descriptor of.
Accepted == {k \in Conn : ~At(k, "none")}

\* The next connection is accepted and has a child, which may fail to complete
\* the handshake and exits then.
Accept(k) ==
    /\ At(k, "none") /\ \A i \in 1 .. k - 1 : ~At(i, "none")
    /\ Proceed(k, "receive") \/ Proceed(k, "done")

\* accept() fails when no descriptor is left: the machine is rebooted.
Exhausted == Serving /\ Cardinality(Accepted) = Descriptors

TooLong(m) == Len(m.text) > MaxText

\* Where the header of a message leads.
Entrance(m) ==
    CASE m.command \in {"P-", "PK", "PR"} -> "find"
      [] m.command = "MP"                 -> "open"
      [] m.command = "MM"                 -> "mount"
      [] m.command = "MU"                 -> "umount"
      [] m.command = "ME"                 -> "script"
      [] OTHER                            -> "reply"

\* SSL_read(): a message that is too long counts as nothing.
Receive(k) ==
    /\ At(k, "receive") /\ inbox[k] # <<>>
    /\ LET m == IF TooLong(Head(inbox[k])) THEN Empty ELSE Head(inbox[k]) IN
         /\ request' = [request EXCEPT ![k] = m]
         /\ Goto(k, Entrance(m))
         /\ answer' = [answer EXCEPT ![k] = IF m.command = "E-" THEN "E" ELSE "-"]
         /\ seen' = [seen EXCEPT ![k] = {shadow}]
    /\ inbox' = [inbox EXCEPT ![k] = Tail(@)]
    /\ UNCHANGED <<processVars, shadow, disk, salt, mounted, threadVars, outbox, modeVars>>

\* The threads that still have a connection.
Referred(k) ==
    sd = k \/ \E t \in Thread : mine[t] = k

\* A connection nobody uses any more is closed (by the garbage collector), and
\* its child reads nothing.
Orphan(k) ==
    /\ At(k, "receive") /\ inbox[k] = <<>> /\ ~Referred(k)
    /\ Proceed(k, "done")
    /\ UNCHANGED <<processVars, manageVars, threadVars, wireVars, modeVars>>

\* The child exits, and with it what it has read.
Leave(k) ==
    /\ Goto(k, "done")
    /\ answer' = [answer EXCEPT ![k] = "-"]
    /\ target' = [target EXCEPT ![k] = JanixPid]
    /\ misread' = misread \ {k}
    /\ salt' = [salt EXCEPT ![k] = <<>>]
    /\ seen' = [seen EXCEPT ![k] = {}]
    /\ UNCHANGED <<request, runs, pidfile, changes, freed, struck, shadow, disk, mounted>>

\* Mutant: FAILED is taken for an empty response.
SendReplyUnlessFailed(k) ==
    /\ At(k, "reply")
    /\ outbox' = [outbox EXCEPT ![k] = IF answer[k] = "F" THEN "-" ELSE answer[k]]
    /\ Leave(k)
    /\ UNCHANGED <<threadVars, inbox, modeVars>>

\* The child sends its reply, unless it is the empty one, and exits.
SendReply(k) ==
    /\ At(k, "reply")
    /\ outbox' = [outbox EXCEPT ![k] = answer[k]]
    /\ Leave(k)
    /\ UNCHANGED <<threadVars, inbox, modeVars>>

Handler(k) ==
    /\ \/ ProcessHandler(k) /\ UNCHANGED manageVars
       \/ ManageHandler(k) /\ UNCHANGED processVars
    /\ UNCHANGED <<threadVars, wireVars, modeVars>>

-----------------------------------------------------------------------------
\* The threads.

\* Starting an operation takes its share of the connections.
Promise(t, o) ==
    /\ tpc[t] = "idle"
    /\ promised[t] + Len(Messages(o)) <= Budget[t]
    /\ promised' = [promised EXCEPT ![t] = @ + Len(Messages(o))]
    /\ op' = [op EXCEPT ![t] = o]

\* A button of the GUI, or its mail.  A click on the toggle has changed it
\* before its message is sent.
Begin(t, o) ==
    /\ t \in Gui
    /\ Promise(t, o)
    /\ o.kind = "mount" => ~toggle
    /\ o.kind = "unmount" => toggle
    /\ toggle' = IF o.kind \in {"mount", "unmount"} THEN ~toggle ELSE toggle
    /\ ThreadGoto(t, "connect")
    /\ UNCHANGED <<childVars, processVars, manageVars, step, mine, sd, response, raced,
                   wireVars, modeVars>>

\* client.c connects, and sends its message when the handshake is done; it
\* exits when it cannot.
ClientCalls(t, o) ==
    /\ t \in Client /\ Serving /\ ~Exhausted
    /\ Promise(t, o)
    /\ \E k \in Conn :
         /\ Accept(k)
         /\ IF pc'[k] = "receive"
            THEN /\ inbox' = [inbox EXCEPT ![k] = Messages(o)]
                 /\ mine' = [mine EXCEPT ![t] = k]
                 /\ ThreadGoto(t, "wait")
            ELSE UNCHANGED <<inbox, mine, tpc>>
    /\ UNCHANGED <<processVars, manageVars, step, sd, response, toggle, raced,
                   outbox, modeVars>>

\* Another thread of the GUI has assigned the socket field and has not yet
\* looked at its answer.
Busy(t) == \E u \in Gui \ {t} : tpc[u] \in {"send", "read", "wait", "judge"}

\* write() assigns the field a new connection, or null when it is refused or
\* its handshake fails, which it notices.
Connect(t) ==
    /\ tpc[t] = "connect"
    /\ raced' = (raced \/ Busy(t))
    /\ \/ /\ Serving /\ ~Exhausted
          /\ \E k \in Conn :
               /\ Accept(k)
               /\ sd' = IF pc'[k] = "receive" THEN k ELSE 0
          /\ ThreadGoto(t, IF sd' = 0 THEN "read" ELSE "send")
       \/ /\ ~Serving
          /\ sd' = 0
          /\ ThreadGoto(t, "read")
          /\ UNCHANGED childVars
    /\ UNCHANGED <<processVars, manageVars, op, step, mine, response, toggle, promised,
                   wireVars, modeVars>>

\* The operation is over.
End(t) ==
    /\ ThreadGoto(t, "idle")
    /\ op' = [op EXCEPT ![t] = Nothing]
    /\ step' = [step EXCEPT ![t] = 1]

\* It sends the message on whatever connection the field has by then.  Null is
\* an exception: write() catches its own, and nobody the one of a socket that
\* became null after it was looked at.  What is sent to a child that is done
\* is never read.
Send(t) ==
    /\ tpc[t] = "send"
    /\ \/ sd = 0 /\ End(t) /\ UNCHANGED inbox
       \/ sd = 0 /\ ThreadGoto(t, "read") /\ UNCHANGED <<inbox, op, step>>
       \/ /\ sd # 0
          /\ inbox' = IF At(sd, "done") THEN inbox
                      ELSE [inbox EXCEPT ![sd] = Append(@, Messages(op[t])[step[t]])]
          /\ ThreadGoto(t, "read")
          /\ UNCHANGED <<op, step>>
    /\ UNCHANGED <<childVars, processVars, manageVars, mine, sd, response, toggle,
                   promised, raced, outbox, modeVars>>

\* read() takes the field once more; null is an exception it turns into "F-".
Read(t) ==
    /\ tpc[t] = "read"
    /\ IF sd = 0
       THEN response' = "F" /\ ThreadGoto(t, "judge") /\ UNCHANGED mine
       ELSE /\ mine' = [mine EXCEPT ![t] = sd]
            /\ ThreadGoto(t, "wait")
            /\ UNCHANGED response
    /\ UNCHANGED <<childVars, processVars, manageVars, op, step, sd, toggle, promised,
                   raced, wireVars, modeVars>>

\* The reply comes, or the end of file: when the daemon is gone as well as its
\* child nobody has the other end open.  client.c prints it and exits.
Wait(t) ==
    /\ tpc[t] = "wait"
    /\ LET k == mine[t] IN
         /\ outbox[k] # "-" \/ (At(k, "done") /\ ~Serving)
         /\ outbox' = [outbox EXCEPT ![k] = "-"]
         /\ IF t \in Gui
            THEN response' = outbox[k] /\ ThreadGoto(t, "judge") /\ UNCHANGED <<op, step>>
            ELSE End(t) /\ UNCHANGED response
    /\ mine' = [mine EXCEPT ![t] = 0]
    /\ UNCHANGED <<childVars, processVars, manageVars, sd, toggle, promised,
                   raced, inbox, modeVars>>

\* Whether the response field has what the thread hopes for.
Yes(t) == response = Good(Messages(op[t])[step[t]])

\* The operation goes on, or is over.
NextMessage(t) ==
    IF GoesOn(op[t], step[t], Yes(t))
    THEN /\ step' = [step EXCEPT ![t] = @ + 1]
         /\ ThreadGoto(t, "connect")
         /\ UNCHANGED op
    ELSE End(t)

\* Mutant: an error leaves the toggle as the click has made it.
JudgeNoReset(t) ==
    /\ tpc[t] = "judge"
    /\ NextMessage(t)
    /\ UNCHANGED <<childVars, processVars, manageVars, mine, sd, response, toggle,
                   promised, raced, wireVars, modeVars>>

\* The field is compared.  An error sets the toggle back.
Judge(t) ==
    /\ tpc[t] = "judge"
    /\ NextMessage(t)
    /\ toggle' = IF op[t].kind \in {"mount", "unmount"} /\ ~Yes(t) THEN ~toggle ELSE toggle
    /\ UNCHANGED <<childVars, processVars, manageVars, mine, sd, response, promised,
                   raced, wireVars, modeVars>>

\* The GUI ends, by System.exit() or killed, wherever its threads are, and is
\* started again: its socket is closed, its toggle is a new one, and the disc
\* stays as it is.
GuiRestarts ==
    /\ restarts < MaxRestarts
    /\ restarts' = restarts + 1
    /\ left' = (left \/ mounted # {} \/ raced \/ op[Swing].kind \in {"mount", "unmount"})
    /\ LET Anew(f, x) == [t \in Thread |-> IF t \in Gui THEN x ELSE f[t]] IN
         /\ tpc' = Anew(tpc, "idle") /\ op' = Anew(op, Nothing) /\ step' = Anew(step, 1)
         /\ mine' = Anew(mine, 0)
    /\ sd' = 0 /\ response' = "-" /\ toggle' = FALSE /\ raced' = FALSE
    /\ UNCHANGED <<childVars, processVars, manageVars, promised, wireVars, session>>

-----------------------------------------------------------------------------
Server == \E k \in Conn : Receive(k) \/ Handler(k) \/ SendReply(k)

InCall(t) == Connect(t) \/ Send(t) \/ Read(t) \/ Wait(t) \/ Judge(t)

Users == \E t \in Thread : \E o \in session[t] : Begin(t, o) \/ ClientCalls(t, o)

Surroundings ==
    \/ Programs /\ UNCHANGED <<childVars, manageVars, threadVars, wireVars, modeVars>>
    \/ \E k \in Conn : Orphan(k)
    \/ GuiRestarts
    \/ Reboot

Next == Server \/ (\E t \in Thread : InCall(t)) \/ Users \/ Surroundings

\* The children and the threads of the GUI are scheduled; the scripts end.
Fairness ==
    /\ \A k \in Conn : WF_vars(Receive(k) \/ Handler(k) \/ SendReply(k))
    /\ \A t \in Thread : WF_vars(InCall(t))

Spec == Init /\ [][Next]_vars /\ Fairness

-----------------------------------------------------------------------------
\* A thread waits for what nobody is about to send: the child is done, or has
\* nothing to read, and the connection is still open.
Hung(t) ==
    /\ tpc[t] = "wait"
    /\ LET k == mine[t] IN
         /\ outbox[k] = "-"
         /\ \/ At(k, "done") /\ Serving
            \/ At(k, "receive") /\ inbox[k] = <<>>

\* What the daemon does not answer: a message that is too long, AK, and a
\* password request without a "#", whose child has been killed.
Unanswered(k) ==
    \/ request[k].command \in {"--", "AK"}
    \/ request[k].command = "MP" /\ Split(k) = 0

\* A thread only hangs when two of the GUI's threads shared the socket, or when
\* its message was read and was one the daemon does not answer.
HungOnlyIf ==
    \A t \in Thread : Hung(t) => (t \in Gui /\ raced) \/ Unanswered(mine[t])

\* Whoever waits for a reply gets it, hangs or is rebooted.
AnswersCome == \A t \in Thread : tpc[t] = "wait" ~> (tpc[t] # "wait" \/ Hung(t))

\* Between two clicks the toggle tells whether the disc is mounted, unless the
\* GUI's threads took each other's answers, or an earlier GUI has left the disc
\* mounted, or a click unanswered: the toggle of a new one is not selected.
ToggleTellsMount ==
    op[Swing].kind \notin {"mount", "unmount"} /\ ~raced /\ ~left =>
        (toggle <=> mounted # {})
=============================================================================
