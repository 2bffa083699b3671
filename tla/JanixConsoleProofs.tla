------------------------- MODULE JanixConsoleProofs -------------------------
(***************************************************************************)
(* Proofs about the Janix daemon and its clients (module JanixConsole), for*)
(* any programs, pids, clients, operations and bounds: whom a signal       *)
(* reaches, what becomes of an empty /etc/shadow, what the answer to a     *)
(* password request means, why a thread hangs, the types of all variables, *)
(* and that the mount toggle of the GUI is right between two clicks.       *)
(*                                                                         *)
(* StrikesTheNamed speaks of signals that have been sent.  The inductive   *)
(* invariant follows a pid on its way there: from the program that wrote   *)
(* it into its file to the child that has read it, it is that program's,   *)
(* or the program has ended.                                               *)
(***************************************************************************)
EXTENDS JanixConsole, TLAPS, FiniteSetTheorems, SequenceTheorems, WellFoundedInduction

\* What the children hold, as functions of the connection.
ChildFunctions ==
    /\ pc = [k \in Conn |-> pc[k]]
    /\ request = [k \in Conn |-> request[k]]
    /\ target \in [Conn -> Pid]

ProgramFunctions ==
    /\ runs \in [Pid -> Named \cup {"free", "other"}]
    /\ pidfile \in [Named -> Content \cup {Absent}]

\* A pid file names its program's pid, or one whose program has ended.
FilesTell ==
    \A n \in Program : pidfile[n] \in Pid =>
        runs[pidfile[n]] = n \/ pidfile[n] \in freed

\* The daemon's pid has never been another program's while the daemon has it.
DaemonStays == \A i \in Pid : runs[i] = "Janix" => i \notin freed

\* The steps at which a child has a pid to look up or to signal.
Signalling == {"int", "quit", "kill", "hup"}
Holding == Signalling \cup {"active"}

\* So it is with the pid a child holds, if it has read the file right.
TargetsTell ==
    \A k \in Conn : pc[k] \in Holding =>
        \/ Meant(k) \in Program /\ (runs[target[k]] = Meant(k) \/ target[k] \in freed)
        \/ Meant(k) \in Program /\ k \in misread
        \/ Meant(k) = "Janix" /\ pc[k] = "active"

ProcessInv ==
    /\ ChildFunctions
    /\ ProgramFunctions
    /\ FilesTell
    /\ DaemonStays
    /\ TargetsTell
    /\ StrikesTheNamed

-----------------------------------------------------------------------------
LEMMA ProcessInvInit == Init => ProcessInv
<1> SUFFICES ASSUME Init
             PROVE  ProcessInv
  OBVIOUS
<1>1. /\ \A k \in Conn : pc[k] = "none"
      /\ pc = [k \in Conn |-> pc[k]] /\ request = [k \in Conn |-> request[k]]
      /\ target \in [Conn -> Pid]
  BY PidAssumption DEF Init, ChildInit, ProcessInit, Each
<1>2. ProgramFunctions /\ FilesTell /\ DaemonStays
  BY PidAssumption, ProgramAssumption
  DEF Init, ProcessInit, OnlyJanixRuns, OnlyJanixFile, ProgramFunctions, FilesTell,
      DaemonStays, Named, Content
<1>3. StrikesTheNamed
  BY DEF Init, ProcessInit, StrikesTheNamed
<1> QED
  BY <1>1, <1>2, <1>3
  DEF ProcessInv, ChildFunctions, TargetsTell, Holding, Signalling

\* A child goes to a step at which it holds no pid, and no program is touched.
LEMMA ElsewhereKeeps ==
  ASSUME ProcessInv,
         NEW k \in Conn, NEW s, s \notin Holding,
         Goto(k, s),
         UNCHANGED <<runs, pidfile, freed, struck>>,
         request' = [i \in Conn |-> request'[i]],
         target' \in [Conn -> Pid],
         \A i \in Conn \ {k} :
            request'[i] = request[i] /\ target'[i] = target[i] /\ (i \in misread => i \in misread')
  PROVE  ProcessInv'
<1>1. /\ pc' = [i \in Conn |-> pc'[i]]
      /\ pc'[k] = s
      /\ \A i \in Conn \ {k} : pc'[i] = pc[i] /\ Meant(i)' = Meant(i)
  BY DEF Goto, ProcessInv, ChildFunctions, Meant
<1>2. TargetsTell'
  BY <1>1 DEF ProcessInv, TargetsTell
<1> QED
  BY <1>1, <1>2
  DEF ProcessInv, ChildFunctions, ProgramFunctions, FilesTell, DaemonStays, StrikesTheNamed

\* No child moves, and no program is touched.
LEMMA NobodyKeeps ==
  ProcessInv /\ UNCHANGED <<childVars, processVars>> => ProcessInv'
  BY DEF childVars, processVars, ProcessInv, ChildFunctions, ProgramFunctions, FilesTell,
         DaemonStays, TargetsTell, StrikesTheNamed, Meant

\* A child that holds a pid goes on with it.
LEMMA HoldsOn ==
  ASSUME ProcessInv,
         NEW k \in Conn, NEW s \in Signalling,
         pc[k] \in Holding, Meant(k) # "Janix",
         Proceed(k, s), UNCHANGED processVars
  PROVE  ProcessInv'
<1>1. /\ pc' = [i \in Conn |-> pc'[i]]
      /\ pc'[k] = s
      /\ \A i \in Conn \ {k} : pc'[i] = pc[i]
      /\ \A i \in Conn : Meant(i)' = Meant(i)
  BY DEF Proceed, Goto, ProcessInv, ChildFunctions, Meant
<1>2. TargetsTell'
  BY <1>1, ProgramAssumption DEF ProcessInv, TargetsTell, processVars, Proceed
<1> QED
  BY <1>1, <1>2
  DEF ProcessInv, ChildFunctions, ProgramFunctions, FilesTell, DaemonStays, StrikesTheNamed,
      processVars, Proceed

\* A child leaves its handler with an answer.
LEMMA FinishKeeps ==
  ASSUME ProcessInv, NEW k \in Conn, NEW a, Finish(k, a),
         UNCHANGED <<runs, pidfile, target, freed, misread, struck>>
  PROVE  ProcessInv'
<1>1. "reply" \notin Holding
  BY DEF Holding, Signalling
<1>2. Goto(k, "reply") /\ UNCHANGED request
  BY DEF Finish
<1> QED
  BY <1>1, <1>2, ElsewhereKeeps DEF ProcessInv, ChildFunctions

LEMMA FindKeeps ==
  ASSUME ProcessInv, NEW k \in Conn, Find(k)
  PROVE  ProcessInv'
<1>1. CASE NotActive(k) /\ UNCHANGED <<target, misread>>
  BY <1>1, FinishKeeps DEF Find, NotActive
<1>2. CASE /\ Meant(k) \in Named /\ pidfile[Meant(k)] # Absent
           /\ target' = [target EXCEPT ![k] = Overlay[pidfile[Meant(k)]]]
           /\ misread' = IF Overlay[pidfile[Meant(k)]] # pidfile[Meant(k)]
                         THEN misread \cup {k} ELSE misread
           /\ Proceed(k, "active")
  <2>1. pidfile[Meant(k)] \in Content /\ Overlay[pidfile[Meant(k)]] \in Pid
    BY <1>2, OverlayAssumption, PidAssumption DEF ProcessInv, ProgramFunctions
  <2>2. UNCHANGED <<runs, pidfile, freed, struck>>
    BY DEF Find
  <2>3. /\ pc' = [i \in Conn |-> pc'[i]]
        /\ pc'[k] = "active"
        /\ \A i \in Conn \ {k} : pc'[i] = pc[i]
        /\ \A i \in Conn : Meant(i)' = Meant(i)
        /\ UNCHANGED request
    BY <1>2 DEF Proceed, Goto, ProcessInv, ChildFunctions, Meant
  <2>4. /\ target' \in [Conn -> Pid]
        /\ target'[k] = Overlay[pidfile[Meant(k)]]
        /\ \A i \in Conn \ {k} : target'[i] = target[i]
    BY <1>2, <2>1 DEF ProcessInv, ChildFunctions
  <2>5. CASE Meant(k) \in Program
    <3>1. k \in misread' \/ runs[target'[k]] = Meant(k) \/ target'[k] \in freed
      BY <1>2, <2>1, <2>4, <2>5 DEF ProcessInv, FilesTell
    <3> QED
      BY <1>2, <2>2, <2>3, <2>4, <2>5, <3>1
      DEF ProcessInv, ChildFunctions, ProgramFunctions, FilesTell, DaemonStays, TargetsTell,
          StrikesTheNamed
  <2>6. CASE Meant(k) = "Janix"
    BY <1>2, <2>2, <2>3, <2>4, <2>6
    DEF ProcessInv, ChildFunctions, ProgramFunctions, FilesTell, DaemonStays, TargetsTell,
        StrikesTheNamed
  <2> QED
    BY <1>2, <2>5, <2>6 DEF Named
<1> QED
  BY <1>1, <1>2 DEF Find

LEMMA ActiveKeeps ==
  ASSUME ProcessInv, NEW k \in Conn, Active(k)
  PROVE  ProcessInv'
<1>1. UNCHANGED processVars /\ pc[k] \in Holding
  BY DEF Active, At, Holding
<1>2. CASE \E a : Finish(k, a)
  BY <1>1, <1>2, FinishKeeps DEF processVars
<1>3. CASE Meant(k) # "Janix" /\ \E s \in Signalling : Proceed(k, s)
  BY <1>1, <1>3, HoldsOn
<1> QED
  BY <1>2, <1>3 DEF Active, NotActive, FirstStep, Signalling

\* The signal: whoever has the pid is the program meant, unless the file was misread
\* or the program has ended.
LEMMA SignalKeeps ==
  ASSUME ProcessInv, NEW k \in Conn, pc[k] \in Signalling, Delivered(k)
  PROVE  ProcessInv'
<1>1. /\ target[k] \in Pid /\ Meant(k) \in Program
      /\ k \in misread \/ runs[target[k]] = Meant(k) \/ target[k] \in freed
  BY DEF ProcessInv, ChildFunctions, TargetsTell, Holding, Signalling
<1>2. StrikesTheNamed'
  <2> DEFINE s == [meant |-> Meant(k), victim |-> runs[target[k]],
                   misread |-> k \in misread, freed |-> target[k] \in freed]
  <2>1. struck' = struck \cup {s}
    BY DEF Delivered
  <2>2. s.victim = s.meant \/ s.misread \/ s.freed
    BY <1>1
  <2>3. s.victim = "Janix" => s.misread
    BY <1>1, ProgramAssumption DEF ProcessInv, DaemonStays
  <2> QED
    BY <2>1, <2>2, <2>3 DEF StrikesTheNamed, ProcessInv
<1>3. /\ \A i \in Pid : \/ runs'[i] = runs[i]
                        \/ runs[i] = "Janix" /\ runs'[i] = "free"
      /\ runs' \in [Pid -> Named \cup {"free", "other"}]
  BY <1>1 DEF Delivered, ProcessInv, ProgramFunctions
<1>4. UNCHANGED <<pidfile, target, freed, misread, request>>
  BY DEF Delivered, Finish
<1>5. /\ pc' = [i \in Conn |-> pc'[i]]
      /\ pc'[k] = "reply"
      /\ \A i \in Conn \ {k} : pc'[i] = pc[i]
      /\ \A i \in Conn : Meant(i)' = Meant(i)
  BY DEF Delivered, Finish, Goto, ProcessInv, ChildFunctions, Meant
<1>6. FilesTell' /\ DaemonStays'
  BY <1>3, <1>4, ProgramAssumption
  DEF ProcessInv, FilesTell, DaemonStays
<1>7. TargetsTell'
  <2> SUFFICES ASSUME NEW i \in Conn, pc'[i] \in Holding
               PROVE  \/ Meant(i) \in Program
                         /\ (runs'[target[i]] = Meant(i) \/ target[i] \in freed)
                      \/ Meant(i) \in Program /\ i \in misread
                      \/ Meant(i) = "Janix" /\ pc'[i] = "active"
    BY <1>4, <1>5 DEF TargetsTell
  <2>1. i # k /\ target[i] \in Pid /\ pc'[i] = pc[i]
    BY <1>5 DEF Holding, Signalling, ProcessInv, ChildFunctions
  <2> QED
    BY <1>3, <2>1, ProgramAssumption DEF ProcessInv, TargetsTell
<1> QED
  BY <1>2, <1>3, <1>4, <1>5, <1>6, <1>7 DEF ProcessInv, ChildFunctions, ProgramFunctions

LEMMA SendSignalKeeps ==
  ASSUME ProcessInv, NEW k \in Conn,
         Interrupt(k) \/ Quit(k) \/ Kill(k) \/ HangUp(k)
  PROVE  ProcessInv'
<1>1. pc[k] \in Signalling /\ Meant(k) # "Janix"
  BY ProgramAssumption
  DEF Interrupt, Quit, Kill, HangUp, At, Signalling, Holding, ProcessInv, TargetsTell
<1>2. CASE Delivered(k)
  BY <1>1, <1>2, SignalKeeps
<1>3. CASE UNCHANGED processVars /\ \E s \in Signalling : Proceed(k, s)
  BY <1>1, <1>3, HoldsOn DEF Holding
<1>4. CASE UNCHANGED processVars /\ \E a : Finish(k, a)
  BY <1>4, FinishKeeps DEF processVars
<1> QED
  BY <1>2, <1>3, <1>4 DEF Interrupt, Quit, Kill, HangUp, SendSignal, Signalling

-----------------------------------------------------------------------------
\* The programs: none of them becomes the daemon, and the pid of one that ends is freed.
LEMMA ProgramsKeep ==
  ProcessInv /\ Programs /\ UNCHANGED childVars => ProcessInv'
<1> SUFFICES ASSUME ProcessInv, Programs, UNCHANGED childVars
             PROVE  ProcessInv'
  OBVIOUS
<1>1. /\ UNCHANGED <<target, misread, struck, pc, request>>
      /\ \A k \in Conn : Meant(k)' = Meant(k)
  BY DEF Programs, ProgramStarts, ProgramWritesPid, ProgramEnds, OtherStarts, childVars, Meant
<1>2. SUFFICES /\ ProgramFunctions'
               /\ FilesTell'
               /\ DaemonStays'
               /\ \A i \in Pid : runs'[i] = runs[i] \/ i \in freed' \/ runs[i] = "free"
               /\ freed \subseteq freed'
  <2>1. \A k \in Conn : target[k] \in Pid
    BY DEF ProcessInv, ChildFunctions
  <2>2. TargetsTell'
    BY <1>1, <1>2, <2>1, OtherAssumption, ProgramAssumption
    DEF ProcessInv, TargetsTell, Named
  <2> QED
    BY <1>1, <1>2, <2>2 DEF ProcessInv, ChildFunctions, StrikesTheNamed
<1> USE DEF ProcessInv, ProgramFunctions, FilesTell, DaemonStays
<1>3. ASSUME NEW n \in Program, NEW i \in Pid, ProgramStarts(n, i)
      PROVE  /\ ProgramFunctions' /\ FilesTell' /\ DaemonStays'
             /\ \A j \in Pid : runs'[j] = runs[j] \/ j \in freed' \/ runs[j] = "free"
             /\ freed \subseteq freed'
  BY <1>3, ProgramAssumption, PidAssumption, OtherAssumption
  DEF ProgramStarts, Named, Content
<1>4. ASSUME NEW n \in Program, NEW i \in Pid, ProgramWritesPid(n, i)
      PROVE  /\ ProgramFunctions' /\ FilesTell' /\ DaemonStays'
             /\ \A j \in Pid : runs'[j] = runs[j] \/ j \in freed' \/ runs[j] = "free"
             /\ freed \subseteq freed'
  BY <1>4 DEF ProgramWritesPid, Named, Content
<1>5. ASSUME NEW i \in Pid, ProgramEnds(i)
      PROVE  /\ ProgramFunctions' /\ FilesTell' /\ DaemonStays'
             /\ \A j \in Pid : runs'[j] = runs[j] \/ j \in freed' \/ runs[j] = "free"
             /\ freed \subseteq freed'
  BY <1>5 DEF ProgramEnds, Named
<1>6. ASSUME NEW i \in Pid, OtherStarts(i)
      PROVE  /\ ProgramFunctions' /\ FilesTell' /\ DaemonStays'
             /\ \A j \in Pid : runs'[j] = runs[j] \/ j \in freed' \/ runs[j] = "free"
             /\ freed \subseteq freed'
  BY <1>6, OtherAssumption, ProgramAssumption DEF OtherStarts, Named
<1> QED
  BY <1>3, <1>4, <1>5, <1>6 DEF Programs

\* A reboot leaves nothing but the daemon.
LEMMA RebootKeeps ==
  ASSUME ProcessInv, Reboot
  PROVE  ProcessInv'
<1>1. /\ \A k \in Conn : pc'[k] = "none"
      /\ pc' = [k \in Conn |-> pc'[k]] /\ request' = [k \in Conn |-> request'[k]]
      /\ target' \in [Conn -> Pid]
  BY PidAssumption DEF Reboot, ChildReboot, ProcessReboot, Each
<1>2. ProgramFunctions' /\ FilesTell' /\ DaemonStays'
  BY PidAssumption, ProgramAssumption
  DEF Reboot, ProcessReboot, OnlyJanixRuns, OnlyJanixFile, ProgramFunctions, FilesTell,
      DaemonStays, Named, Content
<1>3. StrikesTheNamed'
  BY DEF Reboot, ProcessReboot, StrikesTheNamed
<1>4. TargetsTell'
  BY <1>1 DEF TargetsTell, Holding, Signalling
<1> QED
  BY <1>1, <1>2, <1>3, <1>4 DEF ProcessInv, ChildFunctions

\* The children where they do not handle a PROCESS request.
LEMMA ReceiveKeeps ==
  ASSUME ProcessInv, NEW k \in Conn, Receive(k)
  PROVE  ProcessInv'
<1>1. PICK m : Goto(k, Entrance(m)) /\ request' = [request EXCEPT ![k] = m]
  BY DEF Receive
<1>2. Entrance(m) \notin Holding
  BY DEF Entrance, Holding, Signalling
<1>3. UNCHANGED processVars
  BY DEF Receive
<1>4. /\ request' = [i \in Conn |-> request'[i]]
      /\ \A i \in Conn \ {k} : request'[i] = request[i]
  BY <1>1 DEF ProcessInv, ChildFunctions
<1> QED
  BY <1>1, <1>2, <1>3, <1>4, ElsewhereKeeps DEF processVars, ProcessInv, ChildFunctions

LEMMA LeaveKeeps ==
  ASSUME ProcessInv, NEW k \in Conn, Leave(k)
  PROVE  ProcessInv'
<1>1. "done" \notin Holding
  BY DEF Holding, Signalling
<1>2. /\ target' \in [Conn -> Pid]
      /\ \A i \in Conn \ {k} : target'[i] = target[i] /\ (i \in misread => i \in misread')
      /\ request' = [i \in Conn |-> request'[i]]
      /\ UNCHANGED request
  BY PidAssumption DEF Leave, ProcessInv, ChildFunctions
<1> QED
  BY <1>1, <1>2, ElsewhereKeeps DEF Leave

\* The password handler runs on past the end of the request: it stays at its door, or is
\* killed.
LEMMA RunOnGoes ==
  ASSUME pc = [i \in Conn |-> pc[i]], NEW k \in Conn, RunOn(k)
  PROVE  /\ pc[k] = "open" /\ (Goto(k, "open") \/ Goto(k, "done"))
         /\ UNCHANGED <<answer, shadow, disk, salt, mounted>>
<1>1. pc[k] = "open" /\ UNCHANGED <<answer, shadow, disk, salt, mounted>>
  BY DEF RunOn, At, Proceed, manageVars
<1>2. UNCHANGED pc => Goto(k, "open")
  BY <1>1 DEF Goto
<1> QED
  BY <1>1, <1>2 DEF RunOn, Proceed

LEMMA ManageKeeps ==
  ASSUME ProcessInv, NEW k \in Conn, ManageHandler(k), UNCHANGED processVars
  PROVE  ProcessInv'
<1>1. CASE \E a : Finish(k, a)
  BY <1>1, FinishKeeps DEF processVars
<1>2. CASE \E s : s \notin Holding /\ Proceed(k, s)
  BY <1>2, ElsewhereKeeps DEF Proceed, processVars, ProcessInv, ChildFunctions
<1>3. CASE RunOn(k)
  <2>1. Goto(k, "open") \/ Goto(k, "done")
    BY <1>3, RunOnGoes DEF ProcessInv, ChildFunctions
  <2>2. /\ request' = [i \in Conn |-> request'[i]]
        /\ \A i \in Conn \ {k} : request'[i] = request[i]
    BY <1>3 DEF RunOn, Proceed, ProcessInv, ChildFunctions
  <2>3. "open" \notin Holding /\ "done" \notin Holding
    BY DEF Holding, Signalling
  <2> QED
    BY <2>1, <2>2, <2>3, ElsewhereKeeps DEF processVars, ProcessInv, ChildFunctions
<1> QED
  BY <1>1, <1>2, <1>3
  DEF ManageHandler, Open, ReadSalt, ReadHash, Truncate, Write, Mount, Unmount, Script,
      Holding, Signalling

\* A connection gets its child, or the child of a closed one ends.
LEMMA ProceedKeeps ==
  ASSUME ProcessInv, NEW k \in Conn, NEW s \in {"receive", "done"}, Proceed(k, s),
         UNCHANGED processVars
  PROVE  ProcessInv'
<1>1. s \notin Holding
  BY DEF Holding, Signalling
<1> QED
  BY <1>1, ElsewhereKeeps DEF Proceed, processVars, ProcessInv, ChildFunctions

LEMMA ProcessInvNext == ProcessInv /\ [Next]_vars => ProcessInv'
<1> SUFFICES ASSUME ProcessInv, [Next]_vars
             PROVE  ProcessInv'
  OBVIOUS
<1>1. ASSUME NEW k \in Conn, Receive(k) \/ Handler(k) \/ SendReply(k) \/ Orphan(k)
      PROVE  ProcessInv'
  <2>1. CASE Receive(k)
    BY <2>1, ReceiveKeeps
  <2>2. CASE Handler(k)
    BY <2>2, FindKeeps, ActiveKeeps, SendSignalKeeps, ManageKeeps DEF Handler, ProcessHandler
  <2>3. CASE SendReply(k)
    BY <2>3, LeaveKeeps DEF SendReply
  <2>4. CASE Orphan(k)
    BY <2>4, ProceedKeeps DEF Orphan
  <2> QED
    BY <1>1, <2>1, <2>2, <2>3, <2>4
<1>2. ASSUME NEW t \in Thread, InCall(t)
      PROVE  ProcessInv'
  <2>1. CASE Connect(t)
    <3>1. UNCHANGED processVars
      BY <2>1 DEF Connect
    <3> QED
      BY <2>1, <3>1, ProceedKeeps, NobodyKeeps DEF Connect, Accept
  <2>2. CASE Send(t) \/ Read(t) \/ Wait(t) \/ Judge(t)
    BY <2>2, NobodyKeeps DEF Send, Read, Wait, Judge
  <2> QED
    BY <1>2, <2>1, <2>2 DEF InCall
<1>3. CASE Users
  <2>1. PICK t \in Thread : \E o \in session[t] : Begin(t, o) \/ ClientCalls(t, o)
    BY <1>3 DEF Users
  <2>2. PICK o \in session[t] : Begin(t, o) \/ ClientCalls(t, o)
    BY <2>1
  <2>3. CASE Begin(t, o)
    BY <2>3, NobodyKeeps DEF Begin
  <2>4. CASE ClientCalls(t, o)
    BY <2>4, ProceedKeeps DEF ClientCalls, Accept
  <2> QED
    BY <2>2, <2>3, <2>4
<1>4. CASE Surroundings
  BY <1>1, <1>4, ProgramsKeep, RebootKeeps, NobodyKeeps DEF Surroundings, GuiRestarts
<1>5. CASE UNCHANGED vars
  BY <1>5, NobodyKeeps DEF vars
<1> QED
  BY <1>1, <1>2, <1>3, <1>4, <1>5 DEF Next, Server

\* A signal reaches the program that was named unless its pid file was misread or it
\* has ended, and the daemon itself only by a misread file (StrikesTheNamed), however
\* the children, the programs and the kernel's choice of pids interleave.
THEOREM SignalsStrikeTheNamed == Spec => []StrikesTheNamed
<1>1. ProcessInv => StrikesTheNamed
  BY DEF ProcessInv
<1> QED
  BY ProcessInvInit, ProcessInvNext, <1>1, PTL DEF Spec

-----------------------------------------------------------------------------
\* A child past the check whether there is anything in the file.
Trusting == {"salt", "hash", "truncate", "write"}

\* The file is empty because somebody is about to write it, or because it was empty
\* when the machine booted; then no child is past that check, and none ever will be.
EmptySince ==
    shadow = <<>> =>
        \/ \E k \in Conn : pc[k] = "write"
        \/ disk = <<>> /\ \A k \in Conn : pc[k] \notin Trusting

EmptyInv == pc = [k \in Conn |-> pc[k]] /\ EmptySince

\* What any step but a reboot comes down to: a child goes to another step, and enters
\* the handler of passwords only by its door.
Elsewhere(k, s) == pc[k] # "write" /\ s \notin Trusting /\ Goto(k, s) /\ UNCHANGED <<shadow, disk>>

LEMMA ElsewhereLeavesEmpty ==
  ASSUME EmptyInv, NEW k \in Conn, NEW s, Elsewhere(k, s)
  PROVE  EmptyInv' /\ (Abandoned => Abandoned')
<1>1. /\ pc' = [i \in Conn |-> pc'[i]]
      /\ pc'[k] = s
      /\ \A i \in Conn \ {k} : pc'[i] = pc[i]
  BY DEF Elsewhere, Goto, EmptyInv
<1> QED
  BY <1>1 DEF Elsewhere, EmptyInv, EmptySince, Abandoned, At, Trusting

LEMMA NobodyLeavesEmpty ==
  ASSUME EmptyInv, UNCHANGED <<pc, shadow, disk>>
  PROVE  EmptyInv' /\ (Abandoned => Abandoned')
  BY DEF EmptyInv, EmptySince, Abandoned, At

\* A child of the password handler.
LEMMA PasswordLeavesEmpty ==
  ASSUME EmptyInv, NEW k \in Conn,
         Open(k) \/ ReadSalt(k) \/ ReadHash(k) \/ Truncate(k) \/ Write(k)
  PROVE  EmptyInv' /\ (Abandoned => Abandoned')
<1> DEFINE Goes(s) == /\ pc' = [i \in Conn |-> pc'[i]]
                      /\ pc'[k] = s
                      /\ \A i \in Conn \ {k} : pc'[i] = pc[i]
<1> USE DEF At
<1>1. ASSUME NEW s, Goto(k, s)
      PROVE  Goes(s)
  BY <1>1 DEF Goto, EmptyInv
<1>2. CASE Open(k) /\ shadow = <<>>
  <2>1. Elsewhere(k, "reply")
    BY <1>2 DEF Open, Finish, Elsewhere, Trusting, manageVars
  <2> QED
    BY <2>1, ElsewhereLeavesEmpty
<1>3. CASE (Open(k) \/ ReadSalt(k) \/ ReadHash(k)) /\ shadow # <<>>
  <2>1. UNCHANGED shadow /\ \E s : Goto(k, s)
    BY <1>3 DEF Open, ReadSalt, ReadHash, Proceed, Finish, manageVars
  <2> QED
    BY <1>1, <1>3, <2>1 DEF EmptyInv, EmptySince, Abandoned
<1>4. CASE Truncate(k)
  <2>1. Goes("write") /\ pc[k] = "truncate"
    BY <1>1, <1>4 DEF Truncate, Proceed
  <2>2. ~Abandoned
    BY <2>1 DEF EmptyInv, EmptySince, Abandoned, Trusting
  <2> QED
    BY <2>1, <2>2 DEF EmptyInv, EmptySince
<1>5. CASE Write(k)
  <2>1. Goes("reply") /\ pc[k] = "write" /\ shadow' # <<>>
    BY <1>1, <1>5 DEF Write, Finish, ShadowBecomes
  <2> QED
    BY <2>1 DEF EmptyInv, EmptySince, Abandoned
<1>6. ReadSalt(k) \/ ReadHash(k) => shadow # <<>>
  BY DEF ReadSalt, ReadHash
<1> QED
  BY <1>2, <1>3, <1>4, <1>5, <1>6

LEMMA HandlerLeavesEmpty ==
  ASSUME EmptyInv, NEW k \in Conn, Handler(k)
  PROVE  EmptyInv' /\ (Abandoned => Abandoned')
<1>1. CASE ProcessHandler(k) /\ UNCHANGED manageVars
  <2>1. UNCHANGED <<shadow, disk>> /\ pc[k] # "write"
    BY <1>1
    DEF ProcessHandler, Find, Active, Interrupt, Quit, Kill, HangUp, At, manageVars
  <2>2. \E s : s \notin Trusting /\ Goto(k, s)
    BY <1>1
    DEF ProcessHandler, Find, Active, Interrupt, Quit, Kill, HangUp, NotActive, FirstStep,
        SendSignal, Delivered, Proceed, Finish, Trusting
  <2> QED
    BY <2>1, <2>2, ElsewhereLeavesEmpty DEF Elsewhere
<1>2. CASE Mount(k) \/ Unmount(k) \/ Script(k)
  <2>1. Elsewhere(k, "reply")
    BY <1>2 DEF Mount, Unmount, Script, Finish, Elsewhere, Trusting, At, manageVars
  <2> QED
    BY <2>1, ElsewhereLeavesEmpty
<1>3. CASE RunOn(k)
  <2>1. Elsewhere(k, "open") \/ Elsewhere(k, "done")
    BY <1>3, RunOnGoes DEF Elsewhere, Trusting, EmptyInv
  <2> QED
    BY <2>1, ElsewhereLeavesEmpty
<1> QED
  BY <1>1, <1>2, <1>3, PasswordLeavesEmpty DEF Handler, ManageHandler

\* The machine comes up again with what was on its disk.
LEMMA RebootLeavesEmpty ==
  ASSUME EmptyInv, Reboot
  PROVE  EmptyInv' /\ (Abandoned => Abandoned')
<1>1. \A k \in Conn : pc'[k] = "none"
  BY DEF Reboot, ChildReboot, Each
<1>2. pc' = [k \in Conn |-> pc'[k]]
  BY DEF Reboot, ChildReboot, Each
<1>3. disk' = shadow'
  BY DEF Reboot, ManageReboot
<1>4. ASSUME shadow = <<>>, disk = <<>>
      PROVE  shadow' = <<>>
  BY <1>4 DEF Reboot, ManageReboot
<1> QED
  BY <1>1, <1>2, <1>3, <1>4 DEF EmptyInv, EmptySince, Abandoned, At, Trusting

LEMMA EmptyNext ==
  ASSUME EmptyInv, [Next]_vars
  PROVE  EmptyInv' /\ (Abandoned => Abandoned')
<1>1. ASSUME NEW k \in Conn, Receive(k) \/ Handler(k) \/ SendReply(k) \/ Orphan(k)
      PROVE  EmptyInv' /\ (Abandoned => Abandoned')
  <2>1. CASE Receive(k)
    <3>1. PICK m : Goto(k, Entrance(m))
      BY <2>1 DEF Receive
    <3>2. Elsewhere(k, Entrance(m))
      BY <2>1, <3>1 DEF Receive, Entrance, Trusting, Elsewhere, At
    <3> QED
      BY <3>2, ElsewhereLeavesEmpty
  <2>2. CASE Handler(k)
    BY <2>2, HandlerLeavesEmpty
  <2>3. CASE SendReply(k) \/ Orphan(k)
    <3>1. Elsewhere(k, "done")
      BY <2>3
      DEF SendReply, Leave, Orphan, Proceed, Elsewhere, Trusting, At, manageVars
    <3> QED
      BY <3>1, ElsewhereLeavesEmpty
  <2> QED
    BY <1>1, <2>1, <2>2, <2>3
<1>2. ASSUME NEW k \in Conn, Accept(k), UNCHANGED manageVars
      PROVE  EmptyInv' /\ (Abandoned => Abandoned')
  <2>1. Elsewhere(k, "receive") \/ Elsewhere(k, "done")
    BY <1>2 DEF Accept, Proceed, Elsewhere, Trusting, At, manageVars
  <2> QED
    BY <2>1, ElsewhereLeavesEmpty
<1>3. ASSUME NEW t \in Thread, InCall(t)
      PROVE  EmptyInv' /\ (Abandoned => Abandoned')
  BY <1>2, <1>3, NobodyLeavesEmpty
  DEF InCall, Connect, Send, Read, Wait, Judge, childVars, manageVars
<1>4. CASE Users
  <2>1. PICK t \in Thread : \E o \in session[t] : Begin(t, o) \/ ClientCalls(t, o)
    BY <1>4 DEF Users
  <2> QED
    BY <1>2, <2>1, NobodyLeavesEmpty DEF Begin, ClientCalls, childVars, manageVars
<1>5. CASE Surroundings
  BY <1>1, <1>5, RebootLeavesEmpty, NobodyLeavesEmpty
  DEF Surroundings, GuiRestarts, childVars, manageVars
<1>6. CASE UNCHANGED vars
  BY <1>6, NobodyLeavesEmpty DEF vars, childVars, manageVars
<1> QED
  BY <1>1, <1>3, <1>4, <1>5, <1>6 DEF Next, Server

LEMMA EmptyInit == Init => EmptyInv
  BY DEF Init, ChildInit, ManageInit, Each, Installed, EmptyInv, EmptySince

\* A crash between the truncation of /etc/shadow and its write leaves root without a
\* password for good: no later request, and no later boot, puts one into the file again
\* (EmptyIsForGood).
THEOREM EmptyStaysEmpty == Spec => EmptyIsForGood
<1>1. EmptyInv /\ [Next]_vars => EmptyInv'
  BY EmptyNext
<1>2. EmptyInv /\ [Next]_vars => [Abandoned => Abandoned']_<<childVars, manageVars>>
  BY EmptyNext
<1> QED
  BY EmptyInit, <1>1, <1>2, PTL DEF Spec, EmptyIsForGood
-----------------------------------------------------------------------------
(***************************************************************************)
(* The root password (with module JanixManage): whatever children truncate *)
(* and write /etc/shadow under each other, the answer to a password request*)
(* is one the file accounts for.                                           *)
(*                                                                         *)
(* The inductive invariant follows a request through its handler: what the *)
(* file holds now is among what it has held since, so is the entry whose   *)
(* salt was read, and a child on its way to the truncation has seen the    *)
(* right password in it.                                                   *)
(***************************************************************************)

PasswordStep == {"open", "salt", "hash", "truncate", "write"}

\* The steps at which a child handles another request.
ElsewhereStep == ProcessStep \cup {"mount", "umount", "script"}

PasswordFunctions ==
    /\ pc = [k \in Conn |-> pc[k]]
    /\ request = [k \in Conn |-> request[k]]
    /\ answer = [k \in Conn |-> answer[k]]
    /\ salt = [k \in Conn |-> salt[k]]
    /\ seen = [k \in Conn |-> seen[k]]

\* What a child has seen of the old password.
Right(k) == {f \in seen[k] : f # <<>> /\ f[1].password = OldPassword(k)}

\* The answer of a password request is accounted for.
Answered(k) ==
    IF answer[k] = "S"
    THEN /\ Right(k) # {}
         /\ <<[password |-> NewPassword(k), writer |-> k]>> \in seen[k]
    ELSE seen[k] # Right(k) \/ Cardinality(seen[k]) > 1

\* One child's request, by the step it has come to.
InHand(k) ==
    /\ pc[k] \in ElsewhereStep => request[k].command # "MP"
    /\ pc[k] \in PasswordStep => shadow \in seen[k] /\ IsFiniteSet(seen[k])
    /\ pc[k] = "hash" => salt[k] \in seen[k]
    /\ pc[k] \in {"truncate", "write"} => Right(k) # {}
    /\ pc[k] = "reply" /\ request[k].command = "MP" => Answered(k)

PasswordInv ==
    /\ PasswordFunctions
    /\ \A k \in Conn : InHand(k)

-----------------------------------------------------------------------------
LEMMA TwoSeen ==
  ASSUME NEW S, IsFiniteSet(S), NEW x \in S, NEW y \in S, x # y
  PROVE  Cardinality(S) > 1
<1>1. IsFiniteSet({x}) /\ Cardinality({x}) = 1
  BY FS_Singleton
<1>2. IsFiniteSet({x} \cup {y}) /\ Cardinality({x} \cup {y}) = 2
  BY <1>1, y \notin {x}, FS_AddElement
<1>3. {x} \cup {y} \in SUBSET S
  OBVIOUS
<1>4. Cardinality({x} \cup {y}) <= Cardinality(S) /\ Cardinality(S) \in Nat
  BY <1>3, FS_Subset, FS_CardinalityType
<1> QED
  BY <1>2, <1>4

LEMMA PasswordHolds == PasswordInv => PasswordAnswers
  BY DEF PasswordInv, InHand, Answered, Right, PasswordAnswers, At

LEMMA PasswordInit == Init => PasswordInv
  BY DEF Init, ChildInit, ManageInit, Each, PasswordInv, PasswordFunctions, InHand,
         ElsewhereStep, PasswordStep, ProcessStep

\* A request that is the same asks for the same.
LEMMA SameText ==
  ASSUME NEW k \in Conn, request'[k] = request[k]
  PROVE  OldPassword(k)' = OldPassword(k) /\ NewPassword(k)' = NewPassword(k)
<1>1. Split(k)' = Split(k)
  BY DEF Split, SelectInSeq
<1> QED
  BY <1>1 DEF OldPassword, NewPassword

\* Children that do not move keep what they have.
LEMMA OthersKeep ==
  ASSUME PasswordInv, NEW i \in Conn,
         pc'[i] = pc[i], request'[i] = request[i], answer'[i] = answer[i], salt'[i] = salt[i],
         seen'[i] = seen[i], UNCHANGED shadow
  PROVE  InHand(i)'
  BY SameText DEF PasswordInv, InHand, Answered, Right

\* They have seen what the file becomes.
LEMMA OthersSee ==
  ASSUME PasswordInv, NEW i \in Conn, NEW file, ShadowBecomes(file),
         pc'[i] = pc[i], request'[i] = request[i], answer'[i] = answer[i], salt'[i] = salt[i]
  PROVE  InHand(i)'
<1>1. /\ shadow' = file
      /\ seen'[i] = IF pc[i] \in PasswordStep THEN seen[i] \cup {file} ELSE seen[i]
  BY DEF ShadowBecomes, PasswordChild, PasswordStep
<1>2. OldPassword(i)' = OldPassword(i) /\ NewPassword(i)' = NewPassword(i)
  BY SameText
<1>3. IsFiniteSet(seen[i]) => IsFiniteSet(seen[i] \cup {file})
  BY FS_AddElement
<1>4. pc[i] \in PasswordStep => Right(i) \subseteq Right(i)'
  BY <1>1, <1>2 DEF Right
<1>5. CASE pc[i] \in PasswordStep
  BY <1>1, <1>3, <1>4, <1>5
  DEF PasswordInv, InHand, PasswordStep, ElsewhereStep, ProcessStep
<1>6. CASE pc[i] \notin PasswordStep
  BY <1>1, <1>2, <1>6 DEF PasswordInv, InHand, Answered, Right, PasswordStep
<1> QED
  BY <1>5, <1>6

\* A child goes to a step at which nothing is asked of it.
LEMMA ElsewhereKeepsPassword ==
  ASSUME PasswordInv, NEW k \in Conn, NEW s, Goto(k, s),
         s \notin PasswordStep \cup {"reply"},
         s \in ElsewhereStep => request'[k].command # "MP",
         PasswordFunctions', UNCHANGED shadow,
         \A i \in Conn \ {k} : /\ request'[i] = request[i] /\ answer'[i] = answer[i]
                               /\ salt'[i] = salt[i] /\ seen'[i] = seen[i]
  PROVE  PasswordInv'
<1>1. pc'[k] = s /\ \A i \in Conn \ {k} : pc'[i] = pc[i]
  BY DEF Goto, PasswordInv, PasswordFunctions
<1>2. InHand(k)'
  BY <1>1 DEF InHand, PasswordStep
<1>3. \A i \in Conn \ {k} : InHand(i)'
  BY <1>1, OthersKeep
<1> QED
  BY <1>2, <1>3 DEF PasswordInv

LEMMA NobodyKeepsPassword ==
  ASSUME PasswordInv, UNCHANGED <<childVars, manageVars>>
  PROVE  PasswordInv'
<1>1. \A i \in Conn : InHand(i)'
  BY OthersKeep DEF childVars, manageVars
<1> QED
  BY <1>1 DEF PasswordInv, PasswordFunctions, childVars, manageVars

-----------------------------------------------------------------------------
\* A child moves within the password handler, and the file stays.
LEMMA GoesOnReading ==
  ASSUME PasswordInv, NEW k \in Conn, NEW s \in {"salt", "hash", "truncate"},
         pc[k] \in PasswordStep, Proceed(k, s), UNCHANGED <<shadow, seen>>,
         salt' = [i \in Conn |-> salt'[i]],
         \A i \in Conn \ {k} : salt'[i] = salt[i],
         s = "hash" => salt'[k] \in seen[k],
         s = "truncate" => Right(k) # {}
  PROVE  PasswordInv'
<1>1. /\ PasswordFunctions' /\ UNCHANGED <<request, answer>>
      /\ pc'[k] = s /\ \A i \in Conn \ {k} : pc'[i] = pc[i]
  BY DEF Proceed, Goto, PasswordInv, PasswordFunctions
<1>2. InHand(k)'
  <2>1. Right(k)' = Right(k)
    BY <1>1, SameText DEF Right
  <2>2. shadow \in seen[k] /\ IsFiniteSet(seen[k])
    BY DEF PasswordInv, InHand
  <2> QED
    BY <1>1, <2>1, <2>2 DEF InHand, PasswordStep, ElsewhereStep, ProcessStep
<1>3. \A i \in Conn \ {k} : InHand(i)'
  BY <1>1, OthersKeep
<1> QED
  BY <1>1, <1>2, <1>3 DEF PasswordInv

\* A child leaves a handler with an answer, and the file stays.
LEMMA FinishKeepsPassword ==
  ASSUME PasswordInv, NEW k \in Conn, NEW a, Finish(k, a),
         UNCHANGED <<shadow, salt, seen>>,
         pc[k] \in ElsewhereStep \/ (a # "S" /\ (seen[k] # Right(k) \/ Cardinality(seen[k]) > 1))
  PROVE  PasswordInv'
<1>1. /\ PasswordFunctions' /\ UNCHANGED request
      /\ pc'[k] = "reply" /\ \A i \in Conn \ {k} : pc'[i] = pc[i]
      /\ answer'[k] = a /\ \A i \in Conn \ {k} : answer'[i] = answer[i]
  BY DEF Finish, Goto, PasswordInv, PasswordFunctions
<1>2. InHand(k)'
  <2>1. Right(k)' = Right(k)
    BY <1>1, SameText DEF Right
  <2>2. CASE pc[k] \in ElsewhereStep
    BY <1>1, <2>2 DEF PasswordInv, InHand, PasswordStep, ElsewhereStep, ProcessStep
  <2>3. CASE a # "S" /\ (seen[k] # Right(k) \/ Cardinality(seen[k]) > 1)
    BY <1>1, <2>1, <2>3 DEF InHand, Answered, PasswordStep, ElsewhereStep, ProcessStep
  <2> QED
    BY <2>2, <2>3
<1>3. \A i \in Conn \ {k} : InHand(i)'
  BY <1>1, OthersKeep
<1> QED
  BY <1>1, <1>2, <1>3 DEF PasswordInv

\* The child stays at the door with a longer text, or is killed.
LEMMA RunOnKeepsPassword ==
  ASSUME PasswordInv, NEW k \in Conn, RunOn(k)
  PROVE  PasswordInv'
<1>1. pc[k] = "open" /\ UNCHANGED <<answer, shadow, salt>>
  BY RunOnGoes DEF PasswordInv, PasswordFunctions
<1>2. CASE UNCHANGED <<pc, seen>>
  <2>1. /\ request' = [i \in Conn |-> request'[i]]
        /\ \A i \in Conn \ {k} : request'[i] = request[i]
    BY <1>2 DEF RunOn, Proceed, PasswordInv, PasswordFunctions
  <2>2. InHand(k)'
    BY <1>1, <1>2 DEF PasswordInv, InHand, PasswordStep, ElsewhereStep, ProcessStep
  <2>3. \A i \in Conn \ {k} : InHand(i)'
    BY <1>1, <1>2, <2>1, OthersKeep
  <2> QED
    BY <1>1, <1>2, <2>1, <2>2, <2>3 DEF PasswordInv, PasswordFunctions
<1>3. CASE Proceed(k, "done") /\ seen' = [seen EXCEPT ![k] = {}]
  <2>1. /\ PasswordFunctions' /\ UNCHANGED request
        /\ \A i \in Conn \ {k} : seen'[i] = seen[i]
    BY <1>1, <1>3 DEF Proceed, Goto, PasswordInv, PasswordFunctions
  <2>2. "done" \notin PasswordStep \cup {"reply"} \cup ElsewhereStep
    BY DEF PasswordStep, ElsewhereStep, ProcessStep
  <2> QED
    BY <1>1, <1>3, <2>1, <2>2, ElsewhereKeepsPassword DEF Proceed
<1> QED
  BY <1>2, <1>3 DEF RunOn, manageVars

LEMMA OpenKeeps ==
  ASSUME PasswordInv, NEW k \in Conn, Open(k)
  PROVE  PasswordInv'
<1>1. pc[k] = "open" /\ UNCHANGED <<shadow, salt, seen>> /\ shadow \in seen[k]
  BY DEF Open, At, manageVars, PasswordInv, InHand, PasswordStep
<1>2. CASE shadow = <<>> /\ Finish(k, "F")
  <2>1. shadow \notin Right(k)
    BY <1>2 DEF Right
  <2> QED
    BY <1>1, <1>2, <2>1, FinishKeepsPassword
<1>3. CASE Proceed(k, "salt")
  BY <1>1, <1>3, GoesOnReading DEF PasswordStep, PasswordInv, PasswordFunctions
<1> QED
  BY <1>2, <1>3 DEF Open

LEMMA ReadSaltKeeps ==
  ASSUME PasswordInv, NEW k \in Conn, ReadSalt(k)
  PROVE  PasswordInv'
<1>1. pc[k] \in PasswordStep /\ UNCHANGED <<shadow, seen>> /\ shadow \in seen[k]
  BY DEF ReadSalt, At, PasswordInv, InHand, PasswordStep
<1>2. /\ salt' = [i \in Conn |-> salt'[i]] /\ salt'[k] = shadow
      /\ \A i \in Conn \ {k} : salt'[i] = salt[i]
  BY DEF ReadSalt, PasswordInv, PasswordFunctions
<1> QED
  BY <1>1, <1>2, GoesOnReading DEF ReadSalt

LEMMA ReadHashKeeps ==
  ASSUME PasswordInv, NEW k \in Conn, ReadHash(k)
  PROVE  PasswordInv'
<1>1. /\ pc[k] \in PasswordStep /\ UNCHANGED <<shadow, salt, seen>> /\ shadow # <<>>
      /\ shadow \in seen[k] /\ salt[k] \in seen[k] /\ IsFiniteSet(seen[k])
  BY DEF ReadHash, At, manageVars, PasswordInv, InHand, PasswordStep
<1>2. CASE salt[k] = shadow /\ shadow[1].password = OldPassword(k)
  <2>1. shadow \in Right(k)
    BY <1>1, <1>2 DEF Right
  <2> QED
    BY <1>1, <1>2, <2>1, GoesOnReading DEF ReadHash, PasswordInv, PasswordFunctions
<1>3. CASE salt[k] # shadow
  <2>1. Cardinality(seen[k]) > 1
    BY <1>1, <1>3, TwoSeen
  <2> QED
    BY <1>1, <1>3, <2>1, FinishKeepsPassword DEF ReadHash
<1>4. CASE shadow[1].password # OldPassword(k)
  <2>1. shadow \notin Right(k)
    BY <1>4 DEF Right
  <2> QED
    BY <1>1, <1>4, <2>1, FinishKeepsPassword DEF ReadHash
<1> QED
  BY <1>2, <1>3, <1>4

LEMMA TruncateKeeps ==
  ASSUME PasswordInv, NEW k \in Conn, Truncate(k)
  PROVE  PasswordInv'
<1>1. /\ pc[k] = "truncate" /\ ShadowBecomes(<<>>) /\ UNCHANGED <<request, answer, salt>>
      /\ pc'[k] = "write" /\ \A i \in Conn \ {k} : pc'[i] = pc[i]
      /\ PasswordFunctions'
  BY DEF Truncate, At, Proceed, Goto, ShadowBecomes, PasswordInv, PasswordFunctions
<1>2. InHand(k)'
  <2>1. /\ shadow' = <<>> /\ seen'[k] = seen[k] \cup {<<>>}
        /\ Right(k) # {} /\ IsFiniteSet(seen[k])
    BY <1>1 DEF ShadowBecomes, PasswordChild, PasswordInv, InHand, PasswordStep
  <2>2. IsFiniteSet(seen'[k])
    BY <2>1, FS_AddElement
  <2>3. Right(k) \subseteq Right(k)'
    BY <1>1, <2>1, SameText DEF Right
  <2> QED
    BY <1>1, <2>1, <2>2, <2>3 DEF InHand, PasswordStep, ElsewhereStep, ProcessStep
<1>3. \A i \in Conn \ {k} : InHand(i)'
  BY <1>1, OthersSee
<1> QED
  BY <1>1, <1>2, <1>3 DEF PasswordInv

LEMMA WriteKeeps ==
  ASSUME PasswordInv, NEW k \in Conn, Write(k)
  PROVE  PasswordInv'
<1> DEFINE file == <<[password |-> NewPassword(k), writer |-> k]>>
<1>1. /\ pc[k] = "write" /\ ShadowBecomes(file) /\ UNCHANGED <<request, salt>>
      /\ pc'[k] = "reply" /\ \A i \in Conn \ {k} : pc'[i] = pc[i]
      /\ answer'[k] = "S" /\ \A i \in Conn \ {k} : answer'[i] = answer[i]
      /\ PasswordFunctions'
  BY DEF Write, At, Finish, Goto, ShadowBecomes, PasswordInv, PasswordFunctions
<1>2. InHand(k)'
  <2>1. seen'[k] = seen[k] \cup {file} /\ Right(k) # {}
    BY <1>1 DEF ShadowBecomes, PasswordChild, PasswordInv, InHand, PasswordStep
  <2>2. NewPassword(k)' = NewPassword(k) /\ Right(k) \subseteq Right(k)'
    BY <1>1, <2>1, SameText DEF Right
  <2> QED
    BY <1>1, <2>1, <2>2 DEF InHand, Answered, PasswordStep, ElsewhereStep, ProcessStep
<1>3. \A i \in Conn \ {k} : InHand(i)'
  BY <1>1, OthersSee
<1> QED
  BY <1>1, <1>2, <1>3 DEF PasswordInv

-----------------------------------------------------------------------------
LEMMA HandlerKeepsPassword ==
  ASSUME PasswordInv, NEW k \in Conn, Handler(k)
  PROVE  PasswordInv'
<1>1. CASE Open(k) \/ ReadSalt(k) \/ ReadHash(k) \/ Truncate(k) \/ Write(k)
  BY <1>1, OpenKeeps, ReadSaltKeeps, ReadHashKeeps, TruncateKeeps, WriteKeeps
<1>2. CASE \/ ProcessHandler(k) /\ UNCHANGED manageVars
           \/ Mount(k) \/ Unmount(k) \/ Script(k)
  <2>1. pc[k] \in ElsewhereStep /\ UNCHANGED <<shadow, salt, seen>>
    BY <1>2
    DEF ProcessHandler, Find, Active, Interrupt, Quit, Kill, HangUp, Mount, Unmount, Script,
        At, ElsewhereStep, ProcessStep, manageVars
  <2>2. (\E a : Finish(k, a)) \/ (\E s \in ProcessStep : Proceed(k, s))
    BY <1>2
    DEF ProcessHandler, Find, Active, Interrupt, Quit, Kill, HangUp, NotActive, FirstStep,
        SendSignal, Delivered, Mount, Unmount, Script, ProcessStep
  <2>3. CASE \E a : Finish(k, a)
    BY <2>1, <2>3, FinishKeepsPassword
  <2>4. CASE \E s \in ProcessStep : Proceed(k, s)
    <3>1. PICK s \in ProcessStep : Proceed(k, s)
      BY <2>4
    <3>2. request[k].command # "MP"
      BY <2>1 DEF PasswordInv, InHand
    <3>3. s \notin PasswordStep \cup {"reply"} /\ PasswordFunctions'
      BY <2>1, <3>1
      DEF PasswordStep, ProcessStep, Proceed, Goto, PasswordInv, PasswordFunctions
    <3> QED
      BY <2>1, <3>1, <3>2, <3>3, ElsewhereKeepsPassword DEF Proceed
  <2> QED
    BY <2>2, <2>3, <2>4
<1> QED
  BY <1>1, <1>2, RunOnKeepsPassword DEF Handler, ManageHandler

LEMMA ReceiveKeepsPassword ==
  ASSUME PasswordInv, NEW k \in Conn, Receive(k)
  PROVE  PasswordInv'
<1>1. PICK m :
        /\ request' = [request EXCEPT ![k] = m]
        /\ Goto(k, Entrance(m))
        /\ answer' = [answer EXCEPT ![k] = IF m.command = "E-" THEN "E" ELSE "-"]
        /\ seen' = [seen EXCEPT ![k] = {shadow}]
  BY DEF Receive
<1>2. UNCHANGED <<shadow, salt>>
  BY DEF Receive
<1>3. /\ PasswordFunctions'
      /\ pc'[k] = Entrance(m) /\ request'[k] = m /\ seen'[k] = {shadow}
      /\ \A i \in Conn \ {k} : /\ pc'[i] = pc[i] /\ request'[i] = request[i]
                               /\ answer'[i] = answer[i] /\ seen'[i] = seen[i]
  BY <1>1, <1>2 DEF Goto, PasswordInv, PasswordFunctions
<1>4. InHand(k)'
  <2>1. IsFiniteSet({shadow})
    BY FS_Singleton
  <2>2. \/ m.command = "MP" /\ Entrance(m) = "open"
        \/ m.command # "MP" /\ Entrance(m) \in ElsewhereStep \cup {"reply"}
    BY DEF Entrance, ElsewhereStep, ProcessStep
  <2> QED
    BY <1>2, <1>3, <2>1, <2>2 DEF InHand, PasswordStep, ElsewhereStep, ProcessStep
<1>5. \A i \in Conn \ {k} : InHand(i)'
  BY <1>2, <1>3, OthersKeep
<1> QED
  BY <1>3, <1>4, <1>5 DEF PasswordInv

LEMMA LeaveKeepsPassword ==
  ASSUME PasswordInv, NEW k \in Conn, Leave(k)
  PROVE  PasswordInv'
<1>1. PasswordFunctions'
  BY DEF Leave, Goto, PasswordInv, PasswordFunctions
<1>2. "done" \notin PasswordStep \cup {"reply"} \cup ElsewhereStep
  BY DEF PasswordStep, ElsewhereStep, ProcessStep
<1>3. /\ Goto(k, "done") /\ UNCHANGED shadow
      /\ \A i \in Conn \ {k} : /\ request'[i] = request[i] /\ answer'[i] = answer[i]
                               /\ salt'[i] = salt[i] /\ seen'[i] = seen[i]
  BY DEF Leave, PasswordInv, PasswordFunctions
<1> QED
  BY <1>1, <1>2, <1>3, ElsewhereKeepsPassword

\* A connection gets its child, or the child of a closed one ends.
LEMMA ProceedKeepsPassword ==
  ASSUME PasswordInv, NEW k \in Conn, NEW s \in {"receive", "done"}, Proceed(k, s),
         UNCHANGED manageVars
  PROVE  PasswordInv'
<1>1. PasswordFunctions'
  BY DEF Proceed, Goto, manageVars, PasswordInv, PasswordFunctions
<1>2. s \notin PasswordStep \cup {"reply"} \cup ElsewhereStep
  BY DEF PasswordStep, ElsewhereStep, ProcessStep
<1> QED
  BY <1>1, <1>2, ElsewhereKeepsPassword DEF Proceed, manageVars

\* After a reboot no child is left.
LEMMA RebootKeepsPassword ==
  ASSUME Reboot
  PROVE  PasswordInv'
<1>1. PasswordFunctions' /\ \A k \in Conn : pc'[k] = "none"
  BY DEF Reboot, ChildReboot, ManageReboot, Each, PasswordFunctions
<1> QED
  BY <1>1 DEF PasswordInv, InHand, ElsewhereStep, PasswordStep, ProcessStep

LEMMA PasswordNext == PasswordInv /\ [Next]_vars => PasswordInv'
<1> SUFFICES ASSUME PasswordInv, [Next]_vars
             PROVE  PasswordInv'
  OBVIOUS
<1>1. CASE Server
  BY <1>1, ReceiveKeepsPassword, HandlerKeepsPassword, LeaveKeepsPassword DEF Server, SendReply
<1>2. ASSUME NEW k \in Conn, Accept(k), UNCHANGED manageVars
      PROVE  PasswordInv'
  BY <1>2, ProceedKeepsPassword DEF Accept
<1>3. ASSUME NEW t \in Thread, InCall(t)
      PROVE  PasswordInv'
  BY <1>2, <1>3, NobodyKeepsPassword DEF InCall, Connect, Send, Read, Wait, Judge
<1>4. CASE Users
  <2>1. PICK t \in Thread : \E o \in session[t] : Begin(t, o) \/ ClientCalls(t, o)
    BY <1>4 DEF Users
  <2> QED
    BY <1>2, <2>1, NobodyKeepsPassword DEF Begin, ClientCalls
<1>5. CASE Surroundings
  BY <1>5, ProceedKeepsPassword, RebootKeepsPassword, NobodyKeepsPassword
  DEF Surroundings, Orphan, GuiRestarts
<1>6. CASE UNCHANGED vars
  BY <1>6, NobodyKeepsPassword DEF vars
<1> QED
  BY <1>1, <1>3, <1>4, <1>5, <1>6 DEF Next

\* A password request that succeeds had the right password at some moment of its
\* handling, and put its new one into force; one that fails met another password, or a
\* file that changed under it (PasswordAnswers), for any number of requests.
THEOREM PasswordsAnswerTruly == Spec => []PasswordAnswers
  BY PasswordInit, PasswordNext, PasswordHolds, PTL DEF Spec
-----------------------------------------------------------------------------
(***************************************************************************)
(* The answers of the daemon: for any clients, operations and bounds, a    *)
(* thread hangs only for one of the reasons HungOnlyIf names.              *)
(*                                                                         *)
(* The inductive invariant follows a message: a connection somebody waits  *)
(* on is served, from the message in its buffer to the reply in the other  *)
(* one, and nobody else takes its reply.  For the client that is always so;*)
(* for the GUI as long as its threads have not met in the socket field.    *)
(***************************************************************************)

\* The daemon sends nothing to these.
Silent == {"--", "AK"}

Handling == ProcessStep \cup ManageStep \cup {"reply"}

\* The message has been sent, or is being handled, or its reply is there, or there
\* will be none.
Served(k) ==
    \/ pc[k] = "receive" /\ inbox[k] # <<>>
    \/ pc[k] \in Handling
    \/ pc[k] = "done" /\ (outbox[k] # "-" \/ Unanswered(k))

ServerFunctions ==
    /\ pc = [k \in Conn |-> pc[k]]
    /\ request = [k \in Conn |-> request[k]]
    /\ answer = [k \in Conn |-> answer[k]]
    /\ inbox \in [Conn -> Seq(Request)]
    /\ outbox = [k \in Conn |-> outbox[k]]

ThreadFunctions ==
    /\ tpc = [t \in Thread |-> tpc[t]]
    /\ op = [t \in Thread |-> op[t]]
    /\ step = [t \in Thread |-> step[t]]
    /\ mine = [t \in Thread |-> mine[t]]
    /\ sd \in 0 .. MaxConn
    /\ raced \in BOOLEAN

\* A thread in a call is at one of the messages of its operation.
Calls ==
    /\ session \in Sessions
    /\ \A t \in Thread :
          /\ tpc[t] = "idle" => step[t] = 1
          /\ tpc[t] # "idle" /\ t \in Gui =>
                op[t] \in session[t] /\ step[t] \in 1 .. Len(Messages(op[t]))
          /\ tpc[t] # "wait" => mine[t] = 0
          /\ t \in Client => tpc[t] \in {"idle", "wait"}

\* Nobody has anything of a connection that has not been made.
Unused ==
    \A k \in Conn : pc[k] = "none" => inbox[k] = <<>> /\ ~Referred(k)

\* Without a reply there is a reason, and what is at the door of the password handler is
\* a password request.
SilentOnly ==
    \A k \in Conn :
        /\ pc[k] = "reply" /\ answer[k] = "-" => request[k].command \in Silent
        /\ pc[k] = "open" => request[k].command = "MP"

\* The client's connection is its own.
ClientInOrder ==
    \A c \in Client : tpc[c] = "wait" =>
        /\ mine[c] \in Conn /\ Served(mine[c])
        /\ sd # mine[c]
        /\ \A t \in Thread \ {c} : mine[t] # mine[c]

\* And so is the one in the socket field, as long as no other thread meddles.
Meddles(t) == tpc[t] \in {"send", "read", "wait", "judge"}

GuiInOrder ==
    ~raced => \A t \in Gui :
        /\ Meddles(t) => \A u \in Gui \ {t} : ~Meddles(u)
        /\ tpc[t] = "send" => sd \in Conn /\ pc[sd] = "receive" /\ inbox[sd] = <<>>
        /\ tpc[t] = "read" => sd = 0 \/ (sd \in Conn /\ Served(sd))
        /\ tpc[t] = "wait" => mine[t] = sd /\ sd \in Conn /\ Served(sd)

AnswersInv ==
    /\ ServerFunctions
    /\ ThreadFunctions
    /\ Calls
    /\ Unused
    /\ SilentOnly
    /\ ClientInOrder
    /\ GuiInOrder

-----------------------------------------------------------------------------
LEMMA NobodyIsBoth == Gui \cap Client = {} /\ Thread = Gui \cup Client
  BY ThreadAssumption DEF Thread

LEMMA AnswersHold == AnswersInv => HungOnlyIf
<1> SUFFICES ASSUME AnswersInv, NEW t \in Thread, Hung(t)
             PROVE  \/ t \in Gui /\ raced
                    \/ Unanswered(mine[t])
  BY DEF HungOnlyIf
<1>1. tpc[t] = "wait" /\ outbox[mine[t]] = "-"
      /\ (pc[mine[t]] = "done" \/ (pc[mine[t]] = "receive" /\ inbox[mine[t]] = <<>>))
  BY DEF Hung, At
<1>2. Served(mine[t]) => Unanswered(mine[t])
  BY <1>1 DEF Served, Handling, ProcessStep, ManageStep
<1>3. t \in Client \/ ~raced => Served(mine[t])
  BY <1>1, NobodyIsBoth DEF AnswersInv, ClientInOrder, GuiInOrder
<1> QED
  BY <1>2, <1>3, NobodyIsBoth

\* A request that is the same is answered, or not, as before.
LEMMA UnansweredStays ==
  ASSUME NEW k \in Conn, request'[k] = request[k]
  PROVE  Unanswered(k)' = Unanswered(k)
<1>1. Split(k)' = Split(k)
  BY DEF Split, SelectInSeq
<1> QED
  BY <1>1 DEF Unanswered

LEMMA AnswersInit == Init => AnswersInv
<1> SUFFICES ASSUME Init
             PROVE  AnswersInv
  OBVIOUS
<1>1. ServerFunctions /\ SilentOnly
      /\ \A k \in Conn : pc[k] = "none" /\ inbox[k] = <<>>
  BY DEF Init, ChildInit, WireInit, Each, ServerFunctions, SilentOnly
<1>2. ThreadFunctions /\ sd = 0
      /\ \A t \in Thread : tpc[t] = "idle" /\ step[t] = 1 /\ mine[t] = 0
  <2>1. sd = 0 /\ raced = FALSE
    BY DEF Init, ThreadInit
  <2>3. 0 \in 0 .. MaxConn
    BY ConnAssumption
  <2>2. /\ tpc = [t \in Thread |-> "idle"] /\ op = [t \in Thread |-> Nothing]
        /\ step = [t \in Thread |-> 1] /\ mine = [t \in Thread |-> 0]
    BY DEF Init, ThreadInit, EachThread
  <2> QED
    BY <2>1, <2>2, <2>3 DEF ThreadFunctions
<1>3. session \in Sessions
  BY DEF Init
<1> QED
  BY <1>1, <1>2, <1>3, NobodyIsBoth
  DEF AnswersInv, Calls, Unused, Referred, Conn, ClientInOrder, GuiInOrder, Meddles

-----------------------------------------------------------------------------
\* One child moves and the threads do not: what is served stays served.
LEMMA ChildKeeps ==
  ASSUME AnswersInv,
         NEW k \in Conn,
         pc[k] # "none", ~(pc[k] = "receive" /\ inbox[k] = <<>> /\ Referred(k)),
         UNCHANGED <<threadVars, session>>,
         ServerFunctions',
         pc'[k] # "none",
         Served(k) => Served(k)',
         pc'[k] = "reply" /\ answer'[k] = "-" => request'[k].command \in Silent,
         pc'[k] = "open" => request'[k].command = "MP",
         \A i \in Conn \ {k} : /\ pc'[i] = pc[i] /\ inbox'[i] = inbox[i]
                               /\ outbox'[i] = outbox[i] /\ request'[i] = request[i]
                               /\ answer'[i] = answer[i]
  PROVE  AnswersInv'
<1>1. \A i \in Conn : Served(i) => Served(i)'
  BY UnansweredStays DEF Served
<1>2. \A i \in Conn : Referred(i)' = Referred(i)
  BY DEF Referred, threadVars
<1>3. ThreadFunctions' /\ Calls'
  BY DEF AnswersInv, ThreadFunctions, Calls, threadVars
<1>4. Unused' /\ SilentOnly'
  BY <1>2 DEF AnswersInv, Unused, SilentOnly
<1>5. ClientInOrder'
  BY <1>1, NobodyIsBoth DEF AnswersInv, ClientInOrder, threadVars
<1>6. GuiInOrder'
  <2>1. \A i \in Conn : sd = i /\ pc[i] = "receive" /\ inbox[i] = <<>> => i # k
    BY DEF Referred
  <2> QED
    BY <1>1, <2>1 DEF AnswersInv, GuiInOrder, Meddles, threadVars
<1> QED
  BY <1>3, <1>4, <1>5, <1>6 DEF AnswersInv

LEMMA ReceiveKeepsAnswers ==
  ASSUME AnswersInv, NEW k \in Conn, Receive(k)
  PROVE  AnswersInv'
<1>1. PICK m \in Request :
        /\ request' = [request EXCEPT ![k] = m]
        /\ Goto(k, Entrance(m))
        /\ answer' = [answer EXCEPT ![k] = IF m.command = "E-" THEN "E" ELSE "-"]
  <2>1. Head(inbox[k]) \in Request
    BY DEF Receive, AnswersInv, ServerFunctions
  <2>2. Empty \in Request
    BY DEF Empty, Request, Command
  <2> QED
    BY <2>1, <2>2 DEF Receive
<1>2. /\ Entrance(m) \in Handling
      /\ Entrance(m) = "reply" /\ m.command # "E-" => m.command \in Silent
  BY DEF Entrance, Handling, ProcessStep, ManageStep, Request, Command, Silent
<1>3. inbox' = [inbox EXCEPT ![k] = Tail(@)] /\ inbox[k] # <<>> /\ pc[k] = "receive"
      /\ UNCHANGED <<outbox, threadVars, session>>
  BY DEF Receive, At, modeVars
<1>4. ServerFunctions'
  <2>1. inbox[k] \in Seq(Request) /\ Tail(inbox[k]) \in Seq(Request)
    BY <1>3 DEF AnswersInv, ServerFunctions
  <2>2. inbox' \in [Conn -> Seq(Request)]
    BY <1>3, <2>1 DEF AnswersInv, ServerFunctions
  <2>3. /\ pc' = [i \in Conn |-> pc'[i]]
        /\ request' = [i \in Conn |-> request'[i]]
        /\ answer' = [i \in Conn |-> answer'[i]]
    BY <1>1 DEF AnswersInv, ServerFunctions, Goto
  <2> QED
    BY <1>3, <2>2, <2>3 DEF AnswersInv, ServerFunctions
<1>5. /\ pc'[k] = Entrance(m) /\ request'[k] = m
      /\ answer'[k] = IF m.command = "E-" THEN "E" ELSE "-"
      /\ \A i \in Conn \ {k} : /\ pc'[i] = pc[i] /\ inbox'[i] = inbox[i]
                               /\ outbox'[i] = outbox[i] /\ request'[i] = request[i]
                               /\ answer'[i] = answer[i]
  BY <1>1, <1>3 DEF AnswersInv, ServerFunctions, Goto
<1>6. Served(k)' /\ pc'[k] # "none"
  BY <1>2, <1>5 DEF Served, Handling, ProcessStep, ManageStep
<1>7. pc'[k] = "open" => request'[k].command = "MP"
  BY <1>5 DEF Entrance
<1> QED
  BY <1>2, <1>3, <1>4, <1>5, <1>6, <1>7, ChildKeeps

\* Whatever a handler does, it goes on or has an answer.
LEMMA HandlerKeepsAnswers ==
  ASSUME AnswersInv, NEW k \in Conn, Handler(k)
  PROVE  AnswersInv'
<1>1. pc[k] \in ProcessStep \cup ManageStep
  BY DEF Handler, ProcessHandler, Find, Active, Interrupt, Quit, Kill, HangUp, ManageHandler,
         RunOn, Open, ReadSalt, ReadHash, Truncate, Write, Mount, Unmount, Script, At, ProcessStep,
         ManageStep
<1>2. \/ \E s \in (ProcessStep \cup ManageStep) \ {"open"} : Proceed(k, s)
      \/ \E a \in {"Y", "N", "S", "F"} : Finish(k, a)
      \/ RunOn(k)
  <2>1. CASE ProcessHandler(k)
    BY <2>1
    DEF ProcessHandler, Find, Active, Interrupt, Quit, Kill, HangUp, NotActive, FirstStep,
        SendSignal, Delivered, ProcessStep
  <2>2. CASE ManageHandler(k)
    BY <2>2
    DEF ManageHandler, Open, ReadSalt, ReadHash, Truncate, Write, Mount, Unmount, Script,
        ManageStep
  <2> QED
    BY <2>1, <2>2 DEF Handler
<1>3. UNCHANGED <<threadVars, inbox, outbox, session>>
  BY DEF Handler, wireVars, modeVars
<1>4. pc[k] # "none" /\ pc[k] # "receive"
  BY <1>1 DEF ProcessStep, ManageStep
<1>5. CASE ~RunOn(k)
  <2>1. UNCHANGED request
    BY <1>2, <1>5 DEF Proceed, Finish
  <2>2. /\ pc' = [i \in Conn |-> pc'[i]] /\ answer' = [i \in Conn |-> answer'[i]]
        /\ pc'[k] \in Handling
        /\ pc'[k] = "reply" => answer'[k] # "-"
        /\ pc'[k] # "open"
        /\ \A i \in Conn \ {k} : pc'[i] = pc[i] /\ answer'[i] = answer[i]
    BY <1>2, <1>5
    DEF Proceed, Finish, Goto, AnswersInv, ServerFunctions, Handling, ProcessStep, ManageStep
  <2>3. Served(k)' /\ pc'[k] # "none"
    BY <2>2 DEF Served, Handling, ProcessStep, ManageStep
  <2>4. ServerFunctions'
    BY <1>3, <2>1, <2>2 DEF AnswersInv, ServerFunctions
  <2> QED
    BY <1>3, <1>4, <2>1, <2>2, <2>3, <2>4, ChildKeeps
<1>6. CASE RunOn(k)
  <2>1. pc[k] = "open" /\ (Goto(k, "open") \/ Goto(k, "done")) /\ UNCHANGED answer
    BY <1>6, RunOnGoes DEF AnswersInv, ServerFunctions
  <2>2. /\ pc' = [i \in Conn |-> pc'[i]] /\ pc'[k] \in {"open", "done"}
        /\ \A i \in Conn \ {k} : pc'[i] = pc[i]
    BY <2>1 DEF Goto, AnswersInv, ServerFunctions
  <2>3. /\ request' = [i \in Conn |-> request'[i]]
        /\ \A i \in Conn \ {k} : request'[i] = request[i]
        /\ pc'[k] = "open" => request'[k].command = "MP"
    BY <1>6, <2>1 DEF RunOn, Proceed, AnswersInv, ServerFunctions, SilentOnly
  <2>4. Served(k)'
    <3>1. CASE pc'[k] = "open"
      BY <3>1 DEF Served, Handling, ManageStep
    <3>2. CASE pc'[k] = "done"
      <4>1. Split(k) = 0 /\ UNCHANGED request
        BY <1>6, <2>1, <3>2 DEF RunOn, Proceed
      <4>2. Unanswered(k)
        BY <4>1, <2>1 DEF Unanswered, AnswersInv, SilentOnly
      <4> QED
        BY <3>2, <4>1, <4>2, UnansweredStays DEF Served
    <3> QED
      BY <2>2, <3>1, <3>2
  <2>5. ServerFunctions'
    BY <1>3, <2>1, <2>2, <2>3 DEF AnswersInv, ServerFunctions
  <2> QED
    BY <1>3, <1>4, <2>1, <2>2, <2>3, <2>4, <2>5, ChildKeeps
<1> QED
  BY <1>5, <1>6

LEMMA SendReplyKeeps ==
  ASSUME AnswersInv, NEW k \in Conn, SendReply(k)
  PROVE  AnswersInv'
<1>1. pc[k] = "reply" /\ UNCHANGED <<threadVars, inbox, session, request>>
  BY DEF SendReply, At, modeVars, Leave
<1>2. ServerFunctions'
  BY <1>1 DEF SendReply, Leave, Goto, AnswersInv, ServerFunctions
<1>3. /\ pc'[k] = "done" /\ outbox'[k] = answer[k]
      /\ \A i \in Conn \ {k} :
            pc'[i] = pc[i] /\ answer'[i] = answer[i] /\ outbox'[i] = outbox[i]
  BY DEF SendReply, Leave, Goto, AnswersInv, ServerFunctions
<1>4. Served(k)'
  BY <1>1, <1>3, UnansweredStays DEF AnswersInv, SilentOnly, Served, Unanswered, Silent
<1> QED
  BY <1>1, <1>2, <1>3, <1>4, ChildKeeps

LEMMA OrphanKeeps ==
  ASSUME AnswersInv, NEW k \in Conn, Orphan(k)
  PROVE  AnswersInv'
<1>1. /\ pc[k] = "receive" /\ inbox[k] = <<>> /\ ~Referred(k)
      /\ Goto(k, "done") /\ UNCHANGED <<threadVars, inbox, outbox, session, request, answer>>
  BY DEF Orphan, At, modeVars, wireVars, Proceed
<1>2. /\ ServerFunctions' /\ pc'[k] = "done"
      /\ \A i \in Conn \ {k} : pc'[i] = pc[i]
  BY <1>1 DEF Goto, AnswersInv, ServerFunctions
<1>3. ~Served(k)
  BY <1>1 DEF Served, Handling, ProcessStep, ManageStep
<1> QED
  BY <1>1, <1>2, <1>3, ChildKeeps

-----------------------------------------------------------------------------
\* The threads.

\* Where the child side and the connections stay, only the threads are to be looked at.
LEMMA ServerStays ==
  ASSUME AnswersInv, UNCHANGED <<childVars, wireVars>>
  PROVE  /\ ServerFunctions' /\ SilentOnly'
         /\ \A k \in Conn : Served(k)' = Served(k)
<1>1. ServerFunctions' /\ SilentOnly'
  BY DEF childVars, wireVars, AnswersInv, ServerFunctions, SilentOnly
<1>2. \A k \in Conn : Served(k)' = Served(k)
  BY UnansweredStays DEF childVars, wireVars, Served
<1> QED
  BY <1>1, <1>2

LEMMA StutterKeeps ==
  ASSUME AnswersInv, UNCHANGED <<childVars, threadVars, wireVars, session>>
  PROVE  AnswersInv'
<1>1. ThreadFunctions' /\ Calls'
  BY DEF threadVars, AnswersInv, ThreadFunctions, Calls
<1>2. Unused'
  BY DEF threadVars, childVars, wireVars, AnswersInv, Unused, Referred
<1>3. ClientInOrder'
  BY ServerStays DEF threadVars, AnswersInv, ClientInOrder
<1>4. GuiInOrder'
  BY ServerStays DEF threadVars, childVars, wireVars, AnswersInv, GuiInOrder, Meddles
<1> QED
  BY <1>1, <1>2, <1>3, <1>4, ServerStays DEF AnswersInv

\* A thread of the GUI takes up an operation, goes on to its next message or is done.
LEMMA QuietKeeps ==
  ASSUME AnswersInv, NEW t \in Gui, tpc[t] # "wait",
         UNCHANGED <<childVars, wireVars, session, mine, sd, raced>>,
         NEW s \in {"connect", "idle"}, ThreadGoto(t, s),
         op' = [i \in Thread |-> op'[i]] /\ step' = [i \in Thread |-> step'[i]],
         \A i \in Thread \ {t} : op'[i] = op[i] /\ step'[i] = step[i],
         s = "idle" => step'[t] = 1,
         s = "connect" => op'[t] \in session[t] /\ step'[t] \in 1 .. Len(Messages(op'[t]))
  PROVE  AnswersInv'
<1>1. /\ tpc' = [i \in Thread |-> tpc'[i]] /\ tpc'[t] = s
      /\ \A i \in Thread \ {t} : tpc'[i] = tpc[i]
      /\ t \in Thread /\ t \notin Client
  BY NobodyIsBoth DEF ThreadGoto, AnswersInv, ThreadFunctions
<1>2. ThreadFunctions' /\ Calls'
  BY <1>1 DEF AnswersInv, ThreadFunctions, Calls
<1>3. \A k \in Conn : Referred(k)' = Referred(k)
  BY DEF Referred
<1>4. Unused'
  BY <1>3 DEF AnswersInv, Unused, childVars, wireVars
<1>5. ClientInOrder'
  BY <1>1, ServerStays, NobodyIsBoth DEF AnswersInv, ClientInOrder
<1>6. GuiInOrder'
  BY <1>1, ServerStays, NobodyIsBoth
  DEF AnswersInv, GuiInOrder, Meddles, childVars, wireVars
<1> QED
  BY <1>2, <1>4, <1>5, <1>6, ServerStays DEF AnswersInv

LEMMA BeginKeeps ==
  ASSUME AnswersInv, NEW t \in Thread, NEW o \in session[t], Begin(t, o)
  PROVE  AnswersInv'
<1>1. /\ t \in Gui /\ tpc[t] = "idle" /\ ThreadGoto(t, "connect")
      /\ UNCHANGED <<childVars, wireVars, session, mine, sd, raced, step>>
      /\ op' = [op EXCEPT ![t] = o]
  BY DEF Begin, Promise, modeVars
<1>2. /\ op' = [i \in Thread |-> op'[i]] /\ op'[t] = o
      /\ \A i \in Thread \ {t} : op'[i] = op[i]
      /\ step' = [i \in Thread |-> step'[i]]
  BY <1>1 DEF AnswersInv, ThreadFunctions
<1>3. Messages(o) \in Seq(Request) /\ Messages(o) # <<>>
  BY SessionAssumption DEF AnswersInv, Calls
<1>4. step[t] \in 1 .. Len(Messages(o))
  <2>1. step[t] = 1
    BY <1>1 DEF AnswersInv, Calls
  <2>2. Len(Messages(o)) \in Nat /\ Len(Messages(o)) >= 1
    BY <1>3
  <2> QED
    BY <2>1, <2>2
<1> QED
  BY <1>1, <1>2, <1>4, QuietKeeps

LEMMA JudgeKeeps ==
  ASSUME AnswersInv, NEW t \in Thread, Judge(t)
  PROVE  AnswersInv'
<1>1. /\ tpc[t] = "judge" /\ t \in Gui
      /\ UNCHANGED <<childVars, wireVars, session, mine, sd, raced>>
      /\ NextMessage(t)
  BY NobodyIsBoth DEF Judge, modeVars, AnswersInv, Calls
<1>2. op[t] \in session[t] /\ step[t] \in 1 .. Len(Messages(op[t]))
  BY <1>1 DEF AnswersInv, Calls
<1>3. Len(Messages(op[t])) \in Nat
  BY <1>2, SessionAssumption DEF AnswersInv, Calls
<1>4. CASE GoesOn(op[t], step[t], Yes(t))
  <2>1. step' = [step EXCEPT ![t] = @ + 1] /\ ThreadGoto(t, "connect") /\ UNCHANGED op
    BY <1>1, <1>4 DEF NextMessage
  <2>2. step[t] + 1 \in 1 .. Len(Messages(op[t]))
    BY <1>2, <1>3, <1>4 DEF GoesOn
  <2>3. /\ step' = [i \in Thread |-> step'[i]] /\ step'[t] = step[t] + 1
        /\ \A i \in Thread \ {t} : step'[i] = step[i]
        /\ op' = [i \in Thread |-> op'[i]]
    BY <2>1 DEF AnswersInv, ThreadFunctions
  <2> QED
    BY <1>1, <1>2, <2>1, <2>2, <2>3, QuietKeeps
<1>5. CASE ~GoesOn(op[t], step[t], Yes(t))
  <2>1. End(t)
    BY <1>1, <1>5 DEF NextMessage
  <2>2. /\ step' = [i \in Thread |-> step'[i]] /\ step'[t] = 1
        /\ op' = [i \in Thread |-> op'[i]]
        /\ \A i \in Thread \ {t} : step'[i] = step[i] /\ op'[i] = op[i]
        /\ ThreadGoto(t, "idle")
    BY <2>1 DEF End, AnswersInv, ThreadFunctions
  <2> QED
    BY <1>1, <2>2, QuietKeeps
<1> QED
  BY <1>4, <1>5

LEMMA ReadKeeps ==
  ASSUME AnswersInv, NEW t \in Thread, Read(t)
  PROVE  AnswersInv'
<1>1. /\ tpc[t] = "read" /\ t \in Gui /\ t \notin Client
      /\ UNCHANGED <<childVars, wireVars, session, sd, raced, op, step>>
  BY NobodyIsBoth DEF Read, modeVars, AnswersInv, Calls
<1>2. /\ tpc' = [i \in Thread |-> tpc'[i]]
      /\ \A i \in Thread \ {t} : tpc'[i] = tpc[i] /\ mine'[i] = mine[i]
      /\ mine' = [i \in Thread |-> mine'[i]]
      /\ \/ sd = 0 /\ tpc'[t] = "judge" /\ mine'[t] = 0
         \/ sd # 0 /\ tpc'[t] = "wait" /\ mine'[t] = sd
  BY <1>1 DEF Read, ThreadGoto, AnswersInv, ThreadFunctions, Calls
<1>3. ThreadFunctions' /\ Calls'
  BY <1>1, <1>2 DEF AnswersInv, ThreadFunctions, Calls
<1>4. \A k \in Conn : Referred(k)' => Referred(k)
  BY <1>1, <1>2 DEF Referred, Conn
<1>5. Unused'
  BY <1>1, <1>4 DEF AnswersInv, Unused, childVars, wireVars
<1>6. ClientInOrder'
  BY <1>1, <1>2, ServerStays, NobodyIsBoth DEF AnswersInv, ClientInOrder, Conn
<1>7. GuiInOrder'
  BY <1>1, <1>2, ServerStays, NobodyIsBoth
  DEF AnswersInv, GuiInOrder, Meddles, childVars, wireVars
<1> QED
  BY <1>1, <1>3, <1>5, <1>6, <1>7, ServerStays DEF AnswersInv

LEMMA SendKeeps ==
  ASSUME AnswersInv, NEW t \in Thread, Send(t)
  PROVE  AnswersInv'
<1>1. /\ tpc[t] = "send" /\ t \in Gui /\ t \notin Client
      /\ UNCHANGED <<childVars, outbox, session, sd, raced, mine>>
  BY NobodyIsBoth DEF Send, modeVars, AnswersInv, Calls
<1>2. op[t] \in session[t] /\ step[t] \in 1 .. Len(Messages(op[t]))
  BY <1>1 DEF AnswersInv, Calls
<1>3. Messages(op[t])[step[t]] \in Request
  BY <1>2, SessionAssumption DEF AnswersInv, Calls
<1>4. /\ tpc' = [i \in Thread |-> tpc'[i]]
      /\ op' = [i \in Thread |-> op'[i]] /\ step' = [i \in Thread |-> step'[i]]
      /\ \A i \in Thread \ {t} : tpc'[i] = tpc[i] /\ op'[i] = op[i] /\ step'[i] = step[i]
      /\ \/ sd = 0 /\ tpc'[t] = "idle" /\ step'[t] = 1
         \/ tpc'[t] = "read" /\ op'[t] = op[t] /\ step'[t] = step[t]
  BY DEF Send, End, ThreadGoto, AnswersInv, ThreadFunctions
<1>5. ThreadFunctions' /\ Calls'
  BY <1>1, <1>2, <1>4 DEF AnswersInv, ThreadFunctions, Calls
<1>6. \/ UNCHANGED inbox /\ (sd # 0 => pc[sd] = "done")
      \/ /\ sd \in Conn
         /\ inbox' = [inbox EXCEPT ![sd] = Append(@, Messages(op[t])[step[t]])]
  BY DEF Send, At, AnswersInv, ThreadFunctions, Conn
<1>7. /\ inbox' \in [Conn -> Seq(Request)]
      /\ \A k \in Conn : inbox[k] # <<>> => inbox'[k] # <<>>
      /\ \A k \in Conn \ {sd} : inbox'[k] = inbox[k]
      /\ sd \in Conn => inbox'[sd] # <<>> \/ pc[sd] = "done"
  <2>1. CASE UNCHANGED inbox /\ (sd # 0 => pc[sd] = "done")
    BY <2>1 DEF AnswersInv, ServerFunctions, Conn
  <2>2. CASE sd \in Conn /\ inbox' = [inbox EXCEPT ![sd] = Append(@, Messages(op[t])[step[t]])]
    <3>1. inbox[sd] \in Seq(Request)
      BY <2>2 DEF AnswersInv, ServerFunctions
    <3>2. /\ Append(inbox[sd], Messages(op[t])[step[t]]) \in Seq(Request)
          /\ Append(inbox[sd], Messages(op[t])[step[t]]) # <<>>
      BY <1>3, <3>1
    <3> QED
      BY <2>2, <3>2 DEF AnswersInv, ServerFunctions
  <2> QED
    BY <1>6, <2>1, <2>2
<1>8. ServerFunctions' /\ SilentOnly' /\ \A k \in Conn : Served(k) => Served(k)'
  BY <1>1, <1>7, UnansweredStays DEF AnswersInv, ServerFunctions, SilentOnly, Served, childVars
<1>9. \A k \in Conn : Referred(k)' = Referred(k) /\ (k = sd => Referred(k))
  BY <1>1 DEF Referred
<1>10. Unused'
  BY <1>1, <1>7, <1>9 DEF AnswersInv, Unused, childVars
<1>11. ClientInOrder'
  BY <1>1, <1>4, <1>8, NobodyIsBoth DEF AnswersInv, ClientInOrder
<1>12. GuiInOrder'
  <2>1. ~raced => sd \in Conn /\ pc[sd] = "receive"
    BY <1>1 DEF AnswersInv, GuiInOrder
  <2>2. ~raced => Served(sd)'
    BY <1>1, <1>7, <2>1 DEF Served, childVars
  <2>3. ~raced => tpc'[t] = "read"
    BY <1>4, <2>1 DEF Conn
  <2> QED
    BY <1>1, <1>4, <2>1, <2>2, <2>3, NobodyIsBoth DEF AnswersInv, GuiInOrder, Meddles
<1> QED
  BY <1>5, <1>8, <1>10, <1>11, <1>12 DEF AnswersInv

LEMMA WaitKeeps ==
  ASSUME AnswersInv, NEW t \in Thread, Wait(t)
  PROVE  AnswersInv'
<1> DEFINE k == mine[t]
<1>1. /\ tpc[t] = "wait"
      /\ UNCHANGED <<childVars, inbox, session, sd, raced>>
      /\ outbox' = [outbox EXCEPT ![k] = "-"]
      /\ mine' = [mine EXCEPT ![t] = 0]
  BY DEF Wait, modeVars
<1>2. /\ tpc' = [i \in Thread |-> tpc'[i]]
      /\ op' = [i \in Thread |-> op'[i]] /\ step' = [i \in Thread |-> step'[i]]
      /\ \A i \in Thread \ {t} : tpc'[i] = tpc[i] /\ op'[i] = op[i] /\ step'[i] = step[i]
      /\ \/ t \in Client /\ tpc'[t] = "idle" /\ step'[t] = 1
         \/ t \in Gui /\ tpc'[t] = "judge" /\ op'[t] = op[t] /\ step'[t] = step[t]
  BY NobodyIsBoth DEF Wait, End, ThreadGoto, AnswersInv, ThreadFunctions
<1>3. /\ mine' = [i \in Thread |-> mine'[i]] /\ mine'[t] = 0
      /\ \A i \in Thread \ {t} : mine'[i] = mine[i]
  BY <1>1 DEF AnswersInv, ThreadFunctions
<1>4. ThreadFunctions' /\ Calls'
  <2>1. ThreadFunctions'
    BY <1>1, <1>2, <1>3 DEF AnswersInv, ThreadFunctions
  <2>2. Calls'
    BY <1>1, <1>2, <1>3, NobodyIsBoth DEF AnswersInv, Calls
  <2> QED
    BY <2>1, <2>2
<1>5. ServerFunctions' /\ SilentOnly'
  BY <1>1 DEF AnswersInv, ServerFunctions, SilentOnly, childVars
<1>6. \A i \in Conn : i # k => outbox'[i] = outbox[i]
  BY <1>1 DEF AnswersInv, ServerFunctions
<1>7. \A i \in Conn : i # k /\ Served(i) => Served(i)'
  BY <1>1, <1>6, UnansweredStays DEF Served, childVars
<1>8. Unused'
  BY <1>1, <1>3 DEF AnswersInv, Unused, Referred, Conn, childVars
<1>9. ClientInOrder'
  <2> SUFFICES ASSUME NEW c \in Client, tpc'[c] = "wait"
               PROVE  /\ mine'[c] \in Conn /\ Served(mine[c])'
                      /\ sd' # mine'[c]
                      /\ \A i \in Thread \ {c} : mine'[i] # mine'[c]
    BY DEF ClientInOrder
  <2>1. c # t /\ c \in Thread /\ tpc[c] = "wait"
    BY <1>2, NobodyIsBoth
  <2>2. /\ mine[c] \in Conn /\ Served(mine[c])
        /\ sd # mine[c]
        /\ \A i \in Thread \ {c} : mine[i] # mine[c]
    BY <2>1 DEF AnswersInv, ClientInOrder
  <2>3. mine'[c] = mine[c] /\ mine[c] # k
    BY <1>3, <2>1, <2>2
  <2>4. Served(mine[c])'
    BY <1>7, <2>2, <2>3
  <2> QED
    BY <1>1, <1>3, <2>1, <2>2, <2>3, <2>4 DEF Conn
<1>10. GuiInOrder'
  <2> SUFFICES ASSUME ~raced
               PROVE  GuiInOrder'
    BY <1>1 DEF GuiInOrder
  <2>1. CASE t \in Gui
    <3>1. \A u \in Gui \ {t} : ~Meddles(u)
      BY <1>1, <2>1 DEF AnswersInv, GuiInOrder, Meddles
    <3> QED
      BY <1>1, <1>2, <2>1, <3>1, NobodyIsBoth DEF GuiInOrder, Meddles
  <2>2. CASE t \in Client
    <3>1. sd # k
      BY <1>1, <2>2 DEF AnswersInv, ClientInOrder
    <3> QED
      BY <1>1, <1>2, <1>3, <1>7, <2>2, <3>1, NobodyIsBoth
      DEF AnswersInv, GuiInOrder, Meddles, childVars
  <2> QED
    BY <2>1, <2>2, NobodyIsBoth
<1> QED
  BY <1>4, <1>5, <1>8, <1>9, <1>10 DEF AnswersInv

\* A connection that is made is nobody's, and holds nothing.
LEMMA AcceptFresh ==
  ASSUME AnswersInv, NEW k \in Conn, Accept(k), UNCHANGED outbox,
         inbox' \in [Conn -> Seq(Request)],
         \A i \in Conn \ {k} : inbox'[i] = inbox[i]
  PROVE  /\ ServerFunctions' /\ SilentOnly'
         /\ pc'[k] \in {"receive", "done"} /\ \A i \in Conn \ {k} : pc'[i] = pc[i]
         /\ inbox[k] = <<>> /\ ~Referred(k)
         /\ \A i \in Conn : Served(i) => i # k /\ Served(i)'
<1>1. /\ pc[k] = "none" /\ UNCHANGED <<request, answer>>
      /\ Goto(k, "receive") \/ Goto(k, "done")
  BY DEF Accept, At, Proceed
<1>2. /\ pc' = [i \in Conn |-> pc'[i]]
      /\ pc'[k] \in {"receive", "done"} /\ \A i \in Conn \ {k} : pc'[i] = pc[i]
  BY <1>1 DEF Goto, AnswersInv, ServerFunctions
<1>3. inbox[k] = <<>> /\ ~Referred(k)
  BY <1>1 DEF AnswersInv, Unused
<1>4. ServerFunctions' /\ SilentOnly'
  BY <1>1, <1>2 DEF AnswersInv, ServerFunctions, SilentOnly
<1>5. ~Served(k)
  BY <1>1 DEF Served, Handling, ProcessStep, ManageStep
<1>6. \A i \in Conn \ {k} : Served(i) => Served(i)'
  BY <1>1, <1>2, UnansweredStays DEF Served
<1> QED
  BY <1>2, <1>3, <1>4, <1>5, <1>6

LEMMA ConnectKeeps ==
  ASSUME AnswersInv, NEW t \in Thread, Connect(t)
  PROVE  AnswersInv'
<1>1. /\ tpc[t] = "connect" /\ t \in Gui /\ t \notin Client
      /\ UNCHANGED <<wireVars, session, mine, op, step>>
      /\ raced' = (raced \/ Busy(t))
  BY NobodyIsBoth DEF Connect, modeVars, AnswersInv, Calls
<1>2. ThreadGoto(t, IF sd' = 0 THEN "read" ELSE "send")
  BY DEF Connect
<1>3. /\ tpc' = [i \in Thread |-> tpc'[i]]
      /\ tpc'[t] = IF sd' = 0 THEN "read" ELSE "send"
      /\ \A i \in Thread \ {t} : tpc'[i] = tpc[i]
  BY <1>2 DEF ThreadGoto, AnswersInv, ThreadFunctions
<1>4. raced' \in BOOLEAN
  BY <1>1 DEF AnswersInv, ThreadFunctions
<1>5. \/ sd' = 0 /\ UNCHANGED childVars
      \/ \E k \in Conn : Accept(k) /\ sd' = IF pc'[k] = "receive" THEN k ELSE 0
  BY DEF Connect
<1>6. /\ ServerFunctions' /\ SilentOnly'
      /\ \A i \in Conn : Served(i) => Served(i)'
      /\ \A i \in Conn : pc'[i] = "none" => pc[i] = "none" /\ sd' # i
      /\ sd' \in 0 .. MaxConn
      /\ sd' # 0 => /\ sd' \in Conn /\ pc'[sd'] = "receive" /\ inbox'[sd'] = <<>>
                    /\ \A i \in Thread : mine[i] # sd'
  <2>1. CASE sd' = 0 /\ UNCHANGED childVars
    BY <1>1, <2>1, ServerStays, ConnAssumption DEF childVars, Conn
  <2>2. CASE \E k \in Conn : Accept(k) /\ sd' = IF pc'[k] = "receive" THEN k ELSE 0
    <3>1. PICK k \in Conn : Accept(k) /\ sd' = IF pc'[k] = "receive" THEN k ELSE 0
      BY <2>2
    <3>2. /\ UNCHANGED <<inbox, outbox>>
          /\ inbox' \in [Conn -> Seq(Request)]
      BY <1>1 DEF wireVars, AnswersInv, ServerFunctions
    <3>3. /\ ServerFunctions' /\ SilentOnly'
          /\ pc'[k] \in {"receive", "done"} /\ \A i \in Conn \ {k} : pc'[i] = pc[i]
          /\ inbox[k] = <<>> /\ ~Referred(k)
          /\ \A i \in Conn : Served(i) => i # k /\ Served(i)'
      BY <3>1, <3>2, AcceptFresh
    <3> QED
      BY <3>1, <3>2, <3>3, ConnAssumption DEF Conn, Referred
  <2> QED
    BY <1>5, <2>1, <2>2
<1>7. ThreadFunctions' /\ Calls'
  BY <1>1, <1>3, <1>4, <1>6 DEF AnswersInv, ThreadFunctions, Calls
<1>8. Unused'
  BY <1>1, <1>6 DEF AnswersInv, Unused, Referred, wireVars
<1>9. ClientInOrder'
  BY <1>1, <1>3, <1>6, NobodyIsBoth DEF AnswersInv, ClientInOrder, Conn
<1>10. GuiInOrder'
  <2> SUFFICES ASSUME ~raced, ~Busy(t)
               PROVE  GuiInOrder'
    BY <1>1 DEF GuiInOrder
  <2>1. \A u \in Gui \ {t} : ~Meddles(u)
    BY DEF Busy, Meddles
  <2> QED
    BY <1>1, <1>3, <1>6, <2>1, NobodyIsBoth DEF GuiInOrder, Meddles
<1> QED
  BY <1>6, <1>7, <1>8, <1>9, <1>10 DEF AnswersInv

LEMMA ClientCallsKeeps ==
  ASSUME AnswersInv, NEW t \in Thread, NEW o \in session[t], ClientCalls(t, o)
  PROVE  AnswersInv'
<1>1. PICK k \in Conn :
        /\ Accept(k)
        /\ IF pc'[k] = "receive"
           THEN /\ inbox' = [inbox EXCEPT ![k] = Messages(o)]
                /\ mine' = [mine EXCEPT ![t] = k]
                /\ ThreadGoto(t, "wait")
           ELSE UNCHANGED <<inbox, mine, tpc>>
  BY DEF ClientCalls
<1>2. /\ tpc[t] = "idle" /\ t \in Client /\ t \notin Gui
      /\ UNCHANGED <<outbox, session, sd, raced, step>>
      /\ op' = [op EXCEPT ![t] = o]
  BY NobodyIsBoth DEF ClientCalls, Promise, modeVars
<1>3. Messages(o) \in Seq(Request) /\ Messages(o) # <<>>
  BY SessionAssumption DEF AnswersInv, Calls
<1>4. /\ inbox' \in [Conn -> Seq(Request)]
      /\ \A i \in Conn \ {k} : inbox'[i] = inbox[i]
      /\ pc'[k] = "receive" => inbox'[k] # <<>>
  BY <1>1, <1>3 DEF AnswersInv, ServerFunctions
<1>5. /\ ServerFunctions' /\ SilentOnly'
      /\ pc'[k] \in {"receive", "done"} /\ \A i \in Conn \ {k} : pc'[i] = pc[i]
      /\ inbox[k] = <<>> /\ ~Referred(k)
      /\ \A i \in Conn : Served(i) => i # k /\ Served(i)'
  BY <1>1, <1>2, <1>4, AcceptFresh
<1>6. /\ tpc' = [i \in Thread |-> tpc'[i]] /\ mine' = [i \in Thread |-> mine'[i]]
      /\ op' = [i \in Thread |-> op'[i]]
      /\ \A i \in Thread \ {t} : tpc'[i] = tpc[i] /\ op'[i] = op[i] /\ mine'[i] = mine[i]
      /\ \/ tpc'[t] = "wait" /\ mine'[t] = k /\ pc'[k] = "receive"
         \/ tpc'[t] = "idle" /\ mine'[t] = 0
  BY <1>1, <1>2 DEF ThreadGoto, AnswersInv, ThreadFunctions, Calls
<1>7. ThreadFunctions'
  BY <1>2, <1>6 DEF AnswersInv, ThreadFunctions
<1>8. Calls'
  BY <1>2, <1>6, NobodyIsBoth DEF AnswersInv, Calls
<1>9. Unused'
  BY <1>2, <1>4, <1>5, <1>6 DEF AnswersInv, Unused, Referred, Conn
<1>10. ClientInOrder'
  <2> SUFFICES ASSUME NEW c \in Client, tpc'[c] = "wait"
               PROVE  /\ mine'[c] \in Conn /\ Served(mine[c])'
                      /\ sd' # mine'[c]
                      /\ \A i \in Thread \ {c} : mine'[i] # mine'[c]
    BY DEF ClientInOrder
  <2>1. \A i \in Thread : mine[i] # k
    BY <1>5 DEF Referred
  <2>2. CASE c = t
    <3>1. mine'[c] = k /\ pc'[k] = "receive" /\ inbox'[k] # <<>> /\ sd # k
      BY <1>4, <1>5, <1>6, <2>2 DEF Referred
    <3>2. Served(mine[c])'
      BY <3>1 DEF Served
    <3> QED
      BY <1>2, <1>6, <2>1, <2>2, <3>1, <3>2
  <2>3. CASE c # t
    <3>1. c \in Thread /\ tpc[c] = "wait" /\ mine'[c] = mine[c]
      BY <1>6, <2>3, NobodyIsBoth
    <3>2. /\ mine[c] \in Conn /\ Served(mine[c])
          /\ sd # mine[c]
          /\ \A i \in Thread \ {c} : mine[i] # mine[c]
      BY <3>1 DEF AnswersInv, ClientInOrder
    <3>3. Served(mine[c])'
      <4>1. \A i \in Conn : Served(i) /\ mine'[c] = i => Served(mine[c])'
        BY <1>5 DEF Served
      <4> QED
        BY <3>1, <3>2, <4>1
    <3> QED
      BY <1>2, <1>6, <2>1, <2>3, <3>1, <3>2, <3>3 DEF Conn
  <2> QED
    BY <2>2, <2>3
<1>11. GuiInOrder'
  <2>1. sd # k
    BY <1>5 DEF Referred
  <2>2. \A u \in Gui : tpc'[u] = tpc[u] /\ mine'[u] = mine[u]
    BY <1>2, <1>6, NobodyIsBoth
  <2>3. \A i \in Conn : i = sd => pc'[i] = pc[i] /\ inbox'[i] = inbox[i]
    BY <1>4, <1>5, <2>1
  <2>4. \A i \in Conn : Served(i) => Served(i)'
    BY <1>5
  <2>5. UNCHANGED <<sd, raced>>
    BY <1>2
  <2> QED
    BY <2>2, <2>3, <2>4, <2>5 DEF AnswersInv, GuiInOrder, Meddles
<1> QED
  BY <1>5, <1>7, <1>8, <1>9, <1>10, <1>11 DEF AnswersInv

\* A reboot leaves no child and no call.
LEMMA RebootKeepsAnswers ==
  ASSUME AnswersInv, Reboot
  PROVE  AnswersInv'
<1>1. ServerFunctions' /\ SilentOnly'
      /\ \A k \in Conn : pc'[k] = "none" /\ inbox'[k] = <<>>
  BY DEF Reboot, ChildReboot, WireReboot, Each, ServerFunctions, SilentOnly
<1>2. ThreadFunctions' /\ sd' = 0
      /\ \A t \in Thread : tpc'[t] = "idle" /\ step'[t] = 1 /\ mine'[t] = 0
  <2>1. sd' = 0 /\ raced' = FALSE
    BY DEF Reboot, ThreadReboot
  <2>2. /\ tpc' = [t \in Thread |-> "idle"] /\ op' = [t \in Thread |-> Nothing]
        /\ step' = [t \in Thread |-> 1] /\ mine' = [t \in Thread |-> 0]
    BY DEF Reboot, ThreadReboot, EachThread
  <2>3. 0 \in 0 .. MaxConn
    BY ConnAssumption
  <2> QED
    BY <2>1, <2>2, <2>3 DEF ThreadFunctions
<1>3. session' \in Sessions
  BY DEF Reboot, AnswersInv, Calls
<1> QED
  BY <1>1, <1>2, <1>3, NobodyIsBoth
  DEF AnswersInv, Calls, Unused, Referred, Conn, ClientInOrder, GuiInOrder, Meddles

\* A GUI that starts again has no connection; the clients keep theirs.
LEMMA RestartKeepsAnswers ==
  ASSUME AnswersInv, GuiRestarts
  PROVE  AnswersInv'
<1>1. /\ UNCHANGED <<childVars, wireVars, session>>
      /\ sd' = 0 /\ raced' = FALSE
  BY DEF GuiRestarts
<1>2. /\ tpc' = [t \in Thread |-> tpc'[t]] /\ op' = [t \in Thread |-> op'[t]]
      /\ step' = [t \in Thread |-> step'[t]] /\ mine' = [t \in Thread |-> mine'[t]]
      /\ \A t \in Gui : tpc'[t] = "idle" /\ step'[t] = 1 /\ mine'[t] = 0
      /\ \A t \in Client : /\ tpc'[t] = tpc[t] /\ step'[t] = step[t]
                           /\ mine'[t] = mine[t] /\ op'[t] = op[t]
  BY NobodyIsBoth DEF GuiRestarts
<1>3. ThreadFunctions'
  <2>1. 0 \in 0 .. MaxConn
    BY ConnAssumption
  <2> QED
    BY <1>1, <1>2, <2>1 DEF ThreadFunctions
<1>4. Calls'
  BY <1>1, <1>2, NobodyIsBoth DEF AnswersInv, Calls
<1>5. \A k \in Conn : Referred(k)' => Referred(k)
  BY <1>1, <1>2, NobodyIsBoth DEF Referred, Conn
<1>6. Unused'
  BY <1>1, <1>5 DEF AnswersInv, Unused, childVars, wireVars
<1>7. ClientInOrder'
  BY <1>1, <1>2, ServerStays, NobodyIsBoth DEF AnswersInv, ClientInOrder, Conn
<1>8. GuiInOrder'
  BY <1>2 DEF GuiInOrder, Meddles
<1> QED
  BY <1>1, <1>3, <1>4, <1>6, <1>7, <1>8, ServerStays DEF AnswersInv

LEMMA AnswersNext == AnswersInv /\ [Next]_vars => AnswersInv'
<1> SUFFICES ASSUME AnswersInv, [Next]_vars
             PROVE  AnswersInv'
  OBVIOUS
<1>1. CASE Server
  BY <1>1, ReceiveKeepsAnswers, HandlerKeepsAnswers, SendReplyKeeps DEF Server
<1>2. ASSUME NEW t \in Thread, InCall(t)
      PROVE  AnswersInv'
  BY <1>2, ConnectKeeps, SendKeeps, ReadKeeps, WaitKeeps, JudgeKeeps DEF InCall
<1>3. CASE Users
  BY <1>3, BeginKeeps, ClientCallsKeeps DEF Users
<1>4. CASE Surroundings
  BY <1>4, OrphanKeeps, RestartKeepsAnswers, RebootKeepsAnswers, StutterKeeps
  DEF Surroundings, modeVars
<1>5. CASE UNCHANGED vars
  BY <1>5, StutterKeeps DEF vars, modeVars
<1> QED
  BY <1>1, <1>2, <1>3, <1>4, <1>5 DEF Next

\* sendMessage() hangs only when two threads of the GUI shared the socket field, or on a
\* request that was read and is one the daemon does not answer (HungOnlyIf): too long,
\* AK, or a password request without a "#".  No reply is lost or taken by another in any
\* other way, whatever client.c is told to send.
THEOREM OnlyNamedHangs == Spec => []HungOnlyIf
  BY AnswersInit, AnswersNext, AnswersHold, PTL DEF Spec
-----------------------------------------------------------------------------
(***************************************************************************)
(* The types of all variables.  What a child writes into /etc/shadow is    *)
(* cut out of its request, so the place of the first "#" has to be in it;  *)
(* what a thread sends is a message of its operation, and what it reads    *)
(* comes from a connection that exists.                                    *)
(***************************************************************************)

\* The order of the natural numbers, as a relation.
Below == OpToRel(<, Nat)

\* A set of numbers has a least one.
LEMMA LeastPlace ==
  ASSUME NEW I, I \subseteq Nat, I # {}
  PROVE  Min(I) \in I
<1>1. IsWellFoundedOn(Below, Nat)
  BY NatLessThanWellFounded DEF Below
<1>2. \A x, y \in Nat : <<x, y>> \in Below <=> x < y
  BY DEF OpToRel, Below
<1>3. PICK x \in I : \A y \in I : <<y, x>> \notin Below
  BY <1>1, WFMin
<1>4. \A y \in I : x \in Nat /\ y \in Nat /\ ~(y < x)
  BY <1>2, <1>3
<1>5. \A y \in I : x =< y
  BY <1>4
<1> QED
  BY <1>5 DEF Min

\* The password behind the "#" is made of the words of the text.
LEMMA NewPasswordText ==
  ASSUME NEW k \in Conn, request[k].text \in Seq(Atom)
  PROVE  NewPassword(k) \in Seq(Atom)
<1> DEFINE text == request[k].text
           I == {i \in 1 .. Len(text) : text[i] = Hash}
<1>1. Split(k) = IF I # {} THEN Min(I) ELSE 0
  BY DEF Split, SelectInSeq
<1>2. Split(k) \in Nat
  <2>1. CASE I = {}
    BY <1>1, <2>1
  <2>2. CASE I # {}
    <3>1. I \subseteq Nat
      OBVIOUS
    <3>2. Min(I) \in I
      BY <2>2, <3>1, LeastPlace
    <3> QED
      BY <1>1, <2>2, <3>1, <3>2
  <2> QED
    BY <2>1, <2>2
<1>3. \A i \in Split(k) + 1 .. Len(text) : text[i] \in Atom
  BY <1>2
<1> QED
  BY <1>2, <1>3, SubSeqProperties DEF NewPassword

-----------------------------------------------------------------------------
Steps == ServerStep \cup ProcessStep \cup ManageStep

LEMMA ProceedTypes ==
  ASSUME ChildTypeOK, NEW k \in Conn, NEW s \in Steps, Proceed(k, s)
  PROVE  ChildTypeOK'
  BY DEF ChildTypeOK, Proceed, Goto, Steps

LEMMA FinishTypes ==
  ASSUME ChildTypeOK, NEW k \in Conn, NEW a \in Reply, Finish(k, a)
  PROVE  ChildTypeOK'
<1>1. "reply" \in Steps
  BY DEF Steps, ServerStep
<1> QED
  BY <1>1 DEF ChildTypeOK, Finish, Goto, Steps

\* The handler of PROCESS requests: a signal is meant for a program that has a name.
LEMMA DeliveredTypes ==
  ASSUME ProcessTypeOK, ChildTypeOK, ProcessInv, NEW k \in Conn, pc[k] \in Signalling,
         Delivered(k)
  PROVE  ProcessTypeOK' /\ ChildTypeOK'
<1>1. Meant(k) \in Atom /\ target[k] \in Pid
  BY ProgramAssumption DEF ProcessInv, TargetsTell, Signalling, Holding, ProcessTypeOK
<1>2. runs[target[k]] \in Named \cup {"other"}
  BY <1>1 DEF Delivered, ProcessTypeOK
<1>3. struck' \subseteq Signal
  <2> DEFINE s == [meant |-> Meant(k), victim |-> runs[target[k]],
                   misread |-> k \in misread, freed |-> target[k] \in freed]
  <2>1. struck' = struck \cup {s}
    BY DEF Delivered
  <2>2. (k \in misread) \in BOOLEAN /\ (target[k] \in freed) \in BOOLEAN
    OBVIOUS
  <2>3. s \in Signal
    BY <1>1, <1>2, <2>2 DEF Signal
  <2> QED
    BY <2>1, <2>3 DEF ProcessTypeOK
<1>4. runs' \in [Pid -> Named \cup {"free", "other"}]
  BY <1>1 DEF Delivered, ProcessTypeOK
<1>5. ChildTypeOK'
  BY FinishTypes DEF Delivered, Reply
<1> QED
  BY <1>3, <1>4, <1>5 DEF Delivered, ProcessTypeOK

LEMMA ProcessHandlerTypes ==
  ASSUME ProcessTypeOK, ChildTypeOK, ProcessInv, NEW k \in Conn, ProcessHandler(k)
  PROVE  ProcessTypeOK' /\ ChildTypeOK'
<1>1. ASSUME NEW a \in {"Y", "N", "S", "F"}, Finish(k, a)
      PROVE  ChildTypeOK'
  BY <1>1, FinishTypes DEF Reply
<1>2. ASSUME NEW s \in ProcessStep, Proceed(k, s)
      PROVE  ChildTypeOK'
  BY <1>2, ProceedTypes DEF Steps
<1>3. NotActive(k) => ChildTypeOK'
  BY <1>1 DEF NotActive
<1>4. CASE Find(k)
  <2>1. CASE NotActive(k) /\ UNCHANGED <<target, misread>>
    BY <1>3, <1>4, <2>1 DEF Find, ProcessTypeOK
  <2>2. CASE /\ Meant(k) \in Named /\ pidfile[Meant(k)] # Absent
             /\ target' = [target EXCEPT ![k] = Overlay[pidfile[Meant(k)]]]
             /\ misread' = IF Overlay[pidfile[Meant(k)]] # pidfile[Meant(k)]
                           THEN misread \cup {k} ELSE misread
             /\ Proceed(k, "active")
    <3>1. Overlay[pidfile[Meant(k)]] \in Pid
      BY <2>2, OverlayAssumption DEF ProcessTypeOK
    <3>2. ChildTypeOK'
      BY <1>2, <2>2 DEF ProcessStep
    <3> QED
      BY <1>4, <2>2, <3>1, <3>2 DEF Find, ProcessTypeOK
  <2> QED
    BY <1>4, <2>1, <2>2 DEF Find
<1>5. CASE Active(k)
  <2>1. ChildTypeOK'
    BY <1>1, <1>2, <1>3, <1>5 DEF Active, FirstStep, ProcessStep
  <2> QED
    BY <1>5, <2>1 DEF Active, processVars, ProcessTypeOK
<1>6. CASE Interrupt(k) \/ Quit(k) \/ Kill(k) \/ HangUp(k)
  <2>1. CASE Delivered(k)
    BY <1>6, <2>1, DeliveredTypes DEF Interrupt, Quit, Kill, HangUp, At, Signalling
  <2>2. CASE /\ UNCHANGED processVars
             /\ Proceed(k, "quit") \/ Proceed(k, "kill") \/ Finish(k, "F")
    <3>1. ChildTypeOK'
      BY <1>1, <1>2, <2>2 DEF ProcessStep
    <3> QED
      BY <2>2, <3>1 DEF processVars, ProcessTypeOK
  <2> QED
    BY <1>6, <2>1, <2>2 DEF Interrupt, Quit, Kill, HangUp, SendSignal
<1> QED
  BY <1>4, <1>5, <1>6 DEF ProcessHandler

\* The programs.
LEMMA ProgramTypes ==
  ASSUME ProcessTypeOK, Programs
  PROVE  ProcessTypeOK'
<1>1. ASSUME Change
      PROVE  changes' \in 0 .. MaxChanges
  BY <1>1, ChangesAssumption DEF Change, ProcessTypeOK
<1>2. ASSUME NEW n \in Program, NEW i \in Pid, ProgramStarts(n, i) \/ ProgramWritesPid(n, i)
      PROVE  ProcessTypeOK'
  BY <1>1, <1>2 DEF ProgramStarts, ProgramWritesPid, ProcessTypeOK, Named, Content
<1>3. ASSUME NEW i \in Pid, ProgramEnds(i) \/ OtherStarts(i)
      PROVE  ProcessTypeOK'
  BY <1>1, <1>3 DEF ProgramEnds, OtherStarts, ProcessTypeOK
<1> QED
  BY <1>2, <1>3 DEF Programs

\* The handler of MANAGE requests.
LEMMA EntryIsFile ==
  ASSUME NEW e \in Entry
  PROVE  <<e>> \in File
  BY DEF File

LEMMA EmptyIsFile == <<>> \in File
  BY DEF File

LEMMA ShadowTypes ==
  ASSUME ManageTypeOK, NEW file \in File, ShadowBecomes(file),
         UNCHANGED <<disk, salt, mounted>>
  PROVE  ManageTypeOK'
  BY DEF ManageTypeOK, ShadowBecomes

\* What a request runs on into is made of words as well.
LEMMA RunOnTypes ==
  ASSUME ManageTypeOK, ChildTypeOK, NEW k \in Conn, RunOn(k)
  PROVE  ManageTypeOK' /\ ChildTypeOK'
<1>1. ASSUME NEW behind \in Behind,
             request' = [request EXCEPT ![k] =
                 [command |-> @.command, text |-> @.text \o <<Hash>> \o behind]],
             UNCHANGED <<pc, answer, manageVars>>
      PROVE  ManageTypeOK' /\ ChildTypeOK'
  <2> DEFINE R == [command : Command \cup {"none"}, text : Seq(Atom)]
             text == request[k].text \o <<Hash>> \o behind
  <2>1. request[k] \in R /\ request[k].text \in Seq(Atom)
    BY DEF ChildTypeOK
  <2>2. text \in Seq(Atom)
    BY <2>1, HashAssumption, BehindAssumption
  <2>3. [command |-> request[k].command, text |-> text] \in R
    BY <2>1, <2>2
  <2>4. request' \in [Conn -> R]
    BY <1>1, <2>3 DEF ChildTypeOK
  <2> QED
    BY <1>1, <2>4 DEF ChildTypeOK, ManageTypeOK, manageVars
<1>2. ASSUME Proceed(k, "done"), seen' = [seen EXCEPT ![k] = {}],
             UNCHANGED <<shadow, disk, salt, mounted>>
      PROVE  ManageTypeOK' /\ ChildTypeOK'
  <2>1. ChildTypeOK'
    BY <1>2, ProceedTypes DEF Steps, ServerStep
  <2> QED
    BY <1>2, <2>1 DEF ManageTypeOK
<1> QED
  BY <1>1, <1>2 DEF RunOn

LEMMA ManageHandlerTypes ==
  ASSUME ManageTypeOK, ChildTypeOK, NEW k \in Conn, ManageHandler(k)
  PROVE  ManageTypeOK' /\ ChildTypeOK'
<1>1. ASSUME NEW a \in {"S", "F"}, Finish(k, a)
      PROVE  ChildTypeOK'
  BY <1>1, FinishTypes DEF Reply
<1>2. ASSUME NEW s \in ManageStep, Proceed(k, s)
      PROVE  ChildTypeOK'
  BY <1>2, ProceedTypes DEF Steps
<1>3. CASE Open(k) \/ ReadHash(k) \/ Script(k)
  <2>1. ChildTypeOK'
    BY <1>1, <1>2, <1>3 DEF Open, ReadHash, Script, ManageStep
  <2> QED
    BY <1>3, <2>1 DEF Open, ReadHash, Script, manageVars, ManageTypeOK
<1>4. CASE ReadSalt(k)
  <2>1. ChildTypeOK'
    BY <1>2, <1>4 DEF ReadSalt, ManageStep
  <2> QED
    BY <1>4, <2>1 DEF ReadSalt, ManageTypeOK
<1>5. CASE Truncate(k)
  <2>1. ChildTypeOK'
    BY <1>2, <1>5 DEF Truncate, ManageStep
  <2> QED
    BY <1>5, <2>1, EmptyIsFile, ShadowTypes DEF Truncate
<1>6. CASE Write(k)
  <2>1. ChildTypeOK'
    BY <1>1, <1>6 DEF Write
  <2>2. NewPassword(k) \in Seq(Atom)
    BY NewPasswordText DEF ChildTypeOK
  <2>3. [password |-> NewPassword(k), writer |-> k] \in Entry
    BY <2>2, ConnAssumption DEF Entry, Conn
  <2> QED
    BY <1>6, <2>1, <2>3, EntryIsFile, ShadowTypes DEF Write
<1>7. CASE Mount(k) \/ Unmount(k)
  <2>1. ChildTypeOK'
    BY <1>1, <1>7 DEF Mount, Unmount
  <2> QED
    BY <1>7, <2>1 DEF Mount, Unmount, ManageTypeOK
<1>8. CASE RunOn(k)
  BY <1>8, RunOnTypes
<1> QED
  BY <1>3, <1>4, <1>5, <1>6, <1>7, <1>8 DEF ManageHandler

-----------------------------------------------------------------------------
\* The threads and the wires, which AnswersInv knows the shapes of.
ThreadTypeOK ==
    /\ tpc \in [Thread -> ThreadStep]
    /\ step \in [Thread -> 1 .. 3]
    /\ \A t \in Thread :
         op[t] = Nothing \/ (op[t] \in session[t] /\ step[t] <= Len(Messages(op[t])))
    /\ mine \in [Thread -> 0 .. MaxConn]
    /\ response \in Reply
    /\ \A k \in Conn : outbox[k] \in Reply
    /\ toggle \in BOOLEAN /\ left \in BOOLEAN
    /\ promised \in [Thread -> Nat] /\ restarts \in 0 .. MaxRestarts
    /\ \A t \in Thread : tpc[t] = "wait" => mine[t] \in Conn

TypesInv ==
    /\ ProcessInv /\ AnswersInv
    /\ ChildTypeOK /\ ProcessTypeOK /\ ManageTypeOK
    /\ ThreadTypeOK

\* A thread goes to another step, or ends its operation.
LEMMA GotoTypes ==
  ASSUME ThreadTypeOK, NEW t \in Thread, NEW s \in ThreadStep, ThreadGoto(t, s)
  PROVE  /\ tpc' \in [Thread -> ThreadStep]
         /\ tpc'[t] = s /\ \A i \in Thread \ {t} : tpc'[i] = tpc[i]
  BY DEF ThreadGoto, ThreadTypeOK

LEMMA EndTypes ==
  ASSUME ThreadTypeOK, ThreadFunctions, NEW t \in Thread, End(t)
  PROVE  /\ tpc' \in [Thread -> ThreadStep]
         /\ tpc'[t] = "idle" /\ \A i \in Thread \ {t} : tpc'[i] = tpc[i]
         /\ step' \in [Thread -> 1 .. 3]
         /\ op'[t] = Nothing
         /\ \A i \in Thread \ {t} : op'[i] = op[i] /\ step'[i] = step[i]
<1>1. "idle" \in ThreadStep
  BY DEF ThreadStep
<1>2. ThreadGoto(t, "idle")
  BY DEF End
<1>3. op'[t] = Nothing /\ \A i \in Thread \ {t} : op'[i] = op[i]
  BY DEF End, ThreadFunctions
<1>4. step' \in [Thread -> 1 .. 3] /\ \A i \in Thread \ {t} : step'[i] = step[i]
  BY DEF End, ThreadTypeOK
<1> QED
  BY <1>1, <1>2, <1>3, <1>4, GotoTypes

LEMMA TypesHold == TypesInv => TypeOK
  BY DEF TypesInv, AnswersInv, ServerFunctions, ThreadFunctions, ThreadTypeOK, TypeOK

LEMMA TypesInit == Init => TypesInv
<1> SUFFICES ASSUME Init
             PROVE  TypesInv
  OBVIOUS
<1>1. ChildTypeOK
  BY DEF Init, ChildInit, Each, ChildTypeOK, ServerStep, Unread, Reply
<1>2. ProcessTypeOK
  BY PidAssumption, ProgramAssumption, ChangesAssumption
  DEF Init, ProcessInit, OnlyJanixRuns, OnlyJanixFile, Each, ProcessTypeOK, Named, Content
<1>3. ManageTypeOK
  <2>1. [password |-> FirstPassword, writer |-> 0] \in Entry
    BY FirstAssumption, ConnAssumption DEF Entry
  <2>2. Installed \in File
    BY <2>1, EntryIsFile DEF Installed
  <2> QED
    BY <2>2, EmptyIsFile DEF Init, ManageInit, Each, ManageTypeOK
<1>4. ThreadTypeOK
  <2>1. /\ tpc = [t \in Thread |-> "idle"] /\ op = [t \in Thread |-> Nothing]
        /\ step = [t \in Thread |-> 1] /\ mine = [t \in Thread |-> 0]
        /\ response = "-" /\ toggle = FALSE
    BY DEF Init, ThreadInit, EachThread
  <2>2. \A k \in Conn : outbox[k] \in Reply
    BY DEF Init, WireInit, Each, Reply
  <2>3. promised \in [Thread -> Nat] /\ restarts \in 0 .. MaxRestarts
    BY BoundAssumption DEF Init, EachThread
  <2>5. left \in BOOLEAN
    BY DEF Init
  <2>4. 0 \in 0 .. MaxConn /\ 1 \in 1 .. 3
    BY ConnAssumption
  <2> QED
    BY <2>1, <2>2, <2>3, <2>4, <2>5 DEF ThreadTypeOK, ThreadStep, Reply
<1> QED
  BY <1>1, <1>2, <1>3, <1>4, ProcessInvInit, AnswersInit DEF TypesInv

\* An operation of a session takes from one to three messages.
LEMMA MessageCount ==
  ASSUME AnswersInv, NEW t \in Thread, NEW o \in session[t]
  PROVE  Messages(o) \in Seq(Request) /\ Len(Messages(o)) \in 1 .. 3
<1>1. Messages(o) \in Seq(Request) /\ Messages(o) # <<>>
  BY SessionAssumption DEF AnswersInv, Calls
<1>2. Len(Messages(o)) \in 0 .. 3
  BY DEF Messages
<1> QED
  BY <1>1, <1>2

\* The steps of the server leave the threads alone.
LEMMA ServerKeepsThreads ==
  ASSUME ThreadTypeOK, UNCHANGED <<threadVars, modeVars>>,
         \A k \in Conn : outbox'[k] \in Reply
  PROVE  ThreadTypeOK'
  BY DEF ThreadTypeOK, threadVars, modeVars

LEMMA ServerTypes ==
  ASSUME TypesInv, NEW k \in Conn, Receive(k) \/ Handler(k) \/ SendReply(k) \/ Orphan(k)
  PROVE  ChildTypeOK' /\ ProcessTypeOK' /\ ManageTypeOK' /\ ThreadTypeOK'
<1>1. CASE Receive(k)
  <2>1. PICK m \in Request :
          /\ request' = [request EXCEPT ![k] = m]
          /\ Goto(k, Entrance(m))
          /\ answer' = [answer EXCEPT ![k] = IF m.command = "E-" THEN "E" ELSE "-"]
          /\ seen' = [seen EXCEPT ![k] = {shadow}]
    <3>1. Head(inbox[k]) \in Request
      BY <1>1 DEF Receive, TypesInv, AnswersInv, ServerFunctions
    <3>2. Empty \in Request
      BY DEF Empty, Request, Command
    <3> QED
      BY <1>1, <3>1, <3>2 DEF Receive
  <2>2. Entrance(m) \in Steps
    BY DEF Entrance, Steps, ServerStep, ProcessStep, ManageStep
  <2>3. m \in [command : Command \cup {"none"}, text : Seq(Atom)]
    BY DEF Request
  <2>7. ChildTypeOK'
    BY <2>1, <2>2, <2>3 DEF TypesInv, ChildTypeOK, Goto, Steps, Reply
  <2>4. ProcessTypeOK'
    BY <1>1 DEF Receive, TypesInv, ProcessTypeOK, processVars
  <2>5. ManageTypeOK'
    BY <1>1, <2>1 DEF Receive, TypesInv, ManageTypeOK
  <2>6. ThreadTypeOK'
    BY <1>1, ServerKeepsThreads DEF Receive, TypesInv, ThreadTypeOK
  <2> QED
    BY <2>4, <2>5, <2>6, <2>7
<1>2. CASE Handler(k)
  <2>1. ThreadTypeOK'
    BY <1>2, ServerKeepsThreads DEF Handler, wireVars, TypesInv, ThreadTypeOK
  <2>2. CASE ProcessHandler(k) /\ UNCHANGED manageVars
    BY <2>1, <2>2, ProcessHandlerTypes DEF TypesInv, ManageTypeOK, manageVars
  <2>3. CASE ManageHandler(k) /\ UNCHANGED processVars
    BY <2>1, <2>3, ManageHandlerTypes DEF TypesInv, ProcessTypeOK, processVars
  <2> QED
    BY <1>2, <2>2, <2>3 DEF Handler
<1>3. CASE SendReply(k)
  <2>1. /\ Goto(k, "done") /\ answer' = [answer EXCEPT ![k] = "-"] /\ UNCHANGED request
        /\ outbox' = [outbox EXCEPT ![k] = answer[k]]
    BY <1>3 DEF SendReply, Leave
  <2>2. ChildTypeOK'
    BY <2>1 DEF TypesInv, ChildTypeOK, Goto, ServerStep, Reply
  <2>3. ProcessTypeOK'
    BY <1>3, PidAssumption DEF SendReply, Leave, TypesInv, ProcessTypeOK
  <2>4. ManageTypeOK'
    BY <1>3, EmptyIsFile DEF SendReply, Leave, TypesInv, ManageTypeOK
  <2>5. \A i \in Conn : outbox'[i] \in Reply
    BY <2>1 DEF TypesInv, ChildTypeOK, ThreadTypeOK, AnswersInv, ServerFunctions
  <2>6. ThreadTypeOK'
    BY <1>3, <2>5, ServerKeepsThreads DEF SendReply, TypesInv
  <2> QED
    BY <2>2, <2>3, <2>4, <2>6
<1>4. CASE Orphan(k)
  <2>1. ChildTypeOK'
    BY <1>4, ProceedTypes DEF Orphan, TypesInv, Steps, ServerStep
  <2>2. ThreadTypeOK'
    BY <1>4, ServerKeepsThreads DEF Orphan, wireVars, TypesInv, ThreadTypeOK
  <2> QED
    BY <1>4, <2>1, <2>2
    DEF Orphan, processVars, manageVars, TypesInv, ProcessTypeOK, ManageTypeOK
<1> QED
  BY <1>1, <1>2, <1>3, <1>4

\* A thread's call: what it finds in the response field is a reply.
LEMMA CallTypes ==
  ASSUME TypesInv, NEW t \in Thread, InCall(t)
  PROVE  ThreadTypeOK'
<1>1. t \in Gui => op[t] \in session[t] \/ tpc[t] = "idle"
  BY DEF TypesInv, AnswersInv, Calls
<1>2. CASE Connect(t)
  <2>1. ThreadGoto(t, "read") \/ ThreadGoto(t, "send")
    BY <1>2 DEF Connect
  <2> QED
    BY <1>2, <2>1
    DEF Connect, ThreadGoto, TypesInv, ThreadTypeOK, ThreadStep, wireVars, modeVars
<1>3. CASE Send(t)
  <2>1. CASE End(t)
    BY <1>3, <2>1, EndTypes DEF Send, TypesInv, AnswersInv, ThreadTypeOK, modeVars
  <2>2. CASE ThreadGoto(t, "read") /\ UNCHANGED <<op, step>>
    <3>1. "read" \in ThreadStep
      BY DEF ThreadStep
    <3> QED
      BY <1>3, <2>2, <3>1, GotoTypes DEF Send, TypesInv, ThreadTypeOK, modeVars
  <2> QED
    BY <1>3, <2>1, <2>2 DEF Send
<1>4. CASE Read(t)
  <2>1. mine' \in [Thread -> 0 .. MaxConn] /\ response' \in Reply
    BY <1>4 DEF Read, TypesInv, ThreadTypeOK, AnswersInv, ThreadFunctions, Reply
  <2>2. /\ tpc' \in [Thread -> ThreadStep]
        /\ \A i \in Thread : tpc'[i] = "wait" => mine'[i] \in Conn
    <3>1. {"judge", "wait"} \subseteq ThreadStep
      BY DEF ThreadStep
    <3>2. CASE sd = 0 /\ ThreadGoto(t, "judge") /\ UNCHANGED mine
      BY <3>1, <3>2, GotoTypes DEF TypesInv, ThreadTypeOK
    <3>3. CASE sd # 0 /\ mine' = [mine EXCEPT ![t] = sd] /\ ThreadGoto(t, "wait")
      <4>1. sd \in Conn
        BY <3>3 DEF TypesInv, AnswersInv, ThreadFunctions, Conn
      <4> QED
        BY <3>1, <3>3, <4>1, GotoTypes DEF TypesInv, ThreadTypeOK
    <3> QED
      BY <1>4, <3>2, <3>3 DEF Read
  <2> QED
    BY <1>4, <2>1, <2>2 DEF Read, TypesInv, ThreadTypeOK, wireVars, modeVars
<1>5. CASE Wait(t)
  <2>1. mine[t] \in Conn
    BY <1>5 DEF Wait, TypesInv, ThreadTypeOK
  <2>2. response' \in Reply /\ \A i \in Conn : outbox'[i] \in Reply
    BY <1>5, <2>1 DEF Wait, TypesInv, ThreadTypeOK, AnswersInv, ServerFunctions, Reply
  <2>3. /\ mine' \in [Thread -> 0 .. MaxConn]
        /\ \A i \in Thread \ {t} : mine'[i] = mine[i]
    BY <1>5, ConnAssumption DEF Wait, TypesInv, ThreadTypeOK
  <2>4. UNCHANGED <<session, toggle, promised, restarts, left>>
    BY <1>5 DEF Wait, modeVars
  <2>5. CASE End(t)
    BY <2>2, <2>3, <2>4, <2>5, EndTypes DEF TypesInv, AnswersInv, ThreadTypeOK
  <2>6. CASE ThreadGoto(t, "judge") /\ UNCHANGED <<op, step>>
    <3>1. "judge" \in ThreadStep
      BY DEF ThreadStep
    <3> QED
      BY <2>2, <2>3, <2>4, <2>6, <3>1, GotoTypes DEF TypesInv, ThreadTypeOK
  <2> QED
    BY <1>5, <2>5, <2>6 DEF Wait
<1>6. CASE Judge(t)
  <2>1. op[t] \in session[t]
    BY <1>1, <1>6, NobodyIsBoth DEF Judge, TypesInv, AnswersInv, Calls
  <2>2. Len(Messages(op[t])) \in 1 .. 3
    BY <2>1, MessageCount DEF TypesInv
  <2>3. UNCHANGED <<mine, response, outbox, session, promised, restarts, left>> /\ toggle' \in BOOLEAN
    BY <1>6 DEF Judge, wireVars, modeVars, TypesInv, ThreadTypeOK
  <2>4. CASE End(t)
    BY <2>3, <2>4, EndTypes DEF TypesInv, AnswersInv, ThreadTypeOK
  <2>5. CASE /\ GoesOn(op[t], step[t], Yes(t))
             /\ step' = [step EXCEPT ![t] = @ + 1]
             /\ ThreadGoto(t, "connect")
             /\ UNCHANGED op
    <3>1. step[t] \in 1 .. 3 /\ step[t] + 1 \in 1 .. 3 /\ step[t] + 1 <= Len(Messages(op[t]))
      <4> DEFINE n == Len(Messages(op[t]))
      <4>1. step[t] \in 1 .. 3
        BY DEF TypesInv, ThreadTypeOK
      <4>2. step[t] < n
        BY <2>5 DEF GoesOn
      <4>3. n \in 1 .. 3
        BY <2>2
      <4> HIDE DEF n
      <4>4. step[t] + 1 \in 1 .. 3 /\ step[t] + 1 <= n
        BY <4>1, <4>2, <4>3
      <4> QED
        BY <4>1, <4>4 DEF n
    <3>2. /\ step' \in [Thread -> 1 .. 3]
          /\ step'[t] = step[t] + 1 /\ \A i \in Thread \ {t} : step'[i] = step[i]
      BY <2>5, <3>1 DEF TypesInv, ThreadTypeOK
    <3>3. "connect" \in ThreadStep
      BY DEF ThreadStep
    <3> QED
      BY <2>1, <2>3, <2>5, <3>1, <3>2, <3>3, GotoTypes DEF TypesInv, ThreadTypeOK
  <2> QED
    BY <1>6, <2>4, <2>5 DEF Judge, NextMessage
<1> QED
  BY <1>2, <1>3, <1>4, <1>5, <1>6 DEF InCall

\* A user's operation.
LEMMA UserTypes ==
  ASSUME TypesInv, NEW t \in Thread, NEW o \in session[t], Begin(t, o) \/ ClientCalls(t, o)
  PROVE  ThreadTypeOK'
<1>1. Len(Messages(o)) \in 1 .. 3
  BY MessageCount DEF TypesInv
<1>2. /\ tpc[t] = "idle" /\ UNCHANGED <<step, session, restarts, left, response, outbox>>
      /\ promised' = [promised EXCEPT ![t] = @ + Len(Messages(o))]
      /\ op' = [op EXCEPT ![t] = o]
  BY DEF Begin, ClientCalls, Promise, modeVars, wireVars
<1>3. step[t] = 1
  BY <1>2 DEF TypesInv, AnswersInv, Calls
<1>4. promised' \in [Thread -> Nat]
  BY <1>1, <1>2 DEF TypesInv, ThreadTypeOK
<1>5. \A i \in Thread :
         op'[i] = Nothing \/ (op'[i] \in session[i] /\ step[i] <= Len(Messages(op'[i])))
  <2>1. op'[t] = o /\ \A i \in Thread \ {t} : op'[i] = op[i]
    BY <1>2 DEF TypesInv, AnswersInv, ThreadFunctions
  <2>2. 1 <= Len(Messages(o))
    <3> DEFINE n == Len(Messages(o))
    <3>1. n \in 1 .. 3
      BY <1>1
    <3> HIDE DEF n
    <3>2. 1 <= n
      BY <3>1
    <3> QED
      BY <3>2 DEF n
  <2>3. op'[t] \in session[t] /\ step[t] <= Len(Messages(op'[t]))
    BY <1>3, <2>1, <2>2
  <2>4. \A i \in Thread \ {t} :
           op'[i] = Nothing \/ (op'[i] \in session[i] /\ step[i] <= Len(Messages(op'[i])))
    BY <2>1 DEF TypesInv, ThreadTypeOK
  <2> QED
    BY <2>3, <2>4
<1>6. CASE Begin(t, o)
  <2>1. /\ tpc' \in [Thread -> ThreadStep] /\ UNCHANGED mine
        /\ \A i \in Thread : tpc'[i] = "wait" => tpc[i] = "wait"
    BY <1>6 DEF Begin, ThreadGoto, TypesInv, ThreadTypeOK, ThreadStep
  <2>2. toggle' \in BOOLEAN
    BY <1>6 DEF Begin, TypesInv, ThreadTypeOK
  <2> QED
    BY <1>2, <1>4, <1>5, <2>1, <2>2 DEF TypesInv, ThreadTypeOK
<1>7. CASE ClientCalls(t, o)
  <2>1. PICK k \in Conn :
          \/ mine' = [mine EXCEPT ![t] = k] /\ ThreadGoto(t, "wait")
          \/ UNCHANGED <<mine, tpc>>
    BY <1>7 DEF ClientCalls
  <2>2. /\ tpc' \in [Thread -> ThreadStep] /\ mine' \in [Thread -> 0 .. MaxConn]
        /\ \A i \in Thread : tpc'[i] = "wait" => mine'[i] \in Conn
    <3>1. CASE UNCHANGED <<mine, tpc>>
      BY <3>1 DEF TypesInv, ThreadTypeOK
    <3>2. CASE mine' = [mine EXCEPT ![t] = k] /\ ThreadGoto(t, "wait")
      <4>1. "wait" \in ThreadStep /\ k \in 0 .. MaxConn
        BY DEF ThreadStep, Conn
      <4> QED
        BY <3>2, <4>1, GotoTypes DEF TypesInv, ThreadTypeOK
    <3> QED
      BY <2>1, <3>1, <3>2
  <2>3. UNCHANGED toggle
    BY <1>7 DEF ClientCalls
  <2> QED
    BY <1>2, <1>4, <1>5, <2>2, <2>3 DEF TypesInv, ThreadTypeOK
<1> QED
  BY <1>6, <1>7

\* The boot: /etc/shadow is what had reached the disk.
LEMMA RebootTypes ==
  ASSUME TypesInv, Reboot
  PROVE  ChildTypeOK' /\ ProcessTypeOK' /\ ManageTypeOK' /\ ThreadTypeOK'
<1>1. ChildTypeOK'
  BY DEF Reboot, ChildReboot, Each, ChildTypeOK, ServerStep, Unread, Reply
<1>2. ProcessTypeOK'
  BY PidAssumption, ProgramAssumption, ChangesAssumption
  DEF Reboot, ProcessReboot, OnlyJanixRuns, OnlyJanixFile, Each, ProcessTypeOK, Named, Content
<1>3. ManageTypeOK'
  <2>1. PICK file \in {disk, shadow, <<>>} :
          shadow' = IF file = <<>> THEN file ELSE <<[file[1] EXCEPT !.writer = 0]>>
    BY DEF Reboot, ManageReboot
  <2>2. file \in File
    BY EmptyIsFile DEF TypesInv, ManageTypeOK
  <2>3. CASE file = <<>>
    BY <2>1, <2>2, <2>3, EmptyIsFile DEF Reboot, ManageReboot, Each, ManageTypeOK
  <2>4. CASE file # <<>>
    <3>1. file[1] \in Entry
      BY <2>2, <2>4 DEF File
    <3>2. [file[1] EXCEPT !.writer = 0] \in Entry
      BY <3>1, ConnAssumption DEF Entry
    <3>3. shadow' \in File
      BY <2>1, <2>4, <3>2, EntryIsFile
    <3> QED
      BY <3>3, EmptyIsFile DEF Reboot, ManageReboot, Each, ManageTypeOK
  <2> QED
    BY <2>3, <2>4
<1>4. ThreadTypeOK'
  <2>1. /\ tpc' = [t \in Thread |-> "idle"] /\ op' = [t \in Thread |-> Nothing]
        /\ step' = [t \in Thread |-> 1] /\ mine' = [t \in Thread |-> 0]
        /\ response' = "-" /\ toggle' = FALSE
    BY DEF Reboot, ThreadReboot, EachThread
  <2>2. \A k \in Conn : outbox'[k] \in Reply
    BY DEF Reboot, WireReboot, Each, Reply
  <2>3. promised' \in [Thread -> Nat] /\ restarts' \in 0 .. MaxRestarts
    BY BoundAssumption DEF Reboot, TypesInv, ThreadTypeOK
  <2>5. left' \in BOOLEAN
    BY DEF Reboot
  <2>4. 0 \in 0 .. MaxConn /\ 1 \in 1 .. 3
    BY ConnAssumption
  <2> QED
    BY <2>1, <2>2, <2>3, <2>4, <2>5 DEF ThreadTypeOK, ThreadStep, Reply
<1> QED
  BY <1>1, <1>2, <1>3, <1>4

\* The GUI starts again.
LEMMA RestartTypes ==
  ASSUME TypesInv, GuiRestarts
  PROVE  ThreadTypeOK'
<1>1. /\ \A t \in Gui : tpc'[t] = "idle" /\ step'[t] = 1 /\ mine'[t] = 0 /\ op'[t] = Nothing
      /\ \A t \in Client : /\ tpc'[t] = tpc[t] /\ step'[t] = step[t]
                           /\ mine'[t] = mine[t] /\ op'[t] = op[t]
      /\ tpc' = [t \in Thread |-> tpc'[t]] /\ step' = [t \in Thread |-> step'[t]]
      /\ mine' = [t \in Thread |-> mine'[t]]
  BY NobodyIsBoth DEF GuiRestarts
<1>2. /\ response' = "-" /\ toggle' = FALSE /\ left' \in BOOLEAN
      /\ restarts' \in 0 .. MaxRestarts
      /\ UNCHANGED <<outbox, promised, session>>
  BY BoundAssumption DEF GuiRestarts, wireVars, TypesInv, ThreadTypeOK
<1>3. 0 \in 0 .. MaxConn /\ 1 \in 1 .. 3 /\ "idle" \in ThreadStep /\ "-" \in Reply
  BY ConnAssumption DEF ThreadStep, Reply
<1>4. \A t \in Thread : /\ tpc'[t] \in ThreadStep /\ step'[t] \in 1 .. 3
                        /\ mine'[t] \in 0 .. MaxConn
                        /\ tpc'[t] = "wait" => mine'[t] \in Conn
  BY <1>1, <1>3, NobodyIsBoth DEF TypesInv, ThreadTypeOK
<1>5. \A t \in Thread :
         \/ op'[t] = Nothing
         \/ op'[t] \in session'[t] /\ step'[t] <= Len(Messages(op'[t]))
  BY <1>1, <1>2, NobodyIsBoth DEF TypesInv, ThreadTypeOK
<1> QED
  BY <1>1, <1>2, <1>3, <1>4, <1>5 DEF TypesInv, ThreadTypeOK

\* A thread that connects leaves the handlers alone, and so does the client.
LEMMA AcceptTypes ==
  ASSUME TypesInv, NEW k \in Conn, Accept(k), UNCHANGED <<processVars, manageVars>>
  PROVE  ChildTypeOK' /\ ProcessTypeOK' /\ ManageTypeOK'
<1>1. ChildTypeOK'
  BY ProceedTypes DEF Accept, TypesInv, Steps, ServerStep
<1> QED
  BY <1>1 DEF processVars, manageVars, TypesInv, ProcessTypeOK, ManageTypeOK

LEMMA NobodyTypes ==
  ASSUME TypesInv, UNCHANGED <<childVars, processVars, manageVars>>
  PROVE  ChildTypeOK' /\ ProcessTypeOK' /\ ManageTypeOK'
  BY DEF childVars, processVars, manageVars, TypesInv, ChildTypeOK, ProcessTypeOK, ManageTypeOK

LEMMA TypesNext == TypesInv /\ [Next]_vars => TypesInv'
<1> SUFFICES ASSUME TypesInv, [Next]_vars
             PROVE  ChildTypeOK' /\ ProcessTypeOK' /\ ManageTypeOK' /\ ThreadTypeOK'
  BY ProcessInvNext, AnswersNext DEF TypesInv
<1>1. CASE Server
  BY <1>1, ServerTypes DEF Server
<1>2. ASSUME NEW t \in Thread, InCall(t)
      PROVE  ChildTypeOK' /\ ProcessTypeOK' /\ ManageTypeOK' /\ ThreadTypeOK'
  <2>1. ChildTypeOK' /\ ProcessTypeOK' /\ ManageTypeOK'
    BY <1>2, AcceptTypes, NobodyTypes DEF InCall, Connect, Send, Read, Wait, Judge
  <2> QED
    BY <1>2, <2>1, CallTypes
<1>3. CASE Users
  <2>1. PICK t \in Thread : \E o \in session[t] : Begin(t, o) \/ ClientCalls(t, o)
    BY <1>3 DEF Users
  <2>2. ThreadTypeOK'
    BY <2>1, UserTypes
  <2> QED
    BY <2>1, <2>2, AcceptTypes, NobodyTypes DEF Begin, ClientCalls
<1>4. CASE Programs /\ UNCHANGED <<childVars, manageVars, threadVars, wireVars, modeVars>>
  BY <1>4, ProgramTypes, ServerKeepsThreads
  DEF TypesInv, ChildTypeOK, ManageTypeOK, ThreadTypeOK, childVars, manageVars, wireVars
<1>5. CASE Surroundings
  BY <1>4, <1>5, ServerTypes, RestartTypes, NobodyTypes, RebootTypes
  DEF Surroundings, GuiRestarts
<1>6. CASE UNCHANGED vars
  <2>1. UNCHANGED <<childVars, processVars, manageVars, threadVars, wireVars, modeVars>>
    BY <1>6 DEF vars
  <2>2. ThreadTypeOK'
    BY <2>1, ServerKeepsThreads DEF TypesInv, ThreadTypeOK, wireVars
  <2> QED
    BY <2>1, <2>2, NobodyTypes
<1> QED
  BY <1>1, <1>2, <1>3, <1>5, <1>6 DEF Next

\* Every variable of the daemon, its clients and the programs it is asked about stays in
\* its type (TypeOK), for any programs, pids, sessions and bounds: no client is ever left
\* waiting on a connection that does not exist, and a password that is written is made of
\* words of its request, or of what lay behind it in the memory.
THEOREM ConsoleTypes == Spec => []TypeOK
  BY TypesInit, TypesNext, TypesHold, PTL DEF Spec
-----------------------------------------------------------------------------
(***************************************************************************)
(* The toggle.  The GUI has turned it before it asks, and turns it back    *)
(* when the reply is not SUCCEEDED; so it is right between two clicks if   *)
(* the reply always tells what became of the disc.  The inductive          *)
(* invariant follows the question from the socket to the child that mounts *)
(* and its answer back to the field the GUI compares: at every place it is *)
(* known whether the disc is still as it was before the click.             *)
(***************************************************************************)

\* A click on the toggle.
Mounts(o) == o.kind \in {"mount", "unmount"}

\* The toggle is one disc's, and nobody but the GUI's event thread mounts: nobody runs
\* client.c to mount a disc behind the GUI's back.
OnlyTheToggle ==
    \A s \in Sessions :
        /\ \A t \in Thread \ {Swing} : \A o \in s[t] : ~Mounts(o)
        /\ \A o, p \in s[Swing] : Mounts(o) /\ Mounts(p) => Head(o.first) = Head(p.first)

\* Before a child is done it has sent no reply.
Unsent == \A k \in Conn : pc[k] # "done" => outbox[k] = "-"

\* The message of a click, and whether it has been sent and is not yet answered.
Asking == Messages(op[Swing])[1]
Sent == sd # 0 /\ tpc[Swing] \in {"read", "wait"}

\* A child is about to mount something, or will be.
Stirs(k) ==
    \/ pc[k] \in {"mount", "umount"}
    \/ \E i \in DOMAIN inbox[k] : inbox[k][i].command \in {"MM", "MU"}

\* Only for a click, and only the child that has been sent its message.
StirsOnlyIf ==
    \A k \in Conn : Stirs(k) => k = sd /\ Sent /\ Mounts(op[Swing])

\* The disc is as it was before the click.
Before == mounted = {} <=> op[Swing].kind = "mount"

\* The question on its way to the child and back.
OnItsWay(k) ==
    \/ pc[k] = "receive" /\ inbox[k] = <<Asking>> /\ Before
    \/ /\ pc[k] \in {"mount", "umount"} /\ pc[k] = Entrance(Asking)
       /\ request[k] = Asking /\ inbox[k] = <<>> /\ Before
    \/ pc[k] = "reply" /\ inbox[k] = <<>> /\ (answer[k] = "S" <=> ~Before)
    \/ pc[k] = "done" /\ inbox[k] = <<>> /\ (outbox[k] = "S" <=> ~Before)

\* During a click.
InClick ==
    /\ toggle <=> op[Swing].kind = "mount"
    /\ tpc[Swing] # "idle"
    /\ tpc[Swing] \in {"connect", "send"} => Before
    /\ tpc[Swing] = "read" /\ sd = 0 => Before
    /\ Sent => OnItsWay(sd)
    /\ tpc[Swing] = "judge" => (response = "S" <=> ~Before)

ToggleTold ==
    /\ Mounts(op[Swing]) => InClick
    /\ ~Mounts(op[Swing]) => (toggle <=> mounted # {})

\* No other disc is ever mounted.
OneDisc == \A o \in session[Swing] : Mounts(o) => mounted \subseteq {Head(o.first)}

DiscsTold == StirsOnlyIf /\ ToggleTold /\ OneDisc

DiscsInv == AnswersInv /\ Unsent /\ (~raced /\ ~left => DiscsTold)

-----------------------------------------------------------------------------
LEMMA DiscsHold == DiscsInv => ToggleTellsMount
  BY DEF DiscsInv, DiscsTold, ToggleTold, Mounts, ToggleTellsMount

\* A click is one message; no other operation sends one like it.
LEMMA ClickMessage ==
  ASSUME NEW o, Mounts(o)
  PROVE  /\ Len(Messages(o)) = 1
         /\ Messages(o)[1].command = IF o.kind = "mount" THEN "MM" ELSE "MU"
         /\ Messages(o)[1].text = o.first
         /\ Good(Messages(o)[1]) = "S"
         /\ Entrance(Messages(o)[1]) = IF o.kind = "mount" THEN "mount" ELSE "umount"
<1>1. CASE o.kind = "mount"
  <2>1. Messages(o) = <<Message("MM", o.first)>>
    BY <1>1 DEF Messages
  <2> QED
    BY <1>1, <2>1 DEF Message, Good, Entrance
<1>2. CASE o.kind = "unmount"
  <2>1. Messages(o) = <<Message("MU", o.first)>>
    BY <1>2 DEF Messages
  <2> QED
    BY <1>2, <2>1 DEF Message, Good, Entrance
<1> QED
  BY <1>1, <1>2 DEF Mounts

LEMMA OtherMessage ==
  ASSUME NEW o, ~Mounts(o)
  PROVE  \A i \in DOMAIN Messages(o) : Messages(o)[i].command \notin {"MM", "MU"}
  BY DEF Mounts, Messages, Message, ChangePassword

LEMMA DiscsInit == Init => DiscsInv
<1> SUFFICES ASSUME Init
             PROVE  DiscsInv
  OBVIOUS
<1>1. \A k \in Conn : pc[k] = "none" /\ inbox[k] = <<>> /\ outbox[k] = "-"
  BY DEF Init, ChildInit, WireInit, Each
<1>2. op[Swing] = Nothing /\ toggle = FALSE /\ mounted = {}
  BY DEF Init, ThreadInit, ManageInit, EachThread, Thread, Gui
<1>3. StirsOnlyIf
  BY <1>1 DEF StirsOnlyIf, Stirs
<1>4. ToggleTold /\ OneDisc
  BY <1>2 DEF ToggleTold, Mounts, Nothing, OneDisc
<1> QED
  BY <1>1, <1>3, <1>4, AnswersInit DEF DiscsInv, DiscsTold, Unsent

\* A step that is not about the click leaves everything told.
LEMMA ElsewhereTells ==
  ASSUME StirsOnlyIf, ToggleTold, OneDisc,
         UNCHANGED <<toggle, mounted, session>>,
         op'[Swing] = op[Swing], tpc'[Swing] = tpc[Swing],
         Meddles(Swing) => sd' = sd,
         tpc[Swing] = "judge" => response' = response,
         \A k \in Conn : Stirs(k)' => Stirs(k),
         Mounts(op[Swing]) /\ Sent =>
            /\ pc'[sd] = pc[sd] /\ inbox'[sd] = inbox[sd] /\ outbox'[sd] = outbox[sd]
            /\ request'[sd] = request[sd] /\ answer'[sd] = answer[sd]
  PROVE  DiscsTold'
<1>1. Sent' = Sent /\ (Sent => sd' = sd)
  BY DEF Sent, Meddles
<1>2. StirsOnlyIf'
  BY <1>1 DEF StirsOnlyIf
<1>3. OneDisc'
  BY DEF OneDisc
<1>4. Before' = Before /\ Asking' = Asking
  BY DEF Before, Asking
<1>5. ASSUME Mounts(op[Swing])
      PROVE  InClick'
  <2>1. Sent => OnItsWay(sd)'
    BY <1>1, <1>4, <1>5 DEF ToggleTold, InClick, OnItsWay
  <2>2. tpc[Swing] = "read" => sd' = sd
    BY DEF Meddles
  <2> QED
    BY <1>1, <1>4, <1>5, <2>1, <2>2 DEF ToggleTold, InClick
<1>6. ToggleTold'
  BY <1>5 DEF ToggleTold
<1> QED
  BY <1>2, <1>3, <1>6 DEF DiscsTold

\* The child that has the question goes on with it.
LEMMA QuestionGoesOn ==
  ASSUME StirsOnlyIf, ToggleTold,
         NEW k \in Conn, k = sd, Sent, Mounts(op[Swing]),
         UNCHANGED <<threadVars, session>>,
         \A i \in Conn \ {k} : pc'[i] = pc[i] /\ inbox'[i] = inbox[i],
         OnItsWay(k)', OneDisc'
  PROVE  DiscsTold'
<1>1. StirsOnlyIf'
  BY DEF StirsOnlyIf, Stirs, Sent, threadVars
<1>2. ToggleTold'
  BY DEF ToggleTold, InClick, Sent, threadVars
<1> QED
  BY <1>1, <1>2 DEF DiscsTold

-----------------------------------------------------------------------------
\* The server.

\* What is on its way for a click.
LEMMA QuestionSent ==
  ASSUME DiscsInv, ~raced, ~left, Sent, Mounts(op[Swing])
  PROVE  sd \in Conn /\ OnItsWay(sd) /\ Asking \in Request /\ op[Swing] \in session[Swing]
<1>1. sd \in Conn
  BY DEF DiscsInv, AnswersInv, ThreadFunctions, Sent, Conn
<1>2. OnItsWay(sd)
  BY DEF DiscsInv, DiscsTold, ToggleTold, InClick
<1>3. Swing \in Gui /\ Swing \in Thread
  BY DEF Gui, Thread
<1>4. op[Swing] \in session[Swing] /\ step[Swing] \in 1 .. Len(Messages(op[Swing]))
  BY <1>3 DEF DiscsInv, AnswersInv, Calls, Sent
<1>5. Messages(op[Swing]) \in Seq(Request) /\ Len(Messages(op[Swing])) = 1
  BY <1>3, <1>4, ClickMessage, SessionAssumption DEF DiscsInv, AnswersInv, Calls
<1> QED
  BY <1>1, <1>2, <1>4, <1>5 DEF Asking

LEMMA ReceiveTells ==
  ASSUME DiscsInv, ~raced, ~left, NEW k \in Conn, Receive(k)
  PROVE  DiscsTold'
<1> DEFINE m == IF TooLong(Head(inbox[k])) THEN Empty ELSE Head(inbox[k])
<1>1. /\ pc[k] = "receive" /\ inbox[k] # <<>>
      /\ request' = [request EXCEPT ![k] = m]
      /\ pc' = [pc EXCEPT ![k] = Entrance(m)]
      /\ answer' = [answer EXCEPT ![k] = IF m.command = "E-" THEN "E" ELSE "-"]
      /\ inbox' = [inbox EXCEPT ![k] = Tail(@)]
      /\ UNCHANGED <<mounted, threadVars, outbox, session>>
  BY DEF Receive, At, Goto, modeVars
<1>2. /\ pc'[k] = Entrance(m) /\ request'[k] = m /\ inbox'[k] = Tail(inbox[k])
      /\ answer'[k] = IF m.command = "E-" THEN "E" ELSE "-"
      /\ \A i \in Conn \ {k} : /\ pc'[i] = pc[i] /\ inbox'[i] = inbox[i]
                               /\ request'[i] = request[i] /\ answer'[i] = answer[i]
  BY <1>1 DEF DiscsInv, AnswersInv, ServerFunctions
<1>3. inbox[k] \in Seq(Request)
  BY DEF DiscsInv, AnswersInv, ServerFunctions
<1> HIDE DEF m
<1>4. CASE k = sd /\ Sent /\ Mounts(op[Swing])
  <2>1. inbox[k] = <<Asking>> /\ Before
    BY <1>1, <1>4, QuestionSent DEF OnItsWay
  <2>2. Tail(inbox[k]) = <<>> /\ Head(inbox[k]) = Asking
    BY <2>1
  <2>3. Before' = Before /\ Asking' = Asking
    BY <1>1 DEF Before, Asking, threadVars
  <2>4. m = Asking \/ m = Empty
    BY <2>2 DEF m
  <2>5. OnItsWay(k)'
    <3>1. CASE m = Asking
      BY <1>2, <1>4, <2>1, <2>2, <2>3, <3>1, ClickMessage DEF OnItsWay, Asking
    <3>2. CASE m = Empty
      BY <1>2, <2>1, <2>2, <2>3, <3>2 DEF OnItsWay, Empty, Entrance
    <3> QED
      BY <2>4, <3>1, <3>2
  <2>6. OneDisc'
    BY <1>1 DEF DiscsInv, DiscsTold, OneDisc
  <2> QED
    BY <1>1, <1>2, <1>4, <2>5, <2>6, QuestionGoesOn DEF DiscsInv, DiscsTold
<1>5. CASE ~(k = sd /\ Sent /\ Mounts(op[Swing]))
  <2>1. ~Stirs(k)
    BY <1>5 DEF DiscsInv, DiscsTold, StirsOnlyIf
  <2>2. Head(inbox[k]).command \notin {"MM", "MU"}
    <3>1. 1 \in DOMAIN inbox[k] /\ Head(inbox[k]) = inbox[k][1]
      BY <1>1, <1>3
    <3> QED
      BY <2>1, <3>1 DEF Stirs
  <2>3. Entrance(m) \notin {"mount", "umount"}
    BY <2>2 DEF m, Entrance, Empty
  <2>4. \A i \in DOMAIN Tail(inbox[k]) :
           i + 1 \in DOMAIN inbox[k] /\ Tail(inbox[k])[i] = inbox[k][i + 1]
    BY <1>1, <1>3
  <2>5. ~Stirs(k)'
    BY <1>2, <2>1, <2>3, <2>4 DEF Stirs
  <2>6. \A i \in Conn : Stirs(i)' => Stirs(i)
    BY <1>2, <2>5 DEF Stirs
  <2>7. Mounts(op[Swing]) /\ Sent =>
            /\ pc'[sd] = pc[sd] /\ inbox'[sd] = inbox[sd] /\ outbox'[sd] = outbox[sd]
            /\ request'[sd] = request[sd] /\ answer'[sd] = answer[sd]
    BY <1>1, <1>2, <1>5, QuestionSent
  <2> QED
    BY <1>1, <2>6, <2>7, ElsewhereTells DEF threadVars, DiscsInv, DiscsTold
<1> QED
  BY <1>4, <1>5

\* A child that is not about to mount anything takes a step of its handler.
LEMMA HandlerElsewhereTells ==
  ASSUME DiscsInv, ~raced, ~left, NEW k \in Conn,
         pc[k] \in (ProcessStep \cup ManageStep) \ {"mount", "umount"},
         UNCHANGED <<mounted, threadVars, inbox, outbox, session>>,
         NEW s, s \notin {"mount", "umount"}, Goto(k, s),
         \A i \in Conn \ {k} : answer'[i] = answer[i] /\ request'[i] = request[i]
  PROVE  DiscsTold'
<1>1. pc'[k] = s /\ \A i \in Conn \ {k} : pc'[i] = pc[i]
  BY DEF Goto, DiscsInv, AnswersInv, ServerFunctions
<1>2. \A i \in Conn : Stirs(i)' => Stirs(i)
  BY <1>1 DEF Stirs
<1>3. Mounts(op[Swing]) /\ Sent => k # sd
  BY QuestionSent DEF OnItsWay, ProcessStep, ManageStep
<1>4. Mounts(op[Swing]) /\ Sent =>
            /\ pc'[sd] = pc[sd] /\ inbox'[sd] = inbox[sd] /\ outbox'[sd] = outbox[sd]
            /\ request'[sd] = request[sd] /\ answer'[sd] = answer[sd]
  BY <1>1, <1>3, QuestionSent
<1> QED
  BY <1>2, <1>4, ElsewhereTells DEF threadVars, DiscsInv, DiscsTold

\* The child mounts the disc or unmounts it, and says so; or it cannot.
LEMMA MountTells ==
  ASSUME DiscsInv, ~raced, ~left, OnlyTheToggle, NEW k \in Conn, Mount(k) \/ Unmount(k),
         UNCHANGED <<threadVars, inbox, outbox, session>>
  PROVE  DiscsTold'
<1> DEFINE o == op[Swing]
<1>1. pc[k] \in {"mount", "umount"}
  BY DEF Mount, Unmount, At
<1>2. k = sd /\ Sent /\ Mounts(o)
  BY <1>1 DEF DiscsInv, DiscsTold, StirsOnlyIf, Stirs
<1>3. /\ pc[k] = Entrance(Asking) /\ request[k] = Asking /\ inbox[k] = <<>> /\ Before
      /\ o \in session[Swing]
  BY <1>1, <1>2, QuestionSent DEF OnItsWay
<1>4. Asked(k) = Head(o.first) /\ pc[k] = IF o.kind = "mount" THEN "mount" ELSE "umount"
  BY <1>2, <1>3, ClickMessage DEF Asked, Asking
<1>5. PICK a \in {"F", "S"} :
         /\ Finish(k, a)
         /\ a = "F" => UNCHANGED mounted
         /\ a = "S" => \/ Mount(k) /\ mounted' = mounted \cup {Asked(k)}
                       \/ Unmount(k) /\ Asked(k) \in mounted /\ mounted' = mounted \ {Asked(k)}
  BY DEF Mount, Unmount
<1>6. pc'[k] = "reply" /\ answer'[k] = a /\ \A i \in Conn \ {k} : pc'[i] = pc[i]
  BY <1>5 DEF Finish, Goto, DiscsInv, AnswersInv, ServerFunctions
<1>7. mounted \subseteq {Head(o.first)}
  BY <1>2, <1>3 DEF DiscsInv, DiscsTold, OneDisc
<1>8. op'[Swing] = o /\ UNCHANGED <<session, sd, tpc>>
  BY DEF threadVars
<1>9. a = "S" <=> ~Before'
  <2>1. CASE a = "F"
    BY <1>3, <1>5, <1>8, <2>1 DEF Before
  <2>2. CASE a = "S" /\ Mount(k) /\ mounted' = mounted \cup {Asked(k)}
    <3>1. o.kind = "mount" /\ mounted' # {}
      BY <1>2, <1>4, <2>2 DEF Mount, At
    <3> QED
      BY <1>8, <2>2, <3>1 DEF Before
  <2>3. CASE a = "S" /\ Unmount(k) /\ Asked(k) \in mounted /\ mounted' = mounted \ {Asked(k)}
    <3>1. o.kind # "mount" /\ mounted' = {}
      BY <1>2, <1>4, <1>7, <2>3 DEF Unmount, At
    <3> QED
      BY <1>8, <2>3, <3>1 DEF Before
  <2> QED
    BY <1>5, <2>1, <2>2, <2>3
<1>10. OnItsWay(k)'
  BY <1>3, <1>6, <1>9 DEF OnItsWay
<1>11. OneDisc'
  <2>1. session \in Sessions
    BY DEF DiscsInv, AnswersInv, Calls
  <2>2. \A p \in session[Swing] : Mounts(p) => Head(p.first) = Head(o.first)
    BY <1>2, <1>3, <2>1 DEF OnlyTheToggle
  <2>3. mounted' \subseteq {Head(o.first)}
    BY <1>4, <1>5, <1>7
  <2> QED
    BY <2>2, <2>3 DEF OneDisc
<1> QED
  BY <1>2, <1>6, <1>10, <1>11, QuestionGoesOn DEF DiscsInv, DiscsTold

LEMMA HandlerTells ==
  ASSUME DiscsInv, ~raced, ~left, OnlyTheToggle, NEW k \in Conn, Handler(k)
  PROVE  DiscsTold'
<1>1. UNCHANGED <<threadVars, inbox, outbox, session>>
  BY DEF Handler, wireVars, modeVars
<1>2. CASE Mount(k) \/ Unmount(k)
  BY <1>1, <1>2, MountTells
<1>3. CASE ~(Mount(k) \/ Unmount(k))
  <2>1. pc[k] \in (ProcessStep \cup ManageStep) \ {"mount", "umount"}
    BY <1>3
    DEF Handler, ProcessHandler, Find, Active, Interrupt, Quit, Kill, HangUp, ManageHandler,
        RunOn, Open, ReadSalt, ReadHash, Truncate, Write, Script, At, ProcessStep, ManageStep
  <2>2. UNCHANGED mounted
    BY <1>3
    DEF Handler, manageVars, ManageHandler, RunOn, Open, ReadSalt, ReadHash, Truncate, Write,
        Script
  <2>3. \/ \E s \in Steps \ {"mount", "umount"} : Proceed(k, s)
        \/ \E a \in {"Y", "N", "S", "F"} : Finish(k, a)
        \/ RunOn(k)
    <3>1. CASE ProcessHandler(k)
      BY <3>1
      DEF ProcessHandler, Find, Active, Interrupt, Quit, Kill, HangUp, NotActive, FirstStep,
          SendSignal, Delivered, Steps, ProcessStep
    <3>2. CASE ManageHandler(k)
      BY <1>3, <3>2
      DEF ManageHandler, Open, ReadSalt, ReadHash, Truncate, Write, Script, Steps, ManageStep
    <3> QED
      BY <3>1, <3>2 DEF Handler
  <2>4. PICK s \in Steps \ {"mount", "umount"} : Goto(k, s)
    <3>1. RunOn(k) => Goto(k, "open") \/ Goto(k, "done")
      BY RunOnGoes DEF DiscsInv, AnswersInv, ServerFunctions
    <3>2. {"open", "done", "reply"} \subseteq Steps \ {"mount", "umount"}
      BY DEF Steps, ServerStep, ManageStep
    <3> QED
      BY <2>3, <3>1, <3>2 DEF Proceed, Finish
  <2>5. \A i \in Conn \ {k} : answer'[i] = answer[i] /\ request'[i] = request[i]
    BY <2>3 DEF RunOn, Proceed, Finish, DiscsInv, AnswersInv, ServerFunctions
  <2> QED
    BY <1>1, <2>1, <2>2, <2>4, <2>5, HandlerElsewhereTells
<1> QED
  BY <1>2, <1>3

LEMMA SendReplyTells ==
  ASSUME DiscsInv, ~raced, ~left, NEW k \in Conn, SendReply(k)
  PROVE  DiscsTold'
<1>1. /\ pc[k] = "reply"
      /\ UNCHANGED <<threadVars, inbox, session, mounted, request>>
  BY DEF SendReply, At, modeVars, Leave
<1>2. /\ pc'[k] = "done" /\ outbox'[k] = answer[k]
      /\ \A i \in Conn \ {k} :
            pc'[i] = pc[i] /\ answer'[i] = answer[i] /\ outbox'[i] = outbox[i]
  BY DEF SendReply, Leave, Goto, DiscsInv, AnswersInv, ServerFunctions
<1>3. CASE k = sd /\ Sent /\ Mounts(op[Swing])
  <2>1. inbox[k] = <<>> /\ (answer[k] = "S" <=> ~Before)
    BY <1>1, <1>3, QuestionSent DEF OnItsWay
  <2>2. OnItsWay(k)'
    BY <1>1, <1>2, <2>1 DEF OnItsWay, Before, threadVars
  <2>3. OneDisc'
    BY <1>1 DEF DiscsInv, DiscsTold, OneDisc
  <2> QED
    BY <1>1, <1>2, <1>3, <2>2, <2>3, QuestionGoesOn DEF DiscsInv, DiscsTold
<1>4. CASE ~(k = sd /\ Sent /\ Mounts(op[Swing]))
  <2>1. \A i \in Conn : Stirs(i)' => Stirs(i)
    BY <1>1, <1>2 DEF Stirs
  <2>2. Mounts(op[Swing]) /\ Sent =>
            /\ pc'[sd] = pc[sd] /\ inbox'[sd] = inbox[sd] /\ outbox'[sd] = outbox[sd]
            /\ request'[sd] = request[sd] /\ answer'[sd] = answer[sd]
    BY <1>1, <1>2, <1>4, QuestionSent
  <2> QED
    BY <1>1, <2>1, <2>2, ElsewhereTells DEF threadVars, DiscsInv, DiscsTold
<1> QED
  BY <1>3, <1>4

LEMMA OrphanTells ==
  ASSUME DiscsInv, ~raced, ~left, NEW k \in Conn, Orphan(k)
  PROVE  DiscsTold'
<1>1. /\ ~Referred(k) /\ Goto(k, "done")
      /\ UNCHANGED <<threadVars, wireVars, session, mounted, request, answer>>
  BY DEF Orphan, Proceed, modeVars, manageVars
<1>2. pc'[k] = "done" /\ \A i \in Conn \ {k} : pc'[i] = pc[i]
  BY <1>1 DEF Goto, DiscsInv, AnswersInv, ServerFunctions
<1>3. k # sd
  BY <1>1 DEF Referred
<1>4. \A i \in Conn : Stirs(i)' => Stirs(i)
  BY <1>1, <1>2 DEF Stirs, wireVars
<1>5. Mounts(op[Swing]) /\ Sent =>
            /\ pc'[sd] = pc[sd] /\ inbox'[sd] = inbox[sd] /\ outbox'[sd] = outbox[sd]
            /\ request'[sd] = request[sd] /\ answer'[sd] = answer[sd]
  BY <1>1, <1>2, <1>3, QuestionSent DEF wireVars
<1> QED
  BY <1>1, <1>4, <1>5, ElsewhereTells DEF threadVars, DiscsInv, DiscsTold

-----------------------------------------------------------------------------
\* The threads.

LEMMA SwingIsGui == Swing \in Gui /\ Swing \in Thread /\ Swing \notin Client
  BY NobodyIsBoth DEF Gui, Thread

\* What another thread than the event thread does, as long as they do not meet.
LEMMA OtherThreadTells ==
  ASSUME DiscsInv, ~raced, ~left, NEW t \in Thread \ {Swing},
         UNCHANGED <<mounted, session, toggle>>,
         op'[Swing] = op[Swing], tpc'[Swing] = tpc[Swing],
         Meddles(Swing) => UNCHANGED <<sd, response>>,
         \A k \in Conn : Stirs(k)' => Stirs(k),
         Meddles(Swing) => \A k \in Conn : k = sd =>
            /\ pc'[k] = pc[k] /\ inbox'[k] = inbox[k] /\ outbox'[k] = outbox[k]
            /\ request'[k] = request[k] /\ answer'[k] = answer[k]
  PROVE  DiscsTold'
<1>1. Mounts(op[Swing]) /\ Sent =>
            /\ pc'[sd] = pc[sd] /\ inbox'[sd] = inbox[sd] /\ outbox'[sd] = outbox[sd]
            /\ request'[sd] = request[sd] /\ answer'[sd] = answer[sd]
  BY QuestionSent DEF Sent, Meddles
<1>2. tpc[Swing] = "judge" => response' = response
  BY DEF Meddles
<1> QED
  BY <1>1, <1>2, ElsewhereTells DEF DiscsInv, DiscsTold

\* Another thread sends nothing that mounts.
LEMMA OthersDoNot ==
  ASSUME AnswersInv, OnlyTheToggle, NEW t \in Thread \ {Swing}, NEW o \in session[t]
  PROVE  ~Mounts(o)
  BY DEF OnlyTheToggle, AnswersInv, Calls

LEMMA BeginTells ==
  ASSUME DiscsInv, ~raced, ~left, OnlyTheToggle,
         NEW t \in Thread, NEW o \in session[t], Begin(t, o)
  PROVE  DiscsTold'
<1>1. /\ tpc[t] = "idle" /\ op' = [op EXCEPT ![t] = o] /\ tpc' = [tpc EXCEPT ![t] = "connect"]
      /\ UNCHANGED <<childVars, wireVars, mounted, session, sd, response>>
      /\ o.kind = "mount" => ~toggle
      /\ o.kind = "unmount" => toggle
      /\ toggle' = IF Mounts(o) THEN ~toggle ELSE toggle
  BY DEF Begin, Promise, ThreadGoto, modeVars, manageVars, Mounts
<1>2. /\ op'[t] = o /\ tpc'[t] = "connect"
      /\ \A i \in Thread \ {t} : op'[i] = op[i] /\ tpc'[i] = tpc[i]
  BY <1>1 DEF DiscsInv, AnswersInv, ThreadFunctions
<1>3. \A k \in Conn : Stirs(k)' = Stirs(k)
  BY <1>1 DEF Stirs, childVars, wireVars
<1>4. CASE t = Swing
  <2>1. \A k \in Conn : ~Stirs(k)
    BY <1>1, <1>4 DEF DiscsInv, DiscsTold, StirsOnlyIf, Sent
  <2>2. StirsOnlyIf'
    BY <1>3, <2>1 DEF StirsOnlyIf
  <2>3. toggle <=> mounted # {}
    BY <1>1, <1>4 DEF DiscsInv, DiscsTold, ToggleTold, InClick
  <2>4. ASSUME Mounts(o)
        PROVE  InClick'
    <3>1. (toggle' <=> o.kind = "mount") /\ (mounted = {} <=> o.kind = "mount")
      BY <1>1, <2>3, <2>4 DEF Mounts
    <3> QED
      BY <1>1, <1>2, <1>4, <3>1 DEF InClick, Before, Sent
  <2>5. ToggleTold'
    BY <1>1, <1>2, <1>4, <2>3, <2>4 DEF ToggleTold
  <2>6. OneDisc'
    BY <1>1 DEF DiscsInv, DiscsTold, OneDisc
  <2> QED
    BY <2>2, <2>5, <2>6 DEF DiscsTold
<1>5. CASE t # Swing
  <2>1. ~Mounts(o)
    BY <1>5, OthersDoNot DEF DiscsInv
  <2> QED
    BY <1>1, <1>2, <1>3, <1>5, <2>1, SwingIsGui, OtherThreadTells DEF childVars, wireVars
<1> QED
  BY <1>4, <1>5

LEMMA ClientCallsTells ==
  ASSUME DiscsInv, ~raced, ~left, OnlyTheToggle,
         NEW t \in Thread, NEW o \in session[t], ClientCalls(t, o)
  PROVE  DiscsTold'
<1>1. PICK k \in Conn :
        /\ Accept(k)
        /\ inbox' = [inbox EXCEPT ![k] = Messages(o)] \/ UNCHANGED inbox
        /\ \/ mine' = [mine EXCEPT ![t] = k] /\ ThreadGoto(t, "wait")
           \/ UNCHANGED <<mine, tpc>>
  BY DEF ClientCalls
<1>2. /\ t \in Client /\ op' = [op EXCEPT ![t] = o]
      /\ UNCHANGED <<outbox, mounted, session, sd, response, toggle>>
  BY DEF ClientCalls, Promise, modeVars, manageVars
<1>3. /\ t # Swing /\ t \in Thread \ {Swing}
      /\ op'[Swing] = op[Swing] /\ tpc'[Swing] = tpc[Swing]
  BY <1>1, <1>2, SwingIsGui DEF ThreadGoto, DiscsInv, AnswersInv, ThreadFunctions
<1>4. /\ pc[k] = "none" /\ UNCHANGED <<request, answer>>
      /\ pc'[k] \in {"receive", "done"} /\ \A i \in Conn \ {k} : pc'[i] = pc[i]
  BY <1>1 DEF Accept, At, Proceed, Goto, DiscsInv, AnswersInv, ServerFunctions
<1>5. k # sd
  BY <1>4 DEF DiscsInv, AnswersInv, Unused, Referred
<1>6. /\ \A i \in Conn \ {k} : inbox'[i] = inbox[i]
      /\ inbox'[k] = Messages(o) \/ inbox'[k] = inbox[k]
  BY <1>1 DEF DiscsInv, AnswersInv, ServerFunctions
<1>7. ~Stirs(k)'
  <2>1. \A i \in DOMAIN Messages(o) : Messages(o)[i].command \notin {"MM", "MU"}
    BY <1>3, OthersDoNot, OtherMessage DEF DiscsInv
  <2>2. \A i \in DOMAIN inbox[k] : inbox[k][i].command \notin {"MM", "MU"}
    BY <1>5 DEF DiscsInv, DiscsTold, StirsOnlyIf, Stirs
  <2> QED
    BY <1>4, <1>6, <2>1, <2>2 DEF Stirs
<1>8. \A i \in Conn : Stirs(i)' => Stirs(i)
  BY <1>4, <1>6, <1>7 DEF Stirs
<1> QED
  BY <1>2, <1>3, <1>4, <1>5, <1>6, <1>8, OtherThreadTells

LEMMA ConnectTells ==
  ASSUME DiscsInv, ~raced', ~left, NEW t \in Thread, Connect(t)
  PROVE  DiscsTold'
<1>1. /\ tpc[t] = "connect" /\ ~raced /\ ~Busy(t) /\ t \in Gui
      /\ UNCHANGED <<wireVars, mounted, session, op, response, toggle>>
  BY DEF Connect, modeVars, manageVars, DiscsInv, AnswersInv, Calls, Thread
<1>2. /\ \A k \in Conn : Stirs(k)' => Stirs(k)
      /\ \A k \in Conn : pc'[k] = pc[k] \/ k # sd
      /\ UNCHANGED <<request, answer>>
  <2>1. CASE UNCHANGED childVars
    BY <1>1, <2>1 DEF Stirs, childVars, wireVars
  <2>2. CASE \E k \in Conn : Accept(k)
    <3>1. PICK k \in Conn : Accept(k)
      BY <2>2
    <3>2. /\ pc[k] = "none" /\ UNCHANGED <<request, answer>>
          /\ pc'[k] \in {"receive", "done"} /\ \A i \in Conn \ {k} : pc'[i] = pc[i]
      BY <3>1 DEF Accept, At, Proceed, Goto, DiscsInv, AnswersInv, ServerFunctions
    <3>3. k # sd
      BY <3>2 DEF DiscsInv, AnswersInv, Unused, Referred
    <3> QED
      BY <1>1, <3>2, <3>3 DEF Stirs, wireVars
  <2> QED
    BY <2>1, <2>2 DEF Connect
<1>3. /\ tpc'[t] = IF sd' = 0 THEN "read" ELSE "send"
      /\ \A i \in Thread \ {t} : tpc'[i] = tpc[i]
  BY DEF Connect, ThreadGoto, DiscsInv, AnswersInv, ThreadFunctions
<1>4. CASE t = Swing
  <2>1. \A k \in Conn : ~Stirs(k)'
    BY <1>1, <1>2, <1>4 DEF DiscsInv, DiscsTold, StirsOnlyIf, Sent
  <2>2. StirsOnlyIf'
    BY <2>1 DEF StirsOnlyIf
  <2>3. ToggleTold'
    BY <1>1, <1>3, <1>4 DEF DiscsInv, DiscsTold, ToggleTold, InClick, Sent, Before
  <2>4. OneDisc'
    BY <1>1 DEF DiscsInv, DiscsTold, OneDisc
  <2> QED
    BY <2>2, <2>3, <2>4 DEF DiscsTold
<1>5. CASE t # Swing
  <2>1. ~Meddles(Swing)
    BY <1>1, <1>5, SwingIsGui DEF Busy, Meddles
  <2> QED
    BY <1>1, <1>2, <1>3, <1>5, <2>1, SwingIsGui, OtherThreadTells
<1> QED
  BY <1>4, <1>5

\* Only one thread of the GUI is using the socket field.
LEMMA SwingAlone ==
  ASSUME DiscsInv, ~raced, ~left, NEW t \in Gui \ {Swing}, Meddles(t)
  PROVE  ~Meddles(Swing)
  BY SwingIsGui DEF DiscsInv, AnswersInv, GuiInOrder

LEMMA SendTells ==
  ASSUME DiscsInv, ~raced, ~left, OnlyTheToggle, NEW t \in Thread, Send(t)
  PROVE  DiscsTold'
<1> DEFINE msg == Messages(op[t])[step[t]]
<1>1. /\ tpc[t] = "send" /\ t \in Gui
      /\ UNCHANGED <<childVars, outbox, mounted, session, sd, response, toggle>>
  BY DEF Send, modeVars, manageVars, DiscsInv, AnswersInv, Calls, Thread
<1>2. sd \in Conn /\ pc[sd] = "receive" /\ inbox[sd] = <<>>
  BY <1>1 DEF DiscsInv, AnswersInv, GuiInOrder
<1>3. op[t] \in session[t] /\ step[t] \in 1 .. Len(Messages(op[t]))
  BY <1>1 DEF DiscsInv, AnswersInv, Calls
<1>4. /\ inbox' = [inbox EXCEPT ![sd] = Append(@, msg)] /\ ThreadGoto(t, "read")
      /\ UNCHANGED op
  BY <1>2 DEF Send, At, Conn
<1>5. inbox'[sd] = <<msg>> /\ \A k \in Conn \ {sd} : inbox'[k] = inbox[k]
  BY <1>2, <1>4 DEF DiscsInv, AnswersInv, ServerFunctions
<1>6. tpc'[t] = "read" /\ \A i \in Thread \ {t} : tpc'[i] = tpc[i]
  BY <1>4 DEF ThreadGoto, DiscsInv, AnswersInv, ThreadFunctions
<1> HIDE DEF msg
<1>7. ~Mounts(op[t]) => ~Stirs(sd)'
  <2>1. ~Mounts(op[t]) => msg.command \notin {"MM", "MU"}
    <3>1. Messages(op[t]) \in Seq(Request)
      BY <1>3, SessionAssumption DEF DiscsInv, AnswersInv, Calls
    <3>2. step[t] \in DOMAIN Messages(op[t])
      BY <1>3, <3>1
    <3> QED
      BY <3>2, OtherMessage DEF msg
  <2>2. ~Mounts(op[t]) => \A i \in DOMAIN inbox'[sd] : inbox'[sd][i].command \notin {"MM", "MU"}
    BY <1>5, <2>1
  <2>3. pc'[sd] = "receive"
    BY <1>1, <1>2 DEF childVars
  <2> QED
    BY <1>1, <2>2, <2>3 DEF Stirs
<1>8. \A k \in Conn \ {sd} : Stirs(k)' = Stirs(k)
  BY <1>1, <1>5 DEF Stirs, childVars
<1>9. CASE t = Swing
  <2>1. \A k \in Conn : ~Stirs(k)
    BY <1>1, <1>9 DEF DiscsInv, DiscsTold, StirsOnlyIf, Sent
  <2>2. sd # 0
    BY <1>2 DEF Conn
  <2>3. StirsOnlyIf'
    BY <1>1, <1>4, <1>6, <1>7, <1>8, <1>9, <2>1, <2>2 DEF StirsOnlyIf, Sent
  <2>4. ASSUME Mounts(op[Swing])
        PROVE  InClick'
    <3>1. Before /\ (toggle <=> op[Swing].kind = "mount")
      BY <1>1, <1>9, <2>4 DEF DiscsInv, DiscsTold, ToggleTold, InClick
    <3>2. msg = Asking
      <4>1. Len(Messages(op[Swing])) = 1
        BY <2>4, ClickMessage
      <4>2. step[Swing] = 1
        BY <1>3, <1>9, <4>1
      <4> QED
        BY <1>9, <4>2 DEF msg, Asking
    <3>3. OnItsWay(sd)'
      BY <1>1, <1>2, <1>4, <1>5, <3>1, <3>2 DEF OnItsWay, Before, Asking, childVars
    <3> QED
      BY <1>1, <1>4, <1>6, <1>9, <2>2, <3>1, <3>3 DEF InClick, Before, Sent
  <2>5. ToggleTold'
    BY <1>1, <1>4, <2>4 DEF ToggleTold, DiscsInv, DiscsTold
  <2>6. OneDisc'
    BY <1>1 DEF DiscsInv, DiscsTold, OneDisc
  <2> QED
    BY <2>3, <2>5, <2>6 DEF DiscsTold
<1>10. CASE t # Swing
  <2>1. ~Meddles(Swing)
    BY <1>1, <1>10, SwingAlone DEF Meddles
  <2>2. ~Mounts(op[t])
    BY <1>3, <1>10, OthersDoNot DEF DiscsInv
  <2> QED
    BY <1>1, <1>4, <1>6, <1>7, <1>8, <1>10, <2>1, <2>2, SwingIsGui, OtherThreadTells
<1> QED
  BY <1>9, <1>10

LEMMA ReadTells ==
  ASSUME DiscsInv, ~raced, ~left, NEW t \in Thread, Read(t)
  PROVE  DiscsTold'
<1>1. /\ tpc[t] = "read" /\ t \in Gui
      /\ UNCHANGED <<childVars, wireVars, mounted, session, sd, toggle, op>>
  BY DEF Read, modeVars, manageVars, DiscsInv, AnswersInv, Calls, Thread
<1>2. /\ \/ sd = 0 /\ tpc'[t] = "judge" /\ response' = "F"
         \/ sd # 0 /\ tpc'[t] = "wait"
      /\ \A i \in Thread \ {t} : tpc'[i] = tpc[i]
  BY DEF Read, ThreadGoto, DiscsInv, AnswersInv, ThreadFunctions
<1>3. \A k \in Conn : Stirs(k)' = Stirs(k)
  BY <1>1 DEF Stirs, childVars, wireVars
<1>4. CASE t = Swing
  <2>1. Sent' = Sent
    BY <1>1, <1>2, <1>4 DEF Sent
  <2>2. StirsOnlyIf'
    BY <1>1, <1>3, <2>1 DEF StirsOnlyIf, DiscsInv, DiscsTold
  <2>3. ASSUME Mounts(op[Swing])
        PROVE  InClick'
    <3>1. InClick
      BY <2>3 DEF DiscsInv, DiscsTold, ToggleTold
    <3>2. Before' = Before /\ (sd # 0 => OnItsWay(sd)' = OnItsWay(sd))
      BY <1>1 DEF Before, OnItsWay, Asking, childVars, wireVars
    <3> QED
      BY <1>1, <1>2, <1>4, <2>1, <3>1, <3>2 DEF InClick, Sent
  <2>4. ToggleTold'
    BY <1>1, <2>3 DEF ToggleTold, DiscsInv, DiscsTold
  <2>5. OneDisc'
    BY <1>1 DEF DiscsInv, DiscsTold, OneDisc
  <2> QED
    BY <2>2, <2>4, <2>5 DEF DiscsTold
<1>5. CASE t # Swing
  <2>1. ~Meddles(Swing)
    BY <1>1, <1>5, SwingAlone DEF Meddles
  <2> QED
    BY <1>1, <1>2, <1>3, <1>5, <2>1, SwingIsGui, OtherThreadTells
<1> QED
  BY <1>4, <1>5

LEMMA WaitTells ==
  ASSUME DiscsInv, ~raced, ~left, NEW t \in Thread, Wait(t)
  PROVE  DiscsTold'
<1> DEFINE k == mine[t]
<1>1. /\ tpc[t] = "wait"
      /\ outbox[k] # "-" \/ pc[k] = "done"
      /\ outbox' = [outbox EXCEPT ![k] = "-"]
      /\ UNCHANGED <<childVars, inbox, mounted, session, sd, toggle>>
  BY DEF Wait, At, modeVars, manageVars
<1>2. /\ \A i \in Thread \ {t} : tpc'[i] = tpc[i] /\ op'[i] = op[i]
      /\ t \in Gui => response' = outbox[k] /\ tpc'[t] = "judge" /\ op'[t] = op[t]
      /\ t \notin Gui => UNCHANGED response
  BY DEF Wait, End, ThreadGoto, DiscsInv, AnswersInv, ThreadFunctions
<1>3. \A i \in Conn : Stirs(i)' = Stirs(i)
  BY <1>1 DEF Stirs, childVars
<1>4. \A i \in Conn \ {k} : outbox'[i] = outbox[i]
  BY <1>1 DEF DiscsInv, AnswersInv, ServerFunctions
<1>5. CASE t = Swing
  <2>1. k = sd /\ sd \in Conn
    BY <1>1, <1>5, SwingIsGui DEF DiscsInv, AnswersInv, GuiInOrder
  <2>2. pc[sd] = "done"
    BY <1>1, <2>1 DEF DiscsInv, Unsent
  <2>3. Sent
    BY <1>1, <1>5, <2>1 DEF Sent, Conn
  <2>4. Mounts(op[Swing]) => inbox[sd] = <<>> /\ (outbox[sd] = "S" <=> ~Before)
    BY <2>2, <2>3, QuestionSent DEF OnItsWay
  <2>5. \A i \in Conn : ~Stirs(i)
    BY <2>2, <2>4 DEF DiscsInv, DiscsTold, StirsOnlyIf, Stirs
  <2>6. StirsOnlyIf'
    BY <1>3, <2>5 DEF StirsOnlyIf
  <2>7. op'[Swing] = op[Swing] /\ tpc'[Swing] = "judge" /\ response' = outbox[sd]
    BY <1>2, <1>5, <2>1, SwingIsGui
  <2>8. ToggleTold'
    <3>1. ASSUME Mounts(op[Swing])
          PROVE  InClick'
      BY <1>1, <2>4, <2>7, <3>1 DEF DiscsInv, DiscsTold, ToggleTold, InClick, Before, Sent
    <3> QED
      BY <1>1, <2>7, <3>1 DEF ToggleTold, DiscsInv, DiscsTold
  <2>9. OneDisc'
    BY <1>1 DEF DiscsInv, DiscsTold, OneDisc
  <2> QED
    BY <2>6, <2>8, <2>9 DEF DiscsTold
<1>6. CASE t # Swing
  <2>1. Meddles(Swing) => t \in Client
    BY <1>1, <1>6, SwingAlone, NobodyIsBoth DEF Meddles
  <2>2. t \in Client => k # sd /\ UNCHANGED response
    BY <1>1, <1>2, NobodyIsBoth DEF DiscsInv, AnswersInv, ClientInOrder
  <2>3. /\ op'[Swing] = op[Swing] /\ tpc'[Swing] = tpc[Swing]
        /\ Meddles(Swing) => UNCHANGED <<sd, response>>
    BY <1>1, <1>2, <1>6, <2>1, <2>2, SwingIsGui
  <2>4. Meddles(Swing) => \A i \in Conn : i = sd => outbox'[i] = outbox[i]
    BY <1>4, <2>1, <2>2
  <2> QED
    BY <1>1, <1>3, <1>6, <2>3, <2>4, OtherThreadTells DEF childVars
<1> QED
  BY <1>5, <1>6

LEMMA JudgeTells ==
  ASSUME DiscsInv, ~raced, ~left, OnlyTheToggle, NEW t \in Thread, Judge(t)
  PROVE  DiscsTold'
<1>1. /\ tpc[t] = "judge" /\ t \in Gui
      /\ UNCHANGED <<childVars, wireVars, mounted, session, sd, response>>
      /\ toggle' = IF Mounts(op[t]) /\ ~Yes(t) THEN ~toggle ELSE toggle
  BY DEF Judge, modeVars, manageVars, DiscsInv, AnswersInv, Calls, Thread, Mounts
<1>2. op[t] \in session[t] /\ step[t] \in 1 .. Len(Messages(op[t]))
  BY <1>1 DEF DiscsInv, AnswersInv, Calls
<1>3. /\ \A i \in Thread \ {t} : tpc'[i] = tpc[i] /\ op'[i] = op[i]
      /\ op'[t] = op[t] \/ op'[t] = Nothing
  BY DEF Judge, NextMessage, End, ThreadGoto, DiscsInv, AnswersInv, ThreadFunctions
<1>4. \A k \in Conn : Stirs(k)' = Stirs(k)
  BY <1>1 DEF Stirs, childVars, wireVars
<1>5. CASE t = Swing
  <2>1. \A k \in Conn : ~Stirs(k)
    BY <1>1, <1>5 DEF DiscsInv, DiscsTold, StirsOnlyIf, Sent
  <2>2. StirsOnlyIf'
    BY <1>4, <2>1 DEF StirsOnlyIf
  <2>3. ASSUME Mounts(op[Swing])
        PROVE  ToggleTold'
    <3>1. Len(Messages(op[Swing])) = 1 /\ Good(Asking) = "S"
      BY <2>3, ClickMessage DEF Asking
    <3>2. step[Swing] = 1
      BY <1>2, <1>5, <3>1
    <3>3. ~GoesOn(op[Swing], step[Swing], Yes(Swing))
      BY <3>1, <3>2 DEF GoesOn
    <3>4. op'[Swing] = Nothing
      BY <1>5, <3>3 DEF Judge, NextMessage, End, DiscsInv, AnswersInv, ThreadFunctions
    <3>5. Yes(Swing) <=> ~Before
      BY <1>1, <1>5, <2>3, <3>1, <3>2
      DEF Yes, Asking, DiscsInv, DiscsTold, ToggleTold, InClick
    <3>6. toggle <=> op[Swing].kind = "mount"
      BY <2>3 DEF DiscsInv, DiscsTold, ToggleTold, InClick
    <3>7. toggle' <=> mounted # {}
      BY <1>1, <1>5, <2>3, <3>5, <3>6 DEF Before
    <3> QED
      BY <1>1, <3>4, <3>7 DEF ToggleTold, Mounts, Nothing
  <2>4. ASSUME ~Mounts(op[Swing])
        PROVE  ToggleTold'
    BY <1>1, <1>3, <1>5, <2>4 DEF ToggleTold, Mounts, Nothing, DiscsInv, DiscsTold
  <2>5. OneDisc'
    BY <1>1 DEF DiscsInv, DiscsTold, OneDisc
  <2> QED
    BY <2>2, <2>3, <2>4, <2>5 DEF DiscsTold
<1>6. CASE t # Swing
  <2>1. ~Meddles(Swing)
    BY <1>1, <1>6, SwingAlone DEF Meddles
  <2>2. ~Mounts(op[t])
    BY <1>2, <1>6, OthersDoNot DEF DiscsInv
  <2> QED
    BY <1>1, <1>3, <1>4, <1>6, <2>1, <2>2, SwingIsGui, OtherThreadTells
<1> QED
  BY <1>5, <1>6

-----------------------------------------------------------------------------
\* Nobody takes a reply before the child that gave it is done.
LEMMA UnsentNext == DiscsInv /\ [Next]_vars => Unsent'
<1> SUFFICES ASSUME DiscsInv, [Next]_vars
             PROVE  Unsent'
  OBVIOUS
<1>1. ASSUME NEW k \in Conn, \E s : Goto(k, s),
             pc[k] # "done",
             pc'[k] # "done" => UNCHANGED outbox,
             \A i \in Conn \ {k} : outbox'[i] = outbox[i]
      PROVE  Unsent'
  BY <1>1 DEF Goto, DiscsInv, Unsent, AnswersInv, ServerFunctions
<1>2. ASSUME UNCHANGED childVars, \A i \in Conn : outbox'[i] \in {outbox[i], "-"}
      PROVE  Unsent'
  BY <1>2 DEF childVars, DiscsInv, Unsent
<1>3. ASSUME NEW k \in Conn, Receive(k) \/ Handler(k) \/ Orphan(k) \/ Accept(k),
             UNCHANGED outbox
      PROVE  Unsent'
  <2>1. pc[k] # "done" /\ \E s : Goto(k, s)
    BY <1>3, RunOnGoes
    DEF DiscsInv, AnswersInv, ServerFunctions, Receive, Orphan, Accept, Handler,
        ProcessHandler, Find, Active, Interrupt, Quit, Kill,
        HangUp, NotActive, FirstStep, SendSignal, Delivered, ManageHandler, Open, ReadSalt,
        ReadHash, Truncate, Write, Mount, Unmount, Script, Proceed, Finish, At
  <2> QED
    BY <1>1, <1>3, <2>1
<1>4. ASSUME NEW k \in Conn, SendReply(k)
      PROVE  Unsent'
  <2>1. /\ pc[k] = "reply" /\ Goto(k, "done") /\ pc'[k] = "done"
        /\ \A i \in Conn \ {k} : outbox'[i] = outbox[i]
    BY <1>4 DEF SendReply, Leave, At, Goto, DiscsInv, AnswersInv, ServerFunctions
  <2> QED
    BY <1>1, <2>1
<1>5. CASE Server
  BY <1>3, <1>4, <1>5 DEF Server, Receive, Handler, wireVars
<1>6. ASSUME NEW t \in Thread, InCall(t)
      PROVE  Unsent'
  <2>1. CASE Wait(t)
    BY <1>2, <2>1 DEF Wait, DiscsInv, AnswersInv, ServerFunctions
  <2>2. CASE Connect(t)
    BY <1>2, <1>3, <2>2 DEF Connect, wireVars
  <2>3. CASE Send(t) \/ Read(t) \/ Judge(t)
    BY <1>2, <2>3 DEF Send, Read, Judge, wireVars
  <2> QED
    BY <1>6, <2>1, <2>2, <2>3 DEF InCall
<1>7. CASE Users
  <2>1. PICK t \in Thread : \E o \in session[t] : Begin(t, o) \/ ClientCalls(t, o)
    BY <1>7 DEF Users
  <2> QED
    BY <1>2, <1>3, <2>1 DEF Begin, ClientCalls, wireVars
<1>8. CASE Reboot
  BY <1>8 DEF Reboot, WireReboot, Each, Unsent
<1>9. CASE Surroundings
  BY <1>2, <1>3, <1>8, <1>9 DEF Surroundings, Orphan, GuiRestarts, wireVars
<1>10. CASE UNCHANGED vars
  BY <1>2, <1>10 DEF vars, wireVars
<1> QED
  BY <1>5, <1>6, <1>7, <1>9, <1>10 DEF Next

\* A reboot unmounts the disc, and the GUI starts with the toggle as it is then.
LEMMA RebootTells ==
  ASSUME DiscsInv, Reboot
  PROVE  DiscsTold'
<1>1. \A k \in Conn : pc'[k] = "none" /\ inbox'[k] = <<>>
  BY DEF Reboot, ChildReboot, WireReboot, Each
<1>2. op'[Swing] = Nothing /\ toggle' = FALSE /\ mounted' = {}
  BY DEF Reboot, ThreadReboot, ManageReboot, EachThread, Thread, Gui
<1>3. StirsOnlyIf'
  BY <1>1 DEF StirsOnlyIf, Stirs
<1>4. ToggleTold' /\ OneDisc'
  BY <1>2 DEF ToggleTold, Mounts, Nothing, OneDisc
<1> QED
  BY <1>3, <1>4 DEF DiscsTold

LEMMA StutterTells ==
  ASSUME DiscsInv, ~raced, ~left,
         UNCHANGED <<childVars, manageVars, threadVars, wireVars, session>>
  PROVE  DiscsTold'
<1>1. \A k \in Conn : Stirs(k)' = Stirs(k)
  BY DEF Stirs, childVars, wireVars
<1> QED
  BY <1>1, ElsewhereTells DEF childVars, manageVars, threadVars, wireVars, DiscsInv, DiscsTold

\* A GUI that ends with nothing mounted and no click in hand leaves nothing behind.
LEMMA RestartTells ==
  ASSUME DiscsInv, GuiRestarts, ~left'
  PROVE  DiscsTold'
<1>1. ~raced /\ ~left /\ mounted = {} /\ ~Mounts(op[Swing])
  BY DEF GuiRestarts, Mounts
<1>2. op'[Swing] = Nothing /\ toggle' = FALSE /\ mounted' = {}
  BY <1>1, SwingIsGui DEF GuiRestarts, manageVars
<1>3. \A k \in Conn : ~Stirs(k)'
  BY <1>1 DEF GuiRestarts, childVars, wireVars, Stirs, DiscsInv, DiscsTold, StirsOnlyIf
<1>4. StirsOnlyIf' /\ ToggleTold' /\ OneDisc'
  BY <1>2, <1>3 DEF StirsOnlyIf, ToggleTold, Mounts, Nothing, OneDisc
<1> QED
  BY <1>4 DEF DiscsTold

LEMMA DiscsNext == DiscsInv /\ OnlyTheToggle /\ [Next]_vars => DiscsInv'
<1> SUFFICES ASSUME DiscsInv, OnlyTheToggle, [Next]_vars, ~raced', ~left'
             PROVE  DiscsTold'
  BY AnswersNext, UnsentNext DEF DiscsInv
<1>1. CASE Reboot \/ GuiRestarts
  BY <1>1, RebootTells, RestartTells
<1>2. CASE ~(Reboot \/ GuiRestarts)
  <2>1. ~raced /\ ~left
    <3>1. UNCHANGED <<raced, left>> \/ \E t \in Thread : Connect(t) /\ UNCHANGED left
      <4>1. CASE Server
        BY <4>1 DEF Server, Receive, Handler, SendReply, threadVars, modeVars
      <4>2. CASE \E t \in Thread : InCall(t)
        BY <4>2 DEF InCall, Connect, Send, Read, Wait, Judge, modeVars
      <4>3. CASE Users
        BY <4>3 DEF Users, Begin, ClientCalls, modeVars
      <4>4. CASE Surroundings
        BY <1>2, <4>4 DEF Surroundings, Orphan, threadVars, modeVars
      <4>5. CASE UNCHANGED vars
        BY <4>5 DEF vars, threadVars, modeVars
      <4> QED
        BY <4>1, <4>2, <4>3, <4>4, <4>5 DEF Next
    <3>2. CASE UNCHANGED <<raced, left>>
      BY <3>2
    <3>3. CASE \E t \in Thread : Connect(t) /\ UNCHANGED left
      <4>1. PICK t \in Thread : raced' = (raced \/ Busy(t)) /\ UNCHANGED left
        BY <3>3 DEF Connect
      <4> QED
        BY <4>1
    <3> QED
      BY <3>1, <3>2, <3>3
  <2>2. CASE Server
    BY <2>1, <2>2, ReceiveTells, HandlerTells, SendReplyTells DEF Server
  <2>3. ASSUME NEW t \in Thread, InCall(t)
        PROVE  DiscsTold'
    BY <2>1, <2>3, ConnectTells, SendTells, ReadTells, WaitTells, JudgeTells DEF InCall
  <2>4. CASE Users
    BY <2>1, <2>4, BeginTells, ClientCallsTells DEF Users
  <2>5. CASE Surroundings
    BY <1>2, <2>1, <2>5, OrphanTells, StutterTells DEF Surroundings, modeVars
  <2>6. CASE UNCHANGED vars
    BY <2>1, <2>6, StutterTells DEF vars, modeVars
  <2> QED
    BY <2>2, <2>3, <2>4, <2>5, <2>6 DEF Next
<1> QED
  BY <1>1, <1>2

\* Between two clicks the toggle of the GUI tells whether its disc is mounted, whatever
\* fails on the way (ToggleTellsMount): the drive, the connection, the daemon.  It is so
\* as long as nobody else mounts discs, the threads of the GUI have not met in the socket
\* field, and no GUI since the boot has ended with the disc mounted or a click unanswered.
THEOREM ToggleTellsTruly ==
  ASSUME OnlyTheToggle
  PROVE  Spec => []ToggleTellsMount
<1>1. DiscsInv /\ [Next]_vars => DiscsInv'
  BY DiscsNext
<1> QED
  BY <1>1, DiscsInit, DiscsHold, PTL DEF Spec
=============================================================================
