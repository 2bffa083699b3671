---------------------------- MODULE JanixProcess ----------------------------
(***************************************************************************)
(* The PROCESS requests of the Janix daemon (src/janix/Janix.c): is a      *)
(* program active, kill it, restart it.  The daemon knows a program by its *)
(* pid file, looks the pid up in /proc and signals it, in steps of its own *)
(* between which programs end and start.                                   *)
(*                                                                         *)
(* The pid is read into a buffer that still holds the daemon's own pid,    *)
(* and read() ends nothing: a file with fewer digits keeps the last digits *)
(* of the daemon's, and an empty one all of them.                          *)
(***************************************************************************)
EXTENDS JanixRequest, FiniteSets

CONSTANTS
    Program,    \* the programs that have a pid file, but Janix
    Pid,        \* process ids
    JanixPid,   \* the daemon's
    Absent,     \* no pid file
    Blank,      \* a pid file without a pid
    Overlay,    \* what a pid file's content reads as
    Garbage,    \* whether a struct stat() left alone may look like a directory
    MaxChanges  \* bound: programs that end or start between two boots

Content == Pid \cup {Blank}
Named == Program \cup {"Janix"}

ASSUME ProgramAssumption == Program \subseteq Atom /\ "Janix" \in Atom \ Program
ASSUME PidAssumption ==
    /\ JanixPid \in Pid
    /\ Absent \notin Content /\ Blank \notin Pid
ASSUME OverlayAssumption == Overlay \in [Content -> Pid] /\ Overlay[Blank] = JanixPid
ASSUME OtherAssumption == {"free", "other"} \cap Named = {}
ASSUME GarbageAssumption == Garbage \subseteq BOOLEAN
ASSUME ChangesAssumption == MaxChanges \in Nat

VARIABLES
    runs,       \* the program that has each pid: "free", or "other" for a
                \* program without a pid file
    pidfile,    \* /var/run/NAME.pid of each program
    target,     \* the pid each child will signal
    \* what happened since the machine booted:
    changes,    \* programs that ended or started
    freed,      \* pids whose program has ended
    misread,    \* children that took a pid that is not the one in the file
    struck      \* signals delivered: to which program, which one was meant, and
                \* whether the child had misread the pid, or its program ended

processVars == <<runs, pidfile, target, changes, freed, misread, struck>>

Signal == [meant : Atom, victim : Named \cup {"other"}, misread : BOOLEAN, freed : BOOLEAN]

ProcessTypeOK ==
    /\ runs \in [Pid -> Named \cup {"free", "other"}]
    /\ pidfile \in [Named -> Content \cup {Absent}]
    /\ target \in [Conn -> Pid]
    /\ changes \in 0 .. MaxChanges
    /\ freed \subseteq Pid
    /\ misread \subseteq Conn
    /\ struck \subseteq Signal

\* The machine has booted, which removes the old pid files, and nothing runs
\* but the daemon.
OnlyJanixRuns == [p \in Pid |-> IF p = JanixPid THEN "Janix" ELSE "free"]
OnlyJanixFile == [n \in Named |-> IF n = "Janix" THEN JanixPid ELSE Absent]

ProcessInit ==
    /\ runs = OnlyJanixRuns
    /\ pidfile = OnlyJanixFile
    /\ target = Each(JanixPid)
    /\ changes = 0
    /\ freed = {} /\ misread = {} /\ struck = {}

ProcessReboot ==
    /\ runs' = OnlyJanixRuns
    /\ pidfile' = OnlyJanixFile
    /\ target' = Each(JanixPid)
    /\ changes' = 0
    /\ freed' = {} /\ misread' = {} /\ struck' = {}

-----------------------------------------------------------------------------
\* The program a child is asked about.
Meant(k) == Head(request[k].text)

\* There is no such program: a query is answered, the others fail.
NotActive(k) == Finish(k, IF request[k].command = "P-" THEN "N" ELSE "F")

\* Mutant: the buffer keeps the daemon's pid although the read was complete.
FindUnread(k) ==
    /\ At(k, "find")
    /\ \/ /\ Meant(k) \notin Named \/ pidfile[Meant(k)] = Absent
          /\ NotActive(k)
          /\ UNCHANGED <<target, misread>>
       \/ /\ Meant(k) \in Named /\ pidfile[Meant(k)] # Absent
          /\ target' = [target EXCEPT ![k] = JanixPid]
          /\ misread' = IF Overlay[pidfile[Meant(k)]] # pidfile[Meant(k)]
                        THEN misread \cup {k} ELSE misread
          /\ Proceed(k, "active")
    /\ UNCHANGED <<runs, pidfile, changes, freed, struck>>

\* The pid file is opened and read.
Find(k) ==
    /\ At(k, "find")
    /\ \/ /\ Meant(k) \notin Named \/ pidfile[Meant(k)] = Absent
          /\ NotActive(k)
          /\ UNCHANGED <<target, misread>>
       \/ /\ Meant(k) \in Named /\ pidfile[Meant(k)] # Absent
          /\ LET content == pidfile[Meant(k)] IN
               /\ target' = [target EXCEPT ![k] = Overlay[content]]
               /\ misread' = IF Overlay[content] # content THEN misread \cup {k} ELSE misread
          /\ Proceed(k, "active")
    /\ UNCHANGED <<runs, pidfile, changes, freed, struck>>

\* The first signal of a request.  The daemon does not kill itself by name.
FirstStep(k) ==
    \/ request[k].command = "P-" /\ Finish(k, "Y")
    \/ request[k].command # "P-" /\ Meant(k) = "Janix" /\ Finish(k, "F")
    \/ request[k].command = "PK" /\ Meant(k) # "Janix" /\ Proceed(k, "int")
    \/ request[k].command = "PR" /\ Meant(k) # "Janix" /\ Proceed(k, "hup")

\* stat() of /proc/PID: when it fails its result is left as it was.
Active(k) ==
    /\ At(k, "active")
    /\ \/ runs[target[k]] = "free" /\ FALSE \in Garbage /\ NotActive(k)
       \/ runs[target[k]] # "free" /\ FirstStep(k)
       \/ runs[target[k]] = "free" /\ TRUE \in Garbage /\ FirstStep(k)
    /\ UNCHANGED processVars

\* kill() reaches whoever has the pid now.  SIGINT and SIGHUP end the daemon;
\* another program may take its time, or ignore them.
Delivered(k) ==
    /\ runs[target[k]] # "free"
    /\ struck' = struck \cup {[meant |-> Meant(k), victim |-> runs[target[k]],
                               misread |-> k \in misread, freed |-> target[k] \in freed]}
    /\ runs' = [runs EXCEPT ![target[k]] = IF @ = "Janix" THEN "free" ELSE @]
    /\ Finish(k, "S")
    /\ UNCHANGED <<pidfile, target, changes, freed, misread>>

\* kill() fails when nobody has it.
SendSignal(k, otherwise) ==
    \/ Delivered(k)
    \/ runs[target[k]] = "free" /\ otherwise /\ UNCHANGED processVars

Interrupt(k) == At(k, "int") /\ SendSignal(k, Proceed(k, "quit"))
Quit(k)      == At(k, "quit") /\ SendSignal(k, Proceed(k, "kill"))
Kill(k)      == At(k, "kill") /\ SendSignal(k, Finish(k, "F"))
HangUp(k)    == At(k, "hup") /\ SendSignal(k, Finish(k, "F"))

ProcessHandler(k) ==
    Find(k) \/ Active(k) \/ Interrupt(k) \/ Quit(k) \/ Kill(k) \/ HangUp(k)

-----------------------------------------------------------------------------
\* The programs, which the daemon does not control.

\* Nobody looks at them but a child that handles a request about one of them:
\* what they do before is left until there is one, which then finds it done.
Watched == \E k \in Conn : pc[k] \in ProcessStep /\ Meant(k) \in Program
Change  == Watched /\ changes < MaxChanges /\ changes' = changes + 1

\* A program starts and creates its pid file, as the daemon does its own.
ProgramStarts(n, p) ==
    /\ Change
    /\ runs[p] = "free" /\ \A q \in Pid : runs[q] # n
    /\ runs' = [runs EXCEPT ![p] = n]
    /\ pidfile' = [pidfile EXCEPT ![n] = Blank]
    /\ UNCHANGED <<target, freed, misread, struck>>

\* Then it writes its pid into it.
ProgramWritesPid(n, p) ==
    /\ Watched
    /\ runs[p] = n /\ pidfile[n] = Blank
    /\ pidfile' = [pidfile EXCEPT ![n] = p]
    /\ UNCHANGED <<runs, target, changes, freed, misread, struck>>

\* A program ends and leaves its pid file.
ProgramEnds(p) ==
    /\ Change
    /\ runs[p] \notin {"free", "Janix"}
    /\ runs' = [runs EXCEPT ![p] = "free"]
    /\ freed' = freed \cup {p}
    /\ UNCHANGED <<pidfile, target, misread, struck>>

\* The pid is given to a program that has no pid file.
OtherStarts(p) ==
    /\ Change
    /\ runs[p] = "free"
    /\ runs' = [runs EXCEPT ![p] = "other"]
    /\ UNCHANGED <<pidfile, target, freed, misread, struck>>

Programs ==
    \/ \E n \in Program, p \in Pid : ProgramStarts(n, p) \/ ProgramWritesPid(n, p)
    \/ \E p \in Pid : ProgramEnds(p) \/ OtherStarts(p)

-----------------------------------------------------------------------------
\* A signal reaches the program it is meant for, unless the pid file was read
\* as another pid or its program had ended and the pid was given away between
\* the check and the signal (or ever since the file was written).  The daemon
\* itself is only struck by a misread pid file: the guard against suicide
\* compares names.
StrikesTheNamed ==
    \A s \in struck :
        /\ s.victim = s.meant \/ s.misread \/ s.freed
        /\ s.victim = "Janix" => s.misread
=============================================================================
