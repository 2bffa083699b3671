------------------------------ MODULE SyncNode ------------------------------
(***************************************************************************)
(* The first synchronization of a beta that is being installed with its    *)
(* alpha: the installer's worker sync_with_alpha()                         *)
(* (src/unix-packages/NETWORK.C), the script it forks for one network      *)
(* device after the other (SYNC_NOD.SH), and the start of drbd that the    *)
(* script leaves in the background.                                        *)
(*                                                                         *)
(* The worker reads the script's output line by line and gives a device up *)
(* when a line is as long as its buffer: rsync prints the path of every    *)
(* file it fetches.  It then closes the pipe and turns to the next device, *)
(* while the script goes on until it prints something more.                *)
(*                                                                         *)
(* A failed sync is repeated by the installer with an argument of another  *)
(* type, which it does not survive (InstallerWizard); here the computer is *)
(* then restarted.  fork() and pipe() do not fail.                         *)
(***************************************************************************)
EXTENDS Naturals, FiniteSets

CONSTANTS
    Cable,      \* the devices one of which may lead to the alpha
    LongPaths   \* may a path of the alpha fill the worker's buffer?

Dev == {0, 1}

ASSUME CableAssumption == Cable \subseteq Dev
ASSUME PathAssumption == LongPaths \subseteq BOOLEAN

VARIABLES
    cable,      \* the device that leads to the alpha
    worker,     \* sync_with_alpha(): its result, or "running"
    device,     \* the device its loop has come to
    script,     \* where each device's script is, or its exit status
    unread,     \* does a line that is too long wait in the script's pipe?
    long,       \* is a file with such a path still to be fetched?
    start,      \* the background "drbd start" of each script
    marks,      \* /tmp/drbd.failed, /tmp/drbd.success
    address,    \* the devices that have the beta's private address
    root,       \* the beta's root file system
    home        \* the beta's user data

wireVars == <<cable, long>>
workerVars == <<worker, device>>
scriptVars == <<script, unread, start, marks, address, root, home>>
syncVars == <<wireVars, workerVars, scriptVars>>

Exited == {"none", "success", "failure"}

SyncTypeOK ==
    /\ cable \in Dev
    /\ worker \in {"none", "running", "success", "failure"}
    /\ device \in 0 .. 2
    /\ script \in [Dev -> Exited \cup {"up", "ping", "rsync", "prepare", "poll", "stop"}]
    /\ unread \in [Dev -> BOOLEAN]
    /\ long \in BOOLEAN
    /\ start \in [Dev -> {"none", "running", "done"}]
    /\ marks \subseteq {"failed", "success"}
    /\ address \subseteq Dev
    /\ root \in {"fresh", "part", "whole"}
    /\ home \in {"fresh", "part", "mirror"}

NoScript == [d \in Dev |-> "none"]
NoLine   == [d \in Dev |-> FALSE]

SyncInit ==
    /\ cable \in Cable
    /\ long \in LongPaths
    /\ worker = "none" /\ device = 0
    /\ script = NoScript /\ unread = NoLine /\ start = NoScript
    /\ marks = {} /\ address = {} /\ root = "fresh" /\ home = "fresh"

\* The computer is booted: no process is left, and nothing in /tmp.
SyncReboot ==
    /\ worker' = "none" /\ device' = 0
    /\ script' = NoScript /\ unread' = NoLine /\ start' = NoScript
    /\ marks' = {} /\ address' = {}
    /\ UNCHANGED cable

\* It is booted from the installer's disc, and the partitions are made anew.
SyncRestart ==
    /\ SyncReboot
    /\ long' \in LongPaths
    /\ root' = "fresh" /\ home' = "fresh"

-----------------------------------------------------------------------------
\* The worker.

\* The loop comes to the device d: its script is forked, or there are no more.
TurnTo(d) ==
    /\ device' = d
    /\ worker' = IF d \in Dev THEN "running" ELSE "failure"
    /\ script' = IF d \in Dev THEN [script EXCEPT ![d] = "up"] ELSE script

SyncStart ==
    /\ worker = "none"
    /\ TurnTo(0)
    /\ UNCHANGED <<wireVars, unread, start, marks, address, root, home>>

\* read_until_token() fills its buffer without finding the end of the line.
LineTooLong ==
    /\ worker = "running"
    /\ unread[device]
    /\ unread' = [unread EXCEPT ![device] = FALSE]
    /\ TurnTo(device + 1)
    /\ UNCHANGED <<wireVars, start, marks, address, root, home>>

\* waitpid() finds that the script has ended; one more line is read, and it is not
\* too long.  good says whether the file that came from the alpha can be scanned.
Waitpid(good) ==
    /\ worker = "running"
    /\ script[device] \in {"success", "failure"}
    /\ IF script[device] = "success"
       THEN worker' = (IF good THEN "success" ELSE "failure") /\ UNCHANGED <<device, script>>
       ELSE TurnTo(device + 1)
    /\ UNCHANGED <<wireVars, unread, start, marks, address, root, home>>

-----------------------------------------------------------------------------
\* The script of the device d.

\* Does the worker still have its end of the pipe open?
Piped(d) == worker = "running" /\ device = d

Goes(d, step) == script' = [script EXCEPT ![d] = step]

\* ifconfig down, ifconfig inet.
Up(d) ==
    /\ script[d] = "up"
    /\ \/ Goes(d, "ping") /\ address' = address \cup {d}
       \/ Goes(d, "failure") /\ address' \in {address, address \ {d}}
    /\ UNCHANGED <<wireVars, workerVars, unread, start, marks, root, home>>

\* The alpha answers if it can be reached at all, be it through a device that an
\* earlier script has left up.
Ping(d) ==
    /\ script[d] = "ping"
    /\ \/ cable \in address /\ Goes(d, "rsync") /\ UNCHANGED address
       \/ Goes(d, "failure") /\ address' = address \ {d}
    /\ UNCHANGED <<wireVars, workerVars, unread, start, marks, root, home>>

\* rsync fetches files, and prints their paths.
Fetch(d) ==
    /\ script[d] = "rsync"
    /\ root = "fresh"
    /\ root' = "part"
    /\ unread' = [unread EXCEPT ![d] = long]
    /\ long' = FALSE
    /\ UNCHANGED <<cable, workerVars, script, start, marks, address, home>>

\* It has fetched all of them,
Fetched(d) ==
    /\ script[d] = "rsync"
    /\ root # "fresh"
    /\ Piped(d)
    /\ root' = "whole"
    /\ Goes(d, "prepare")
    /\ UNCHANGED <<wireVars, workerVars, unread, start, marks, address, home>>

\* or it ends before.
FetchFails(d) ==
    /\ script[d] = "rsync"
    /\ Goes(d, "failure")
    /\ UNCHANGED <<wireVars, workerVars, unread, start, marks, address, root, home>>

\* hostname, umount /mnt/home, rm -f /tmp/drbd.*, ln, and drbd in the background.
Prepare(d) ==
    /\ script[d] = "prepare"
    /\ Piped(d)
    /\ \/ /\ Goes(d, "poll")
          /\ marks' = {}
          /\ start' = [start EXCEPT ![d] = "running"]
          /\ home' = "part"
       \/ /\ Goes(d, "failure")
          /\ marks' \in {marks, {}}
          /\ UNCHANGED <<start, home>>
    /\ UNCHANGED <<wireVars, workerVars, unread, address, root>>

\* Mutant: the file is touched only if drbd could be started.
MarkIfGood(good) == marks' = marks \cup IF good THEN {"success"} ELSE {}

\* The file is touched whichever way drbd ended.
Mark(good) == marks' = marks \cup {IF good THEN "success" ELSE "failed"}

\* "drbd start" ends: the user data are the alpha's, or it failed.
DrbdStarted(d) ==
    /\ start[d] = "running"
    /\ start' = [start EXCEPT ![d] = "done"]
    /\ \E good \in BOOLEAN :
          /\ Mark(good)
          /\ home' = IF good THEN "mirror" ELSE home
    /\ UNCHANGED <<wireVars, workerVars, script, unread, address, root>>

\* The loop that prints how far drbd is ends when there is one of the files.
Poll(d) ==
    /\ script[d] = "poll"
    /\ marks # {}
    /\ Goes(d, "stop")
    /\ UNCHANGED <<wireVars, workerVars, unread, start, marks, address, root, home>>

\* Mutant: nobody looks for drbd.failed.
ExitStatusGood == "success"

ExitStatus == IF "failed" \in marks THEN "failure" ELSE "success"

\* drbd stop, ifconfig down; each may fail.
Stop(d) ==
    /\ script[d] = "stop"
    /\ Piped(d)
    /\ \/ Goes(d, ExitStatus) /\ address' = address \ {d}
       \/ Goes(d, "failure") /\ UNCHANGED address
    /\ UNCHANGED <<wireVars, workerVars, unread, start, marks, root, home>>

\* With nobody to read it the next line it prints ends the script, or its rsync.
BrokenPipe(d) ==
    /\ script[d] \in {"rsync", "prepare", "poll", "stop"}
    /\ ~Piped(d)
    /\ Goes(d, "failure")
    /\ UNCHANGED <<wireVars, workerVars, unread, start, marks, address, root, home>>

SyncScript(d) ==
    \/ Up(d) \/ Ping(d) \/ Fetch(d) \/ FetchFails(d) \/ Prepare(d)
    \/ DrbdStarted(d) \/ Poll(d) \/ Stop(d) \/ BrokenPipe(d)

\* The worker has a successful sync behind it only if all of the alpha's files are
\* there and its user data have been mirrored.
SuccessIsWhole == worker = "success" => root = "whole" /\ home = "mirror"
=============================================================================
