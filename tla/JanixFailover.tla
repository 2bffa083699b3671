---------------------------- MODULE JanixFailover ----------------------------
(***************************************************************************)
(* The deliberate failover of the Janix daemon (src/janix): a unit reboots *)
(* itself once it has been sent enough "AK" requests.                      *)
(*                                                                         *)
(* The daemon forks a child for every request.  The children share one     *)
(* file, failover.log, whose single byte counts the AK requests: a child   *)
(* reads it, adds one, writes it back through a second descriptor, reads   *)
(* it again and reboots the machine when it is above the threshold.        *)
(* Nothing orders these system calls of different children.                *)
(*                                                                         *)
(* A count is the byte's distance from '0', in the range of a signed char. *)
(* The file is empty from its creation to the first write.  The reboot     *)
(* does not sync: the machine comes back with what had reached the disk.   *)
(***************************************************************************)
EXTENDS Integers, Sequences, FiniteSets

CONSTANTS
    Child,          \* the requests handled at the same time
    Threshold,      \* FAILOVERTHRESHOLD
    CharLo, CharHi, \* the range of a count: -128 - '0' .. 127 - '0'
    Junk,           \* what an uninitialized buffer may hold
    MaxKills        \* bound: AK requests between two boots

Count == CharLo .. CharHi

\* What the file may hold.
Contents == {<<>>} \cup {<<n>> : n \in Count}

ASSUME ChildAssumption == IsFiniteSet(Child)
ASSUME CountAssumption ==
    /\ CharLo \in Int /\ CharHi \in Int /\ CharLo <= 0 /\ 0 <= CharHi
    /\ Threshold \in Count
    /\ Junk \subseteq Count
ASSUME MaxKillsAssumption == MaxKills \in Nat

VARIABLES
    machine,    \* "serving", or on its way down: "rebooting" or "dark"
    log,        \* failover.log as the children see it: <<>> or <<count>>
    disk,       \* the part of it that survives
    pc,         \* the next system call of each child
    buffer,     \* the count each child has read and will write (0 otherwise)
    \* what happened since the machine last booted:
    kills,      \* AK requests received
    base,       \* the count they start from
    overlapped, \* a child read the file between a read and a write of another
    streak      \* AK requests received since the last other request that did not
                \* race one of them

vars == <<machine, log, disk, pc, buffer, kills, base, overlapped, streak>>

\* The type invariant.
TypeOK ==
    /\ machine \in {"serving", "rebooting", "dark"}
    /\ log \in Contents
    /\ disk \in Contents
    /\ pc \in [Child -> {"idle", "read", "write", "get"}]
    /\ buffer \in [Child -> Count]
    /\ kills \in 0 .. MaxKills
    /\ base \in Count
    /\ overlapped \in BOOLEAN
    /\ streak \in 0 .. MaxKills

\* The count a boot starts from; the lowest one stands for "not known yet".
BootCount == IF disk = <<>> THEN CharLo ELSE Head(disk)

Init ==
    /\ machine = "serving"
    /\ log = <<>>
    /\ disk = <<>>
    /\ pc = [c \in Child |-> "idle"]
    /\ buffer = [c \in Child |-> 0]
    /\ kills = 0
    /\ base = CharLo
    /\ overlapped = FALSE
    /\ streak = 0

-----------------------------------------------------------------------------
\* Requests.

\* open(FAILOVERLOG, O_CREAT) opens for reading only: the write of "0" fails, an
\* existing file keeps its byte.
ResetFailoverCount == log' = log

ReceiveKill(c) ==
    /\ machine = "serving"
    /\ pc[c] = "idle"
    /\ kills < MaxKills
    /\ pc' = [pc EXCEPT ![c] = "read"]
    /\ kills' = kills + 1
    /\ streak' = streak + 1
    /\ UNCHANGED <<machine, log, disk, buffer, base, overlapped>>

\* A request for a process or an application, a status request or an echo.
ReceiveOther ==
    /\ machine = "serving"
    /\ ResetFailoverCount
    /\ streak' = IF \A c \in Child : pc[c] = "idle" THEN 0 ELSE streak
    /\ UNCHANGED <<machine, disk, pc, buffer, kills, base, overlapped>>

-----------------------------------------------------------------------------
\* incrementFailoverCount() and getFailoverCount(), one file access at a time.

\* The counts a read() into an uninitialized buffer can leave there.
Readable == IF log = <<>> THEN Junk ELSE {Head(log)}

\* Mutant: a read may fail, whatever the file holds, and nobody looks.
ReadUnchecked(c) ==
    /\ pc[c] = "read"
    /\ \E n \in Readable \cup Junk : buffer' = [buffer EXCEPT ![c] = n]
    /\ base' = IF log = <<>> /\ buffer'[c] > base THEN buffer'[c] ELSE base
    /\ overlapped' = (overlapped \/ \E d \in Child : pc[d] = "write")
    /\ pc' = [pc EXCEPT ![c] = "write"]
    /\ UNCHANGED <<machine, log, disk, kills, streak>>

Read(c) ==
    /\ pc[c] = "read"
    /\ \E n \in Readable : buffer' = [buffer EXCEPT ![c] = n]
    /\ base' = IF log = <<>> /\ buffer'[c] > base THEN buffer'[c] ELSE base
    /\ overlapped' = (overlapped \/ \E d \in Child : pc[d] = "write")
    /\ pc' = [pc EXCEPT ![c] = "write"]
    /\ UNCHANGED <<machine, log, disk, kills, streak>>

\* Mutant: an increment that does not wrap.
SuccUnbounded(n) == n + 1

\* Mutant: a count that starts again from '0'.
SuccFromZero(n) == IF n = CharHi THEN 0 ELSE n + 1

\* buffer[0] is a char.
Succ(n) == IF n = CharHi THEN CharLo ELSE n + 1

Write(c) ==
    /\ pc[c] = "write"
    /\ log' = <<Succ(buffer[c])>>
    /\ buffer' = [buffer EXCEPT ![c] = 0]
    /\ pc' = [pc EXCEPT ![c] = "get"]
    /\ UNCHANGED <<machine, disk, kills, base, overlapped, streak>>

\* No reply is sent.
BelowThreshold(c) ==
    /\ pc[c] = "get"
    /\ Head(log) <= Threshold
    /\ pc' = [pc EXCEPT ![c] = "idle"]
    /\ UNCHANGED <<machine, log, disk, buffer, kills, base, overlapped, streak>>

\* The machine goes down with all children.
GoDown(how) ==
    /\ machine' = how
    /\ log' = disk
    /\ pc' = [c \in Child |-> "idle"]
    /\ buffer' = [c \in Child |-> 0]
    /\ UNCHANGED <<disk, kills, base, overlapped, streak>>

\* Mutant: the threshold itself is enough.
RebootAtThreshold(c) ==
    /\ pc[c] = "get"
    /\ Head(log) >= Threshold
    /\ GoDown("rebooting")

Reboot(c) ==
    /\ pc[c] = "get"
    /\ Head(log) > Threshold
    /\ GoDown("rebooting")

\* closeRequest() has closed the output file that criticalFailure() then prints
\* to: the child may also die there, short of the reboot.
RebootCrashes(c) ==
    /\ pc[c] = "get"
    /\ Head(log) > Threshold
    /\ pc' = [pc EXCEPT ![c] = "idle"]
    /\ UNCHANGED <<machine, log, disk, buffer, kills, base, overlapped, streak>>

-----------------------------------------------------------------------------
\* The machine.

\* The kernel writes the file out.
Flush ==
    /\ machine = "serving"
    /\ disk # log
    /\ disk' = log
    /\ UNCHANGED <<machine, log, pc, buffer, kills, base, overlapped, streak>>

PowerLoss ==
    /\ machine = "serving"
    /\ GoDown("dark")

\* The daemon starts and resets, as it thinks, the count.
Boot ==
    /\ machine # "serving"
    /\ machine' = "serving"
    /\ ResetFailoverCount
    /\ kills' = 0
    /\ base' = BootCount
    /\ overlapped' = FALSE
    /\ streak' = 0
    /\ UNCHANGED <<disk, pc, buffer>>

Next ==
    \/ \E c \in Child :
          \/ ReceiveKill(c) \/ Read(c) \/ Write(c)
          \/ BelowThreshold(c) \/ Reboot(c) \/ RebootCrashes(c)
    \/ ReceiveOther
    \/ Flush \/ PowerLoss \/ Boot

Spec == Init /\ [][Next]_vars

-----------------------------------------------------------------------------
(***************************************************************************)
(* Properties.                                                             *)
(***************************************************************************)

\* The children that were sent an AK and have not written the count back.
Pending == {c \in Child : pc[c] \in {"read", "write"}}

\* Racing children lose increments but never invent one: the file is at most the
\* requests received ahead of the count it started from.
CountNeverAhead == log # <<>> /\ machine = "serving" => Head(log) <= base + kills

\* The machine reboots only when the count found at boot and the AK requests
\* since then account for it, however they interleaved.
RebootAccountedFor == machine = "rebooting" => base + kills > Threshold

\* As long as no two children overlapped, no increment is lost: the file is
\* exactly that far ahead, modulo the range of a char; no other request has reset it.
ExactUnlessOverlapped ==
    ~overlapped /\ log # <<>> /\ machine = "serving" =>
        Head(log) =
          CharLo + ((base - CharLo + kills - Cardinality(Pending)) % Cardinality(Count))

\* Janix.c at a status request: "Restart failover count; received non-failover
\* command".  A reboot takes more than Threshold AK requests since the last other
\* request that was served while no AK was.
RebootNeedsAStreak == machine = "rebooting" => streak > Threshold

=============================================================================
