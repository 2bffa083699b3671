# SnapptixOS / SnappCluster: TLA+ specifications

SnapptixOS is a Linux distribution for a cluster of two machines. One unit, the
*alpha*, serves; the other, the *beta*, mirrors it and takes over. This directory
holds TLA+ models of the project's own code, TLC configurations that check them on
small instances, and TLAPS proofs of the invariants that matter most.

The models are translated from the source, not from the design documents. Where the
two disagree, the model follows the source and a run shows the disagreement.

## 1. Inventory

| Part | Source | State it keeps | Operations |
|---|---|---|---|
| Heartbeat | `gui-java/Snapptix_backend/Heartbeat.java` | own and other rank, role, connected, wasBeta; connections waiting in the server socket | `run`, `alphaContest`, `synchronize` |
| Janix daemon, server loop | `janix/Janix.c` main | listening socket, one child per connection | accept, fork, SSL accept, read, dispatch, reply |
| Janix, failover | `Janix.c` case ALPHA, `utils.h` | `failover.log`, one character | AK (count, reboot), reset at other requests and at start |
| Janix, applications | `Janix.c` case APP, `utils.h` `removeString` | `apps.log`; what the package tools know | XI install, XU uninstall, X- query |
| Janix, processes | `Janix.c` case PROCESS | pid files, `/proc` | PK kill, PR restart, P- query |
| Janix, management | `Janix.c` case MANAGE, `utils.h` `isPassword`, `setPassword` | mounts, `/etc/shadow`, settings scripts | MM, MU, MP, MN, ME, MB |
| Janix client | `Janix.java`, `SSLcomm.java` | one socket field | `sendMessage`, `install`, `uninstall`, `kill`, `restart`, `failover` |
| GUI back end | `API.java`, `NetworkSettings.java`, `EmailEngine.java` | settings of both units, mail settings | load, save, send |
| GUI front end | `Snapptix_frontend`, `Snapptix_modules`, `Snapptix_utils`, `Main` | widgets, monitor timer | tabs, dialogs, traffic lights, screen lock |
| Installer wizard | `unix-packages/GTK_INST.C`, `THREADS.C` | current window, worker thread, timer, the shared `update` record | one case of `setup_window` per window |
| Installer workers | `HDUTILS.C`, `NETWORK.C`, `CONFIGS.C`, `PKGUTILS.C`, `READ_UTI.C`, `PNGTOFB.C` | discs, mounts, configuration files | one worker per wizard step |
| Scripts | `START_IN.SH`, `SYNC_NOD.SH`, `SYNC_OTH.SH`, `TEST_NET.SH` (also in `distro/snapptix/`) | interfaces, drbd, X configuration | start the installer, copy a node, test the network |
| Everything else under `distro/` and the package directories | third-party | | not this project's code |

How they interact. The GUI process of each unit runs the heartbeat as a daemon
thread; the two heartbeats talk to each other over one short TCP connection per
direction and round. The GUI reads the heartbeat's fields (`Monitor`, every few
seconds) to switch its editing rights and lights, and asks the Janix daemon of its
own machine, over SSL, to do what needs root. Janix forks a child per request;
the children share the files `failover.log`, `apps.log`, `/etc/shadow` and take no
locks. The installer is a wizard in one thread, one worker thread per step and a
timer that polls the worker's finished flag; it writes the files the other parts
read (`snapptix.conf`, `ha.cf`, `drbd.conf`), and a secondary unit's installer
copies the primary's root file system.

What is hard in it, and what makes each part correct:

* Heartbeat - ranks are read late, out of a backlog, and zero means "absent".
  Right when: betas defer, alphas are audible, nobody steps down for nobody, a
  deserted unit takes over in time, two units do not stay alpha together.
* Failover - unlocked read-modify-write of one character, a reset that other
  requests are to perform, a reboot that does not sync. Right when: no count is
  invented, every reboot is accounted for, other requests restart the count.
* Applications - two records of the same fact, each updated in several steps that
  may fail or stop between them. Right when: what is installed is listed, nothing
  is listed twice, replies are true.
* Processes - a pid read over the remains of another one, checked, then signalled.
  Right when: only the program that was named is signalled.
* Management - a password file truncated and rewritten, read piece by piece by
  others meanwhile. Right when: an answer about a password is one the file accounts
  for, and a file that a crash has emptied grants nothing.
* Server loop and clients - descriptors that are never closed, requests that get no
  reply, one socket field for several threads. Right when: whoever waits gets an
  answer, and its own; the toggle of the GUI tells the truth.
* Installer - a timer, a worker and button callbacks share a record, a flag and a
  mutex. Right when: one worker at a time, every worker's result leads to its own
  window, a kept data partition is never formatted, nothing is installed into an
  unmounted root.
* Scripts and synchronization - a background start polled through files, an exit
  status polled before a read. Right when: success is reported only for a copy
  that was made, and the loop ends.
* Configuration - one file, four writers and readers (two programs in two
  languages, on two machines), copied over the network. Right when: what was
  entered arrives, each unit keeps its own number, the GUI can show what it loads.

`PROJECT.json` lists these hazards at their lines with the properties that cover
them. The two without one say why no property of the code could hold there.

## 2. Modules

| Module | What it is |
|---|---|
| `Heartbeat` | the election, without time |
| `HeartbeatTimed` | the election on perfect clocks (extends `Heartbeat`) |
| `HeartbeatProofs` | theorems about `Heartbeat` |
| `HeartbeatTimedProofs` | theorems about `HeartbeatTimed` (extends `HeartbeatProofs`) |
| `JanixFailover` | AK requests and `failover.log` |
| `JanixFailoverProofs` | theorems about `JanixFailover` |
| `JanixApps` | APP requests, `apps.log` and the package tools |
| `JanixAppsProofs` | theorems about `JanixApps` |
| `JanixRequest` | what every child of the daemon has: a connection, a request, a reply |
| `JanixProcess` | PROCESS requests: pid files, `/proc` and signals (extends `JanixRequest`) |
| `JanixManage` | MANAGE requests: `/etc/shadow`, mounts, scripts (extends `JanixRequest`) |
| `JanixConsole` | the server loop with both, the GUI's threads on one socket field, and client.c |
| `JanixConsoleProofs` | theorems about `JanixConsole` |
| `InstallPlan` | the order in which the installer promises to work |
| `InstallPlanProofs` | theorems about `InstallPlan` |
| `InstallerWizard` | the installer's windows, callbacks, timers and threads; implements `InstallPlan` |
| `InstallerWizardProofs` | theorems about `InstallerWizard`, among them that it implements `InstallPlan` |
| `SnapptixConf` | `/etc/snapptix.conf` as it is written and read in C and in Java; no variables |
| `SyncNode` | the first synchronization: worker, scripts, background drbd |
| `ClusterInstall` | both units from the installer to the GUI's network tab (extends the last two) |
| `ClusterInstallProofs` | theorems about `ClusterInstall` |
| `MC...` | constants for TLC |

Operators whose comment begins with "Mutant:" are not part of the models. Each is a
plausible mistake in one operator, and stands right before it; with the mistake put
in, the property named in `PROJECT.json` fails. They show that the property
depends on the code.

### Heartbeat

One step runs from one blocking call of the thread to the next: what lies between
reads and writes only the unit's own object. `phase` is the blocking call a unit is
in (`sleep` of run(), `backoff` sleep of alphaContest(), `accept`, `connect`, or
`stuck` in readLine()), `at` is which of the five calls of synchronize() it is in:

| `at` | line | what follows the call |
|---|---|---|
| `start` | 97 | `AfterStart` |
| `wake` | 105 | `AfterWake` |
| `contest`, `raise` | 130, 143 | `AfterRaise`, the head of the contest's loop |
| `draw` | 138 | `AfterDraw` |

`AcceptRank`, `AcceptEof`, `AcceptSilent`, `AcceptTimeout` are the outcomes of
lines 152-170, `SendRank`, `ConnectFails`, `ConnectError` those of lines 171-190,
each followed in the same step by what the caller does with the ranks.

The environment starts GUI processes, ends them (`Exit`), stops machines
(`PowerLoss`) and breaks and mends the network (`LinkChanges`). A process or a
machine that stops between connect() and write() leaves a connection that ends at
once or never says anything. A connection that has been opened stays in the backlog
although its sender is gone, so ranks are read late: this is what the properties
are about.

Left out: the text form of a rank; a rank split over two packets (at most ten
digits are written at once); two GUIs on one machine; `setStatus`, which nobody
calls; the int width of a rank. `MaxRank` bounds the ranks: a unit that would have
to go higher stops in its contest (`Capped`), and the liveness properties excuse it.

`HeartbeatTimed` adds timers. Time advances in ticks of 250 ms and stands still
while any thread can run, so a violation there does not need a slow machine.

### JanixFailover

A count is the character's distance from '0', within the range of a signed char;
`failover.log` is empty or holds one count. Children move through `read`
(utils.h:156), `write` (161) and `get` (170 and the decision in Janix.c:542). The
opens and closes between them touch nothing shared. `ReceiveOther` stands for the
requests that call `resetFailoverCount()` (Janix.c:148, 265, 521, 559);
`ResetFailoverCount` does what that function does: opened with O_CREAT alone the
file is read-only and the write fails, so nothing changes. `disk` is what
a crash or the reboot (which does not sync) leaves. `RebootCrashes` is the child
that dies printing to a closed file before it can reboot. `kills`, `base`, `overlapped` and
`streak` are history variables, read by no action's guard except the bound on
`kills`.

### JanixApps

A child scans the list line by line, runs pkgadd or pkgrm, and edits the list: two
appends for an install; read, truncate, write for an uninstall. `installed` is what
the package tools know. The list is a sequence of names and newlines, so that a
half-written line is a state. Each tool may fail; the child may die at the double
free() before pkgadd. `Stale` says whether the uninitialized `search[]` of
`removeString` may begin with other bytes, in which case nothing is removed.

Left out: names that are prefixes or suffixes of each other (Janix.c:332-337 accepts
the first directory entry that begins with the name, `removeString` finds a name
at the end of a longer one); `apps.log` missing (no code in the repository creates
it; every request then answers F); a list above 4 KB; a machine that stops.

### JanixRequest, JanixProcess, JanixManage, JanixConsole

A connection is numbered, and with it the child that serves it; `pc[k]` is the next
step of that child, `request[k]` what it read, `answer[k]` what it will reply. Text
is a sequence of words, a word standing for several characters.

`JanixProcess`: `Find` (open the pid file and read it), `Active` (look into `/proc`) and
the signals `Interrupt`, `Quit`, `Kill` and `HangUp`, with `ProgramEnds`,
`ProgramStarts` and `OtherStarts` for programs that end, start and take each other's
pids in between. `read()` puts the digits into a buffer that still holds the daemon's
own pid and ends nothing: `Overlay` says what a content makes of it, and an empty file
leaves the daemon's pid whole, so that the daemon would signal itself. `misread` are the
children that got another number than the file says, `freed` the pids whose programs
have ended, `struck` the signals sent; all three are history. A program is only followed
while a child asks about one: what it does otherwise no request can tell. A 2.4 kernel
is assumed, as the distribution has it: the pid of a program that has ended may be given
out at once.

`JanixManage`: the check of a password reads salt and hash of the first entry in two
goes and the change truncates, then writes. `/etc/shadow` is empty or one entry, a
password and the child that wrote it, who stands for the salt; a check that finds
nothing more to read does not end while there is nothing more to read. The text of a
message is split at its first `#`, so that a password with a `#` in it is another
one. The loop that looks for it has no end (Janix.c:470): without a `#` the child goes
on through the memory behind the text (`RunOn`), takes what stands behind a `#` there
for the new password (`Behind`), or is killed. `seen` are the contents
the file had while a request was being handled (history). Mounts are a set of
devices; the CD-ROM's handler is the floppy's. ME, MN and MB differ in the script
that is run: ME stands for all three.

`JanixConsole`: `Connect`, `Send`, `Read`, `Wait`, `Judge` are a thread of the GUI in
`sendMessage()`; `write()` assigns the socket field, looks at it again, and `read()`
uses what is in it by then. `ClientCalls` is client.c, which has a socket of its own. An
operation is the messages it may send, in order: the password dialog, for instance,
first tries the new password as the old one (changePassword.java:74 goes on when that is
*refused*). accept(), fork() and the handshake are one step; the parent never closes
what it accepted, so `Descriptors` connections use it up, and accept() failing reboots
the machine. `GuiRestarts` is the GUI that ends by System.exit() (AppFrame.java:648,
817) or is killed, wherever its threads are, and is started again: a new socket field, a
toggle that is not selected, and the disc as it was. A system call that fails in
`criticalFailure` is `Reboot`, which may come at any time; after it `/etc/shadow` is
what had reached the disk, what it was, or empty.

Since the parent keeps the socket, and the child leaves without an SSL shutdown, a
client never sees the end of a connection. SSLcomm.java relies on one ("Server closes
connection after read!"), and the comment on an empty reply in Janix.c says that a
client may hang for want of it: `HungOnlyIf` names the requests that hang (AK, what
is longer than 63 characters, such as a change between passwords of 31, and MP without
a `#`, which only client.c sends) and the shared socket field. A child that still has
to read is no excuse: its request is `Unread`, which is none of these. `AnswersCome`
says that of the requests of this module no other hangs; a child that dies at the
double free() of an install, which is in `JanixApps` and has no client there, leaves its
client waiting as well. A thread that hangs does so until the daemon ends.

`ToggleTellsMount` excepts a GUI that comes after another one of the same boot which
has ended with its disc mounted, or before the answer to a click (`left`, a history
variable): the toggle is then not selected over a mounted disc, and stays wrong, since
a click on it asks for a mount that fails.

### SyncNode, SnapptixConf, ClusterInstall

`SyncNode` is the worker sync_with_alpha() with the script it forks for one network
device after the other. `Waitpid` and `LineTooLong` are the worker, the steps of
`SyncScript` the commands of SYNC_NOD.SH, `DrbdStarted` the drbd it leaves behind in
the background. A line as long as the worker's buffer counts as the end of the
script: the worker goes on to the next device and the script, whose pipe is closed
but which may print nothing for a long time, goes on too (`Piped`, `BrokenPipe`).
Scripts of two devices then share addresses and the files in /tmp. A sync that fails
is followed by a restart of the computer, since the wizard does not survive its
repetition (`wiz_retry`).

`SnapptixConf` has the file as lines of words. `Printed` is fprintf() and toString(),
`Scans` and `Full` what fscanf() makes of the alpha's file, `Load` StringTokenizer in
NetworkSettings.java. A field that was left blank is *no* word: the difference
between a blank that is written as `SNAPPTIX_FILL` and one that is written as an
empty string decides who can read the line.

`ClusterInstall` puts them together: `InstallAlpha`, the sync, `ConfigureBeta`,
`FinalSync` (with every subset of the files that may have been copied when it
stops), boots and restarts of the beta, and on each unit the GUI with `GuiStart`,
`Edit`, `Cancel`, `Apply` and `Write` (the file is truncated before it is written).
`told`, `stale`, `torn` and `odd` are history variables. The four files that each
unit keeps under its own number are treated alike and are one; its link is among the
exceptions of rsync. The right to edit, which follows the role, is left out: both
units may. The alpha's computer stays up while its GUI may stop at any time.

What the properties name, the code does. `RefusedOnlyIf`: an Apply on the alpha before
the beta is installed replaces the beta's gateway by the alpha's, because
AppFrame.java:904 reads the wrong field, and the second line of the file cannot be
scanned any more; and once a beta has written itself back, the file is a full one, so
the same beta, or its replacement, is refused at its next installation. `GuiComesUp`:
an address that was left blank at the alpha, or emptied there and applied, is one word
missing in the beta's full file; Java's load() ends there with nulls, and the network
tab throws while it is built, on the beta and, after the final sync, at the alpha's
next start. A name of no word or of two, a host's or the cluster's, does the same, and
so does a power failure in a save. An Apply that is
refused for two equal addresses saves the old settings all the same.
`AppliesWhatWasTyped` excepts the GUI that was up when the final sync replaced the
file, whose next Apply puts the old settings back, and a file with an odd name in it.

### InstallerWizard and InstallPlan

The GTK loop runs one callback at a time, so a callback is an action: the timers
(`Timer`, `NetTimer`), the buttons (`CheckDrive`, `ButtonNext`, `CheckPasswords`,
`CheckEntries`, `CheckNet`), the dialogs (`GotYes`, `GotNo`), the list
(`SelectNodeType`). `SetupWindow(w, t, collected)` is setup_window() called for
window `w`, with `t` timers left and the last thread joined or not; it is a part of
the callback that calls it, never a step of its own. A worker is two steps,
`StartThread` within a callback and `WorkerEnds`: in between only the disc tells how
far it is, and nothing else reads that. One worker need not end: make_user() keeps the
writing end of the pipe it reads, so when mkreiserfs ends before its journal's line
does, no end of file comes and the thread hangs (`MakeUserHangs`; HDUTILS.C:97, 106,
115). The other workers that read a pipe close its writing end. `WorkerEnds` takes any result, and for a
failure any state the worker may leave the disc in (`mount_partitions(FALSE)`: the
mounts up to the call that failed).

The variables are the globals and statics of GTK_INST.C: `tid` is the last of
`workers`, `thread_finished` and `update` are shared by all, `cleared` is the set of
workers whose static `retval` has become FALSE and stays so. A thread overwritten in
`tid` still runs and still sets the flag; a second pthread_join() of one thread is
undefined and may leave `retval` as it was or end the installer. Dialogs cover the
screen (800x600 without a window manager), so pages below take no clicks; the
network page is the exception, since its button and the window in front call the
same function and clicks may be waiting in the queue when the window appears
(`CheckNetBehind`). `strays` is a history variable: it counts the threads started
out of turn, and those after one.

The beginning of the third partition depends on the memory of the machine (the swap
partition is twice as large): `moved` says whether that differs from the earlier
installation.

`InstallPlan` knows steps, what each needs, and nothing of windows. Under the
mapping in `InstallerWizard`, the step at work is the last thread's, the steps done
are the cleared results, and from the first stray thread or crash on the plan is
given up (`Abandon`). A stray thread is not excused by that: `StraysOnlyBy` says where
one can come from.

Left out: install_base()'s label text, a buffer on its stack that the timer may read
after the function has returned; the timezone's selection before "Next" becomes sensitive; invalid entries
and passwords, which only bring a message; chroot() failing in setup_kernel's child;
the mutex, which start_thread() initializes anew but which every holder frees within
the callback or worker step it took it in. What a sync does step by step is
`SyncNode`; here it is a worker that succeeds or fails.

## 3. Runs

| Run | Module | Shows | States |
|---|---|---|---|
| `hb_faults` | `MCHeartbeat` | invariants of the election, `StepsDownOnlyToARival`, `TakeOver`, with every fault | 676 thousand, 1 min |
| `hb_time` | `MCHeartbeatTimed` | `TakeOverInTime`, `JoinerStaysBeta`, with every fault | 1.4 million, 25 s |
| `hb_collision` | `MCHeartbeatTimed` | *violation*: two alphas stay alphas | |
| `fo_count` | `MCJanixFailover` | the count under races, wrap and power loss | 800 thousand, 10 s |
| `fo_streak` | `MCJanixFailover` | *violation*: other requests do not restart the count | |
| `apps_serial` | `MCJanixApps` | list, tools and replies, one request at a time | 4 thousand |
| `apps_race` | `MCJanixApps` | *violation*: two requests list a program twice | |
| `console` | `MCJanixConsole` | who waits gets an answer or hangs for a known reason, passwords, signals, mounts, with a reboot or a restart of the GUI | 395 thousand, 3 min |
| `cluster` | `MCClusterInstall` | the two installations, the settings file and both GUIs, with restarts of the beta | 279 thousand, 90 s |
| `wiz_plan` | `MCInstallerWizard` | the installation follows its plan, one thread and timer at a time, /home as asked, the reboot only at the end | 6 thousand, 4 s |
| `wiz_keep` | `MCInstallerWizard` | *violation*: YES does not keep the user data | |
| `wiz_retry` | `MCInstallerWizard` | *violation*: the second sync ends the installer | |

Bounds.

* `hb_faults`: two units, as in the code; `Backlog = 1`, so that every connection
  beyond one is refused and one stale rank can wait (2 was also checked once, and
  only adds states); `MaxRank = 6`: a contest starts at 2, an alpha of rank 2 that
  hears a lower rank contests with 4 and may then hear a 6, which is the shortest
  way for an alpha to step down.
* `hb_time`: a sleep of 4 ticks instead of 20, one tick for a timeout; `Backlog = 2`
  so that more than one stale rank can hold a beta back.
* `fo_count`: three children, so that one can overtake two others; counts from -2 to
  5 around the threshold 3, so that six requests both pass it and wrap.
* `apps_serial`: three names, so that one can stand between two others in the list,
  and room for three lines.
* `console`: four connections, three of which can be open at once, so that the daemon
  runs out of descriptors; one reboot or one restart of the GUI (`MaxRestarts = 1`);
  three changes of programs; texts of up to 7 words, so that a message can be too long;
  one word that may be behind a text without a `#`. What the threads do is one of five
  sessions, each with the operations that meet in the same file or field: three of
  passwords and requests that are not answered, one of discs, one of processes. The
  GUI's thread has connections for three messages (the dialog needs as many), its mail
  thread and the client for one. When they are used up the system stops: `CHECK_DEADLOCK
  FALSE`.
* `cluster`: both devices as the right one, with and without a path that is too long;
  one edit of six kinds (a new gateway, an emptied one, an address used already, a
  host name of no word and of two, a cluster name of two) and one event, which is an
  Apply or a restart of the beta. Two events (2.2 million states) were also checked
  once and showed nothing else. `CHECK_DEADLOCK FALSE`: a cluster whose events are used up
  stops.
* `wiz_plan`: everything in one installation is finite but two things: `MaxClicks = 2`
  clicks behind the network dialog, the first of which is harmless and the second of
  which is not; `MaxStrays = 3` threads followed from the first stray one, so that
  two lines of threads overtake each other (5 was also checked). All properties but
  the type and the dialog's concern what happens before that. The two violations
  need no stray thread and allow none.

`Limit` in `hb_time` is the least one for which `TakeOverInTime` holds: with one tick
less TLC finds it violated. It is `(Backlog + 1) * SleepTicks + 2 * AcceptTicks`, which
`HeartbeatTimedProofs` proves to be enough for all numbers. For the code's (a backlog
of 5, sleeps of 20 ticks, timeouts of one) that is 122 ticks, 30.5 s; the design
documents ask for a takeover within 30 seconds.

The violations (`findings` in `PROJECT.json`):

1. *Two alphas.* Two units that start together each find the other absent
   (rank 0), raise to 2, win against that 0 and are alpha. From then on each
   reads the other's 2; the alpha branch of run() contests only when its own
   rank is greater. No fault is needed and nothing ends it.
2. *The failover count is not restarted.* `resetFailoverCount` writes to a
   read-only descriptor.
3. *A program listed twice.* The decision to install is older than the list it is
   applied to.
4. *YES loses the data.* The table is computed anew from the memory of the day,
   whether the user data are to be kept or not; with other memory than at the first
   installation the third partition begins elsewhere.
5. *The second try of the sync dies.* It is started with the wrong argument.

Two more ways to go astray are in the passing run, since no text of the repository
denies them: `StraysOnlyBy` names the question about corrupt data, which does not
wait for its answer, and a third click on the network page.

Some of what `cluster` and `console` name has no run of its own, since no text of
the repository denies it: TEST_NET.SH pings the name server twice and the gateway
never, CONFIGS.C:131 tests a gateway so that a blank one writes a route to it, and the
check of the beta's settings does not compare its address with the alpha's. They are
outside the models' data.

Fairness. `FairSpec` and `FairTimedSpec` assume that a running thread goes on: sleep,
accept (with SO_TIMEOUT) and connect (with a timeout) all return. readLine() has no
timeout and is not assumed to; `TakeOver` leaves the unit stuck there out. Nothing is
assumed of the environment: no start, stop or repair ever has to happen. In
`InstallerWizard` the tools that workers run are assumed to end, and GTK to call its
timers again: when its tool has ended a worker ends, or make_user() hangs, which
`BusyWindowsEnd` names as the one exception. Nothing is assumed of the user, so the
liveness property speaks only of windows that wait for no one. In `JanixConsole` each
child and each thread within a call is scheduled, and the scripts that a child waits for
end; nothing is assumed of users and programs. A check that loops over a file with
nothing to read is scheduled as well, which helps only if a write comes. In
`ClusterInstall` the commands of each script, its drbd, and the worker go on; installers
and GUIs need not. Safety needs no fairness, and `hb_time` measures time instead of
assuming anything. `CHECK_DEADLOCK FALSE` in `hb_collision`: without faults a unit at
the rank bound stops. In the `wiz_` runs the installation ends, in a reboot or an error
window.

## 4. Proofs

`HeartbeatProofs` proves, for every backlog, rank bound and set of faults, the type
invariant, the four invariants of `hb_faults` and the action property
`StepsDownOnlyToARival`. Assumptions: a finite set of two units, a backlog of at least one, a
natural rank bound.

The inductive invariant `IInv` is the type invariant, the invariants themselves
and two facts they rest on: a unit still in its first synchronize has the ranks and
role the constructor gave it (`FirstRound`: otherwise `AfterStart` could leave a beta
with a rank), and a unit in any other phase of its round remembers its last role in
wasBeta (`RoleNoted`: otherwise the mail could miss a promotion). A step of one unit changes no
other unit's fields except the backlog, which no part of the invariant but the type
reads: `OneUnitStep` reduces `IInv` to one unit, and `EndRoundEffect`,
`RaiseEffect`, `ReturnHasEffect` sum up what every return from synchronize() can do,
so that `SendRank`, `ConnectFails` and `ConnectError` share one argument.

`HeartbeatTimedProofs` proves, for any length of a sleep and of a timeout, the type
invariant of the timed election and the two properties of `hb_time`. Its steps are
steps of `Heartbeat` or ticks (`PerfectClocks`), so the theorems about `Heartbeat`
hold here too.

* `TakeOverInTime` - `Patience` is what a unit that hears nobody has still to wait for,
  by where its thread is and what is in its backlog: a sleep for each rank that waits,
  one more, two timeouts. A tick shortens it by one and no step lengthens it, so the
  time alone and the patience together never pass the limit (`OnSchedule`). The
  hypothesis is that the limit is not below `Longest`, which is the bound above.
* `JoinerStaysBeta` - a unit that joins a working alpha hears it before it gives up, and
  stays beta, as that stays alpha: of the two at least one message is always in time
  (`Tempo`), waiting in a backlog, in the hand of the thread that has read it, or about
  to be sent by a timer that runs out first. The hypothesis is a backlog of two; the
  code asks for five, and with one TLC finds the property violated, since the joiner may
  then be refused.

`JanixFailoverProofs` proves, for any finite set of children, any threshold and any
range of the character, the type invariant, `CountNeverAhead` and
`RebootAccountedFor`. The file alone is not inductive: a child that has read the
count carries a number that may be written later. The invariant therefore bounds
the file and every buffer together by `base` + requests received - children that
have not yet written, counting such a child's own request against its buffer
(`Written`, `Bounded`). A wrap only lowers the count.

`ExactUnlessOverlapped` needs more of the time between a read and its write: without
overlap there is one child there at most, and it carries the number that the file
has, or, when the file is still empty, the one that the count is said to start from
(`Exact`). That a char's increment is the successor modulo the number of counts is
`SuccOfMark`, from the division lemmas before it.

`JanixAppsProofs` proves the type invariant for any number of children, and, for one
request at a time (`Alone(c)`, the instance of `apps_serial`), `InstalledIsListed`,
`AnswersHold` and `ListedOnce`, for any applications, any length of the list and any
stale bytes. With two requests `ListedOnce` is false (`apps_race`). The list is not
whole while a child is at work: the invariant speaks of the list as it last was whole
(`Book`), in which names and newlines take turns and no name stands twice. The child
knows about it that the lines its scan has passed do not hold its name, that the name
it installs was in no line, and that the text it will write again is all there was.
The lemmas on sequences (what a scan finds next, what appending and cutting out a line
leave) come first.

`JanixConsoleProofs` proves the six safety properties of `console` for any programs,
pids, clients, operations and bounds:

* `TypeOK` - what the handlers cut out of a request is a text again; for that the place
  of the first `#` must be known to exist (`LeastPlace`), which it is in every child past
  `RunOn`. The sessions need not have a `#` in their requests.
* `StrikesTheNamed` - the invariant follows a pid from the program that wrote it into
  its file to the child that will signal it: it is that program's, or the program has
  ended, or it was misread (`FilesTell`, `TargetsTell`).
* `EmptyIsForGood` - when the file is empty, either somebody is about to write it, or
  the disk's copy is empty too and no child is past the check of the old password
  (`EmptyInv`).
* `HungOnlyIf` - a child that was killed keeps the request it had read, and a child
  that has read nothing has somebody's message before it. The invariant follows a
  message: a connection somebody waits on is served from the message in its buffer to
  the reply in the other one, and nobody else takes its reply; for the GUI, as long as
  its threads have not met in the socket field.
* `PasswordAnswers` - the invariant follows a request through its handler: what the
  file holds is among what it has held since, so is the entry whose salt was read, and
  a child on its way to the truncation has seen the right password in it.
* `ToggleTellsMount` - the GUI turns its toggle before it asks, and back when the reply
  is not the one it wants. The invariant follows the question from the socket to the
  child that mounts, and the answer back into the field: at every place it is known
  whether the disc is still as it was. Hypothesis (`OnlyTheToggle`): the toggle is one
  disc's, and nobody runs client.c to mount discs behind the GUI's back, which it can.
  A GUI that ends at rest with nothing mounted leaves the next one the truth.

`ClusterInstallProofs` proves the type invariant, the four safety properties of
`cluster` and its action property, for any cables, paths, blanks, edits and bounds.

* `SuccessIsWhole` - the worker knows only an exit status; the invariant follows what it
  stands for through the script: the file system is whole from the rsync on, a mark of
  success is a mirrored /home, and the script the worker still listens to has cleared
  the marks itself and has not gone on without a new one.
* `EachItsOwn` - the link and the numbered files are among the exceptions of every rsync.
* `RefusedOnlyIf`, `AppliesWhatWasTyped` - what save() prints load() reads again if every
  value is one word (`LoadPrinted`); so the memory of a GUI is the content of its file
  (`MemIsFile`), but for the cases that the properties name.
* `GuiComesUp` - every file that was not torn or given an odd name, and in which the
  alpha's addresses are filled in, can be shown (`FilesShow`); and until the first Apply
  there are but two files, what was entered at the alpha and what was entered at both
  (`AsEntered`).

The lines of the file are of fixed lengths, two or three fields of a word each, so what
printing and reading gives is a computation and no induction. Assumptions: what is
typed or left blank is what the input fields can hold (`EditAssumption`,
`BlankAssumption`).

`InstallPlanProofs` proves of every system that follows the plan: what a running or
finished step needs is done (`PlanKeepsNeeds`), hence the unmount is done only when
every step that is not optional is (`PlanEndsComplete`).

`InstallerWizardProofs` proves all properties of `wiz_plan` but its liveness, for any
leftovers of an earlier installation and any bounds. As long as no thread was started
out of turn, the installer is where its last thread left it: `InTurn` says for each
function of a thread which window is up, what is mounted, which results are cleared
and which timer runs. The inductive invariant `IInv` is that, while there are no stray
threads, beside the types; a thread that hangs is to it one that still works.
`InstallerFollowsPlan` is the refinement of `InstallPlan`, one
step per action of the wizard: a step begins, ends, stutters, or gives the plan up.
With it the theorems about the plan become theorems about the installer
(`InstallerKeepsNeeds`, `InstallerEndsComplete`): up to the first stray thread or crash,
from where on the mapping empties the plan and they say nothing.

Model-checked only: liveness (`TakeOver`, `AnswersCome`, `BusyWindowsEnd`, `SyncEnds`),
which is out of the provers' reach. Every other property of the passing runs is a
theorem: with the hypotheses named above, or with those of its `THEOREM`.

## 5. Not modelled

* Layout and texts of the two user interfaces, GTK and Swing: no state another part
  depends on. Of the front end, the mail dialog, the statistics, the logs and
  the lights are left out; the lights are a function of the heartbeat's fields.
* `EmailEngine`: the text of a mail and its settings. That a mail is sent at a
  promotion is in `Heartbeat`, the request that sends it in `JanixConsole`.
* `Snapptix_modules` and `Snapptix_utils`: dialogs, file filters, the loading of
  plug-in classes.
* The client's side of `failover()`, `install()` and `uninstall()` in Janix.java is not
  composed with the daemon's: `JanixFailover` and `JanixApps` take their requests in any
  number and order, of which the client's are one.
* `PNGTOFB.C`, which shows a picture on the console; the contents of packages; the
  text of the configuration files other than `snapptix.conf`.
* START_IN.SH, which tries X configurations with the user before anything else runs.
* Characters: names that are parts of other names (`removeString`, the search for a
  package's directory), the digits of an address (`is_valid_ip`), the place of a
  token at the edge of a buffer. A word or a name is one value in all modules, and
  to model them as characters would mean to copy out the loops that compare them.
* Failures the code does not look at and that change nothing but that call: an open()
  of a file that is there, a fork() for a script, a fopen() between two of the
  installer's files.
* `src/unix-packages/JANIX`, an older copy of the daemon, and everything third-party
  under `distro/`: the kernel, XFree86 and its headers, Linux-HA, drbd, Java. What the
  code expects of them is in the modules as environment.

What is left of the project's own code is of these kinds: it computes texts, draws, or
calls a tool once and shows what it says.
