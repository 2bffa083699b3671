--------------------------- MODULE InstallerWizard ---------------------------
(***************************************************************************)
(* The graphical installer (src/unix-packages/GTK_INST.C, with the workers *)
(* of HDUTILS.C, NETWORK.C, CONFIGS.C and PKGUTILS.C).                     *)
(*                                                                         *)
(* The GTK loop runs one callback at a time: a button, a dialog's button   *)
(* or a timer.  setup_window() shows the next window; the windows that     *)
(* work start a thread and a timer, and the timer, once the thread says    *)
(* that it has finished, joins it and shows the window it finds in the one *)
(* shared record `update`.  The thread's handle, its flag and the record   *)
(* are globals: nothing keeps a second thread from overwriting them.       *)
(*                                                                         *)
(* Layout and texts are left out, and so is the wording of error messages  *)
(* that only wait for OK.  A worker's effect is what it leaves on the disc.*)
(***************************************************************************)
EXTENDS Integers, Sequences, FiniteSets, SequencesExt

CONSTANTS
    Leftovers,  \* what an earlier installation may have left: see Init
    Moves,      \* may the new partition table begin the user data elsewhere?
    MaxClicks,  \* bound: clicks on "Next" of the network page behind its dialog
    MaxStrays   \* bound: threads followed from the first one started out of turn

ASSUME LeftoverAssumption == Leftovers \subseteq {"none", "good", "corrupt"}
ASSUME MoveAssumption == Moves \subseteq BOOLEAN
ASSUME ClickAssumption == MaxClicks \in Nat
ASSUME StrayAssumption == MaxStrays \in Nat

VARIABLES
    leftover,        \* what find_snapptix_partition() will find
    moved,           \* the memory grew: the swap, and what follows it, will move
    devices,         \* network_data.devices
    disc,            \* the machine's disc: table, file systems, mounts, files
    page,            \* the window setup_window() showed last
    dialog,          \* the window on top of it: a query, or the network check
    section,         \* network_data.current_section
    clicks,          \* clicks on the network page while its dialog was up
    data_partition,  \* is the pointer to the user data set?
    node_type,       \* setup_info.node_type: 0 is the alpha, 1 the beta
    update,          \* the shared record: next and error window
    timers,          \* update_progress_bar() timers
    net_timers,      \* network_config_update() timers
    workers,         \* threads, oldest first: all that have not ended, and the
                     \* last, tid
    joined,          \* has tid been joined?
    thread_finished, \* the shared flag
    cleared,         \* the functions whose static retval became FALSE
    detected,        \* detected_device >= 0
    crash,           \* where the installer died, or "no"
    strays           \* history: the threads started out of turn, and after one
                     \* that was: before the last was joined, again after it had
                     \* succeeded, or after one that failed for good

machineVars == <<leftover, moved, devices, disc>>
netVars == <<section, clicks, detected>>
choiceVars == <<data_partition, node_type>>
threadVars == <<workers, joined, thread_finished, strays>>
vars == <<machineVars, page, dialog, netVars, choiceVars, update,
          timers, net_timers, threadVars, cleared, crash>>

Function == {"bad_block_scan", "detect_nic_cards", "create_partitions", "make_swap",
             "make_snapptix", "make_user", "mount_partitions", "install_base",
             "install_nic_modules", "sync_with_alpha", "find_connected_external",
             "setup_configs", "setup_kernel", "final_sync", "unmount_partitions"}

\* The windows that show an error, or only log it, and wait for nothing.
ErrorWindow == {"BAD_BLOCKS_ERROR", "NETWORK_DETECT_ERROR", "CREATE_PARTITIONS_ERROR",
                "MAKE_SWAP_ERROR", "MAKE_SNAPPTIX_ERROR", "MAKE_USER_ERROR",
                "MOUNT_PARTITIONS_ERROR", "INSTALL_PACKAGES_ERROR", "INSTALL_NICS_ERROR",
                "SETUP_CONFIGS_ERROR", "KERNEL_INSTALL_ERROR", "FINAL_SYNC_ERROR",
                "UNMOUNT_ERROR", "HARDDRIVE_ERROR", "NONETDEVICE_ERROR"}

\* The windows that start a thread and a timer.
BusyWindow == {"CONTINUE_CHECK", "NETWORK_DETECT", "CREATE_PARTITIONS", "MAKE_SWAP",
               "MAKE_SNAPPTIX", "MAKE_USER", "MOUNT_PARTITIONS", "INSTALL_PACKAGES",
               "INSTALL_NICS", "SYNC_WITH_ALPHA", "SETUP_CONFIGS", "KERNEL_INSTALL",
               "FINAL_SYNC", "UNMOUNT"}

Mountpoint == {"root", "home", "dev", "proc"}

\* The type invariant.
TypeOK ==
    /\ leftover \in {"none", "good", "corrupt"}
    /\ moved \in BOOLEAN
    /\ devices \in 0 .. 2
    /\ disc.table \in {"old", "new"}
    /\ disc.swap \in BOOLEAN
    /\ disc.root \in {"old", "fresh"}
    /\ disc.user \in {"none", "data", "fresh", "mirror"}
    /\ disc.mounts \subseteq Mountpoint
    /\ disc.files \subseteq Function
    /\ dialog \in {"none", "repair", "error", "blank", "prompt", "testing"}
    /\ section \in {"CHECK_ENTRIES", "CHECK_NET", "CHECK_EXIT"}
    /\ clicks \in 0 .. MaxClicks
    /\ data_partition \in BOOLEAN
    /\ node_type \in -1 .. 1
    /\ timers \in Nat
    /\ net_timers \in Nat
    /\ \A i \in DOMAIN workers :
          /\ workers[i].fn \in Function \cup {"sync_again"}
          /\ workers[i].result \in {"running", "hung", "ok", "error"}
          /\ i < Len(workers) => workers[i].result \in {"running", "hung"}
    /\ joined \in BOOLEAN
    /\ thread_finished \in BOOLEAN
    /\ cleared \subseteq Function
    /\ detected \in BOOLEAN
    /\ strays \in 0 .. MaxStrays

\* main() shows the welcome window.  The disc is empty, or holds an earlier
\* installation whose user data are the third partition and whose system
\* partition is large enough ("good"), or one that is not like that.
Init ==
    /\ leftover \in Leftovers
    /\ moved \in Moves
    /\ moved => leftover = "good"
    /\ devices = 0
    /\ disc = [table |-> "old", swap |-> FALSE, root |-> "old",
               user |-> IF leftover = "none" THEN "none" ELSE "data",
               mounts |-> {}, files |-> {}]
    /\ page = "INTRO"
    /\ dialog = "none"
    /\ section = "CHECK_ENTRIES"
    /\ clicks = 0
    /\ data_partition = FALSE
    /\ node_type = 0
    /\ update = [next |-> "INTRO", error |-> "INTRO"]
    /\ timers = 0
    /\ net_timers = 0
    /\ workers = <<>>
    /\ joined = TRUE
    /\ thread_finished = FALSE
    /\ cleared = {}
    /\ detected = FALSE
    /\ crash = "no"
    /\ strays = 0

-----------------------------------------------------------------------------
\* Threads.

Tid == Last(workers)

\* It has not ended; a thread that hangs never will.
Running(w) == w.result \in {"running", "hung"}

\* The last thread's step failed, and it is not one of those that are repeated.
Failed ==
    /\ workers # <<>>
    /\ Tid.result = "error"
    /\ Tid.fn \notin {"sync_with_alpha", "sync_again", "find_connected_external"}

\* start_thread(): the new thread takes the place of the last one, which may have
\* ended; those before it run.  collected says whether the last one has been joined.
StartThread(fn, collected) ==
    LET others == IF workers = <<>> \/ Running(Tid) THEN workers ELSE Front(workers)
        stray == strays > 0 \/ ~collected \/ others # <<>> \/ fn \in cleared \/ Failed
    IN  /\ stray => strays < MaxStrays
        /\ strays' = strays + IF stray THEN 1 ELSE 0
        /\ workers' = Append(others, [fn |-> fn, result |-> "running"])
        /\ joined' = FALSE
        /\ thread_finished' = FALSE

\* No thread is started; the last one has been joined, or is as it was.
NoThread(collected) ==
    /\ joined' = collected
    /\ UNCHANGED <<workers, thread_finished, strays>>

\* Workers: what the disc may be when they return, good or not.

\* The new table, with the same partitions only if they begin where they did.
create_partitions(good) ==
    LET same == disc.user = "data" /\ leftover = "good" /\ ~moved
    IN  {[disc EXCEPT !.table = "new", !.swap = FALSE, !.root = "old",
                      !.user = IF same THEN "data" ELSE "none"]}
        \cup IF good THEN {} ELSE {disc}

make_swap(good) == {[disc EXCEPT !.swap = good]}

make_snapptix(good) ==
    {[disc EXCEPT !.root = "fresh", !.files = {}]} \cup IF good THEN {} ELSE {disc}

make_user(good) ==
    {[disc EXCEPT !.user = "fresh"]}
    \cup IF good THEN {} ELSE {disc, [disc EXCEPT !.user = "none"]}

\* It stops at the first of its calls that fails.
mount_partitions(good) ==
    LET homes == IF disc.user = "none" THEN {}
                 ELSE {{"root", "home"}, {"root", "home", "dev"}}
    IN  IF ~good THEN {[disc EXCEPT !.mounts = m] : m \in {{}, {"root"}} \cup homes}
        ELSE IF disc.root = "fresh" /\ disc.user # "none"
             THEN {[disc EXCEPT !.mounts = Mountpoint]} ELSE {}

\* The result for /mnt/home is not looked at, but it keeps /mnt busy.
unmount_partitions(good) ==
    {[disc EXCEPT !.mounts = m] :
        m \in IF good THEN {{}}
              ELSE {h \cup r : h \in {{}, disc.mounts \cap {"home"}},
                               r \in {{"dev", "proc", "root"}, {"proc", "root"}, {"root"}}}}

\* The script unmounts /mnt/home before drbd writes the alpha's data over it; when
\* it fails they may be there in part.
sync_with_alpha(good) ==
    LET synced == [disc EXCEPT !.user = "mirror", !.mounts = @ \ {"home"}]
    IN  IF good THEN {[synced EXCEPT !.files = @ \cup {"sync_with_alpha"}]}
        ELSE {disc, synced, [disc EXCEPT !.mounts = @ \ {"home"}]}

\* The repeated sync never comes to its good end: see RetryDies.
sync_again(good) == IF good THEN {} ELSE sync_with_alpha(FALSE)

\* symlink() fails where there is a link.
setup_configs(good) ==
    IF ~good THEN {disc}
    ELSE {[disc EXCEPT !.files = f] :
             f \in {disc.files \cup {"setup_configs"}} \ {disc.files}}

\* The workers that leave files, named after them, on the new system.  That chroot()
\* fails on a mounted directory is left out of setup_kernel.
Leaves(fn, good) == {[disc EXCEPT !.files = IF good THEN @ \cup {fn} ELSE @]}

Effects(fn, good) ==
    CASE fn = "create_partitions"  -> create_partitions(good)
      [] fn = "make_swap"          -> make_swap(good)
      [] fn = "make_snapptix"      -> make_snapptix(good)
      [] fn = "make_user"          -> make_user(good)
      [] fn = "mount_partitions"   -> mount_partitions(good)
      [] fn = "unmount_partitions" -> unmount_partitions(good)
      [] fn = "sync_with_alpha"    -> sync_with_alpha(good)
      [] fn = "sync_again"         -> sync_again(good)
      [] fn = "setup_configs"      -> setup_configs(good)
      [] fn \in {"install_base", "install_nic_modules", "setup_kernel", "final_sync"} ->
            Leaves(fn, good)
      [] fn \in {"bad_block_scan", "detect_nic_cards", "find_connected_external"} -> {disc}

\* The network devices it counts: two stand for all that are not needed.
detect_nic_cards(good) == IF good THEN 0 .. 2 ELSE {0}

\* Mutant: a worker that fails returns without THREAD_EXIT, the flag stays down.
SetFinishedUnlessError(good) == thread_finished' = (thread_finished \/ good)

\* THREAD_EXIT, whatever the result.
SetFinished(good) == thread_finished' = TRUE

\* A worker returns, through THREAD_EXIT.  Its static retval, once FALSE, says
\* FALSE for ever.
WorkerEnds(i) ==
    LET fn == workers[i].fn
    IN  /\ crash = "no"
        /\ workers[i].result = "running"
        /\ \E good \in BOOLEAN :
              /\ disc' \in Effects(fn, good)
              /\ cleared' = IF good THEN cleared \cup {fn} ELSE cleared
              /\ devices' \in IF fn = "detect_nic_cards" THEN detect_nic_cards(good)
                              ELSE {devices}
              /\ detected' = (detected \/ (fn = "find_connected_external" /\ good))
              /\ workers' = IF i < Len(workers) THEN RemoveAt(workers, i)
                            ELSE [workers EXCEPT ![i].result =
                                    IF fn \in cleared' THEN "ok" ELSE "error"]
              /\ SetFinished(good)
        /\ UNCHANGED <<leftover, moved, page, dialog, section, clicks, choiceVars,
                       update, timers, net_timers, joined, strays, crash>>

\* make_user() keeps the writing end of the pipe it reads, so it sees no end of
\* file.  When mkreiserfs ends before the journal's line does, as it does when it
\* fails, and waitpid() has not seen it, the thread reads for ever.
MakeUserHangs(i) ==
    /\ crash = "no"
    /\ workers[i] = [fn |-> "make_user", result |-> "running"]
    /\ workers' = [workers EXCEPT ![i].result = "hung"]
    /\ disc' \in make_user(FALSE)
    /\ UNCHANGED <<leftover, moved, devices, page, dialog, netVars, choiceVars, update,
                   timers, net_timers, joined, thread_finished, strays, cleared, crash>>

\* The process dies, and with it everything on the screen.
Die(where) ==
    /\ crash = "no"
    /\ crash' = where
    /\ UNCHANGED <<machineVars, page, dialog, netVars, choiceVars, update,
                   timers, net_timers, threadVars, cleared>>

\* The repeated sync is given network_data for its sync_struct, so both of its
\* pointers are null: it dies at the first thing the alpha sends.
RetryDies == \E i \in DOMAIN workers :
    workers[i].result = "running" /\ workers[i].fn = "sync_again" /\ Die("sync_with_alpha")

-----------------------------------------------------------------------------
\* setup_window(): the window w is shown.  t is the number of the timers that
\* remain, collected whether the last thread has been joined.

Then(next, error) == [next |-> next, error |-> error]

\* The thread of each busy window.
Work(w) ==
    CASE w = "CONTINUE_CHECK"    -> "bad_block_scan"
      [] w = "NETWORK_DETECT"    -> "detect_nic_cards"
      [] w = "CREATE_PARTITIONS" -> "create_partitions"
      [] w = "MAKE_SWAP"         -> "make_swap"
      [] w = "MAKE_SNAPPTIX"     -> "make_snapptix"
      [] w = "MAKE_USER"         -> "make_user"
      [] w = "MOUNT_PARTITIONS"  -> "mount_partitions"
      [] w = "INSTALL_PACKAGES"  -> "install_base"
      [] w = "INSTALL_NICS"      -> "install_nic_modules"
      [] w = "SYNC_WITH_ALPHA"   -> "sync_with_alpha"
      [] w = "SETUP_CONFIGS"     -> "setup_configs"
      [] w = "KERNEL_INSTALL"    -> "setup_kernel"
      [] w = "FINAL_SYNC"        -> "final_sync"
      [] w = "UNMOUNT"           -> "unmount_partitions"

\* Mutant: the user partition is made anew whatever the user answered.
AfterSnapptixForgets == Then("MAKE_USER", "MAKE_SNAPPTIX_ERROR")

\* With user data to keep there is no user partition to make.
AfterSnapptix ==
    IF data_partition THEN Then("MOUNT_PARTITIONS", "MOUNT_PARTITIONS_ERROR")
                      ELSE Then("MAKE_USER", "MAKE_SNAPPTIX_ERROR")

\* Mutant: the modules of the network cards come right after the mounts.
AfterMountSkips == Then("INSTALL_NICS", "MOUNT_PARTITIONS_ERROR")

AfterMount == Then("INSTALL_PACKAGES", "MOUNT_PARTITIONS_ERROR")

\* Mutant: a beta is finished like an alpha.
AfterKernelNoSync == Then("UNMOUNT", "KERNEL_INSTALL_ERROR")

\* A beta tells the alpha of itself before it unmounts.
AfterKernel ==
    Then(IF node_type # 0 THEN "FINAL_SYNC" ELSE "UNMOUNT", "KERNEL_INSTALL_ERROR")

\* The windows it puts into `update` before the questions to the user.
DiscSteps(w) ==
    CASE w = "CONTINUE_CHECK"    -> Then("NETWORK_DETECT", "BAD_BLOCKS_ERROR")
      [] w = "NETWORK_DETECT"    -> Then("CREATE_PARTITIONS", "NETWORK_DETECT_ERROR")
      [] w = "CREATE_PARTITIONS" -> Then("MAKE_SWAP", "CREATE_PARTITIONS_ERROR")
      [] w = "MAKE_SWAP"         -> Then("MAKE_SNAPPTIX", "MAKE_SWAP_ERROR")
      [] w = "MAKE_SNAPPTIX"     -> AfterSnapptix
      [] w = "MAKE_USER"         -> Then("MOUNT_PARTITIONS", "MAKE_USER_ERROR")
      [] w = "MOUNT_PARTITIONS"  -> AfterMount
      [] w = "INSTALL_PACKAGES"  -> Then("INSTALL_NICS", "INSTALL_PACKAGES_ERROR")
      [] w = "INSTALL_NICS"      -> Then("NODE_TYPE_SELECT", "INSTALL_NICS_ERROR")

\* And after them.
ClusterSteps(w) ==
    CASE w = "SYNC_WITH_ALPHA" -> Then("NETWORK_CONFIG", "SYNC_WITH_ALPHA_ERROR")
      [] w = "SETUP_CONFIGS"   -> Then("KERNEL_INSTALL", "SETUP_CONFIGS_ERROR")
      [] w = "KERNEL_INSTALL"  -> AfterKernel
      [] w = "FINAL_SYNC"      -> Then("UNMOUNT", "FINAL_SYNC_ERROR")
      [] w = "UNMOUNT"         -> Then("REBOOT", "UNMOUNT_ERROR")

Busy(w, t, collected) ==
    /\ page' = w
    /\ StartThread(Work(w), collected)
    /\ timers' = t + 1
    /\ update' = IF w \in {"SYNC_WITH_ALPHA", "SETUP_CONFIGS", "KERNEL_INSTALL",
                           "FINAL_SYNC", "UNMOUNT"}
                 THEN ClusterSteps(w) ELSE DiscSteps(w)
    /\ UNCHANGED <<node_type, crash>>

\* A window that waits for the user, or for nothing.
Still(w, t, collected) ==
    /\ page' = w
    /\ timers' = t
    /\ NoThread(collected)

CreatePartitions(t, collected) ==
    IF devices < 1
    THEN Still("NONETDEVICE_ERROR", t, collected) /\ UNCHANGED <<update, node_type, crash>>
    ELSE Busy("CREATE_PARTITIONS", t, collected)

\* The button's window is kept in update.next, to which `data` points since the
\* timer passed it.  On a machine with one adapter the window is entered from
\* node type selection, and the alignment for its button was destroyed long ago:
\* the installer dies, or the button is never seen.
GetTimezone(type, t, collected) ==
    /\ Still("GET_TZINFO", t, collected)
    /\ update' = [update EXCEPT !.next = IF type # 0 THEN "SYNC_PROMPT" ELSE "GET_PASSWORD"]
    /\ node_type' = type
    /\ crash' \in IF devices = 1 THEN {"no", "GET_TZINFO"} ELSE {"no"}

NodeTypeSelect(t, collected) ==
    IF devices = 1
    THEN GetTimezone(0, t, collected)
    ELSE /\ Still("NODE_TYPE_SELECT", t, collected)
         /\ update' = [update EXCEPT !.next = "GET_TZINFO"]
         /\ node_type' = -1
         /\ UNCHANGED crash

GetPassword(t, collected) ==
    Still("GET_PASSWORD", t, collected) /\ UNCHANGED <<update, node_type, crash>>

SyncPrompt(t, collected) ==
    /\ Still("SYNC_PROMPT", t, collected)
    /\ update' = [update EXCEPT !.next = "SYNC_WITH_ALPHA"]
    /\ UNCHANGED <<node_type, crash>>

\* The sync is repeated at once, whatever the user does with the message.
SyncWithAlphaError(t, collected) ==
    /\ page' = "SYNC_WITH_ALPHA_ERROR"
    /\ StartThread("sync_again", collected)
    /\ timers' = t + 1
    /\ UNCHANGED <<update, node_type, crash>>

NetworkConfig(t, collected) ==
    Still("NETWORK_CONFIG", t, collected) /\ UNCHANGED <<update, node_type, crash>>

Reboot(t, collected) ==
    Still("REBOOT", t, collected) /\ UNCHANGED <<update, node_type, crash>>

Error(w, t, collected) ==
    Still(w, t, collected) /\ UNCHANGED <<update, node_type, crash>>

SetupWindow(w, t, collected) ==
    \/ w = "CREATE_PARTITIONS" /\ CreatePartitions(t, collected)
    \/ w \in BusyWindow \ {"CREATE_PARTITIONS"} /\ Busy(w, t, collected)
    \/ w = "NODE_TYPE_SELECT" /\ NodeTypeSelect(t, collected)
    \/ w = "GET_TZINFO" /\ GetTimezone(node_type, t, collected)
    \/ w = "GET_PASSWORD" /\ GetPassword(t, collected)
    \/ w = "SYNC_PROMPT" /\ SyncPrompt(t, collected)
    \/ w = "SYNC_WITH_ALPHA_ERROR" /\ SyncWithAlphaError(t, collected)
    \/ w = "NETWORK_CONFIG" /\ NetworkConfig(t, collected)
    \/ w = "REBOOT" /\ Reboot(t, collected)
    \/ w \in ErrorWindow /\ Error(w, t, collected)

\* The network page begins with its entries unchecked.
EnterSection(w) == section' = IF w = "NETWORK_CONFIG" THEN "CHECK_ENTRIES" ELSE section

-----------------------------------------------------------------------------
\* Callbacks.

\* Mutant: the timer that has shown the next window goes on.
TimersLeftAll == timers

\* The timer that has shown the next window ends.
TimersLeft == timers - 1

\* update_progress_bar() finds the flag set.  Joining a thread that was joined
\* before leaves retval as it was on the stack.
Timer ==
    /\ crash = "no"
    /\ timers > 0
    /\ thread_finished
    /\ ~Running(Tid)
    /\ \/ \E failed \in IF joined THEN BOOLEAN ELSE {Tid.result = "error"} :
             LET w == IF failed THEN update.error ELSE update.next
             IN  /\ SetupWindow(w, TimersLeft, TRUE)
                 /\ EnterSection(w)
                 /\ UNCHANGED <<machineVars, dialog, clicks, detected, data_partition,
                                net_timers, cleared>>
       \/ joined /\ Die("update_progress_bar")

\* Mutant: the break after the question is missing.
QueryRepairFallsThrough ==
    /\ Busy("CONTINUE_CHECK", timers, joined)
    /\ data_partition' = TRUE
    /\ dialog' = "repair"

\* The question whether to keep the user data is waited for.
QueryRepair ==
    /\ Still("CHECK_DRIVE", timers, joined)
    /\ data_partition' = TRUE
    /\ dialog' = "repair"
    /\ UNCHANGED <<update, node_type, crash>>

\* What is found of an earlier installation.  An error while the partitions are read
\* counts as none.
find_snapptix_partition == {"none", leftover}

\* The welcome window's button: is there a drive, and an earlier installation on
\* it?  The question about corrupt data is not waited for, and its button goes into
\* a container that was never set: it may be seen or not, or the installer dies.
CheckDrive ==
    /\ crash = "no"
    /\ page = "INTRO"
    /\ \/ /\ Still("HARDDRIVE_ERROR", timers, joined)
          /\ UNCHANGED <<dialog, data_partition, update, node_type, crash>>
       \/ /\ "none" \in find_snapptix_partition
          /\ Busy("CONTINUE_CHECK", timers, joined)
          /\ data_partition' = FALSE
          /\ UNCHANGED dialog
       \/ /\ "good" \in find_snapptix_partition
          /\ QueryRepair
       \/ /\ "corrupt" \in find_snapptix_partition
          /\ Busy("CONTINUE_CHECK", timers, joined)
          /\ data_partition' = TRUE
          /\ dialog' \in {"error", "blank"}
    /\ UNCHANGED <<machineVars, netVars, net_timers, cleared>>

QueryDies ==
    page = "INTRO" /\ leftover = "corrupt" /\ Die("previous_install_query")

\* "YES" keeps the user data.
GotYes ==
    /\ crash = "no"
    /\ dialog = "repair"
    /\ dialog' = "none"
    /\ SetupWindow("CONTINUE_CHECK", timers, joined)
    /\ UNCHANGED <<machineVars, netVars, data_partition, net_timers, cleared>>

\* "NO", and the "Next" of the question about corrupt data, do not.
GotNo ==
    /\ crash = "no"
    /\ dialog \in {"repair", "error"}
    /\ dialog' = "none"
    /\ data_partition' = FALSE
    /\ SetupWindow("CONTINUE_CHECK", timers, joined)
    /\ UNCHANGED <<machineVars, netVars, net_timers, cleared>>

\* Mutant: the rows of the list are counted from one.
SelectNodeTypeFromOne ==
    /\ crash = "no"
    /\ dialog = "none"
    /\ page = "NODE_TYPE_SELECT"
    /\ node_type' \in {1, 2}
    /\ UNCHANGED <<machineVars, page, dialog, netVars, data_partition, update,
                   timers, net_timers, threadVars, cleared, crash>>

\* selection_made() on the list of node types.  A dialog covers the whole screen,
\* so the window below it takes no clicks.
SelectNodeType ==
    /\ crash = "no"
    /\ dialog = "none"
    /\ page = "NODE_TYPE_SELECT"
    /\ node_type' \in {0, 1}
    /\ UNCHANGED <<machineVars, page, dialog, netVars, data_partition, update,
                   timers, net_timers, threadVars, cleared, crash>>

\* "Next" where setup_window() itself is the callback.  It is grey until a row is
\* selected; that the timezone is selected first is left out.
ButtonNext ==
    /\ crash = "no"
    /\ dialog = "none"
    /\ \/ page = "NODE_TYPE_SELECT" /\ node_type # -1
       \/ page = "GET_TZINFO" /\ devices # 1
       \/ page = "SYNC_PROMPT"
    /\ SetupWindow(update.next, timers, joined)
    /\ EnterSection(update.next)
    /\ UNCHANGED <<machineVars, dialog, clicks, detected, data_partition,
                   net_timers, cleared>>

\* check_passwords() with two equal entries; otherwise it only clears them.
CheckPasswords ==
    /\ crash = "no"
    /\ dialog = "none"
    /\ page = "GET_PASSWORD"
    /\ SetupWindow("NETWORK_CONFIG", timers, joined)
    /\ EnterSection("NETWORK_CONFIG")
    /\ UNCHANGED <<machineVars, dialog, clicks, detected, data_partition,
                   net_timers, cleared>>

\* check_network_config() with entries that are in order; otherwise it only shows
\* a message.  A window asks the user to connect the external interface.
CheckEntries ==
    /\ crash = "no"
    /\ page = "NETWORK_CONFIG"
    /\ dialog = "none"
    /\ section = "CHECK_ENTRIES"
    /\ dialog' = "prompt"
    /\ section' = "CHECK_NET"
    /\ clicks' = 0
    /\ UNCHANGED <<machineVars, page, detected, choiceVars, update,
                   timers, net_timers, threadVars, cleared, crash>>

\* Mutant: the window's button stays, and may be clicked again.
StartNetCheckStays ==
    /\ dialog' = "prompt"
    /\ detected' = FALSE
    /\ StartThread("find_connected_external", joined)
    /\ net_timers' = net_timers + 1
    /\ UNCHANGED <<machineVars, page, section, choiceVars, update, timers, cleared, crash>>

\* The window says that it is testing, and a thread looks for the interface.
StartNetCheck ==
    /\ dialog' = "testing"
    /\ detected' = FALSE
    /\ StartThread("find_connected_external", joined)
    /\ net_timers' = net_timers + 1
    /\ UNCHANGED <<machineVars, page, section, choiceVars, update, timers, cleared, crash>>

\* The window's own button, which is then destroyed.
CheckNet ==
    /\ crash = "no"
    /\ dialog = "prompt"
    /\ section = "CHECK_NET"
    /\ StartNetCheck
    /\ UNCHANGED clicks

\* The page's button is still there: clicks that were made before the window
\* covered it come to the same callback.  The second of them finds the window's
\* widgets destroyed, which may be the end of the installer.
CheckNetBehind ==
    /\ crash = "no"
    /\ page = "NETWORK_CONFIG"
    /\ section = "CHECK_NET"
    /\ clicks < MaxClicks
    /\ \/ dialog = "prompt"
       \/ dialog = "testing" /\ clicks > 0
    /\ StartNetCheck
    /\ clicks' = clicks + 1

BehindDies ==
    dialog = "testing" /\ clicks \in 1 .. MaxClicks - 1 /\ Die("check_network_config")

\* network_config_update() finds the flag set: what the thread returns is not
\* looked at, what it detected is.  The window is destroyed.
NetTimer ==
    /\ crash = "no"
    /\ net_timers > 0
    /\ thread_finished
    /\ ~Running(Tid)
    /\ net_timers' = net_timers - 1
    /\ dialog' = "none"
    /\ IF detected
       THEN /\ section' = "CHECK_EXIT"
            /\ SetupWindow("SETUP_CONFIGS", timers, TRUE)
       ELSE /\ section' = "CHECK_ENTRIES"
            /\ NoThread(TRUE)
            /\ UNCHANGED <<page, update, node_type, timers, crash>>
    /\ UNCHANGED <<machineVars, clicks, detected, data_partition, cleared>>

\* A second timer destroys the window again.
NetTimerDies ==
    net_timers > 0 /\ thread_finished /\ dialog = "none" /\ Die("check_network_config")

-----------------------------------------------------------------------------
WorkerStep == \E i \in DOMAIN workers : WorkerEnds(i) \/ MakeUserHangs(i)

UserStep ==
    \/ CheckDrive
    \/ GotYes
    \/ GotNo
    \/ SelectNodeType
    \/ ButtonNext
    \/ CheckPasswords
    \/ CheckEntries
    \/ CheckNet
    \/ CheckNetBehind

Dies == QueryDies \/ RetryDies \/ BehindDies \/ NetTimerDies

Next == WorkerStep \/ Timer \/ NetTimer \/ UserStep \/ Dies

\* The tools the workers run come to an end, and with them the workers, or make_user()
\* hangs; GTK calls the timers again and again.  Nothing is assumed of the user.
Fairness == WF_vars(WorkerStep) /\ WF_vars(Timer) /\ WF_vars(NetTimer)

Spec == Init /\ [][Next]_vars /\ Fairness

-----------------------------------------------------------------------------
\* Properties.

\* The one handle, flag and record are used by one thread at a time, each step
\* once, in whatever order threads end, timers fire and the user clicks: a thread
\* is started out of turn only by the question about corrupt data, which nobody
\* waits for, or by a third click on the network page.
StraysOnlyBy ==
    [][strays = 0 /\ strays' > 0 => \/ leftover = "corrupt" /\ dialog = "error"
                               \/ clicks' > 1]_vars

\* Every thread that was not joined has one timer that will join it, and no timer
\* is left over that would take a later thread's end for its own.
OneTimerPerThread ==
    strays = 0 => timers + net_timers = (IF joined THEN 0 ELSE 1)

\* What is mounted on /home is the old user data exactly if the user kept them, up
\* to the sync of a beta, which replaces them.
HomeIsAsAsked ==
    (strays = 0 /\ "home" \in disc.mounts) =>
        disc.user = (IF data_partition THEN "data" ELSE "fresh")

\* While the user is asked about good data, nothing happens to the disc.
NothingBehindQuestion == [][dialog = "repair" => disc' = disc]_vars

\* The last window asks for a reboot only when the unit is complete: new table and
\* file systems, swap, packages, modules, configuration and boot loader, nothing
\* mounted; and on a beta, the data of the alpha, which has been told of the beta.
RebootIsComplete ==
    (page = "REBOOT" /\ strays = 0) =>
        /\ disc.table = "new"
        /\ disc.swap
        /\ disc.root = "fresh"
        /\ {"install_base", "install_nic_modules", "setup_configs", "setup_kernel"}
              \subseteq disc.files
        /\ disc.mounts = {}
        /\ node_type \in {0, 1}
        /\ node_type = 1 => /\ disc.user = "mirror"
                            /\ {"sync_with_alpha", "final_sync"} \subseteq disc.files
        /\ node_type = 0 => disc.user = (IF data_partition THEN "data" ELSE "fresh")

\* The one read that never returns, once the tool has gone.
ReadsForEver(w) == w = "MAKE_USER" /\ Tid.result = "hung"

\* A busy window is always followed by another one, once the tools behind it have
\* ended: no thread's end is missed.  The one exception is make_user()'s.
BusyWindowsEnd ==
    \A w \in BusyWindow :
        page = w ~> (page # w \/ ReadsForEver(w) \/ crash # "no" \/ strays > 0)

\* The installer works as the plan says, as long as no thread is started out of
\* turn.
Lost == crash # "no" \/ strays > 0

Plan == INSTANCE InstallPlan WITH
    done    <- IF Lost THEN {} ELSE cleared,
    running <- IF Lost \/ workers = <<>> \/ ~Running(Tid) THEN "none"
               ELSE IF Tid.fn = "sync_again" THEN "sync_with_alpha" ELSE Tid.fn,
    stopped <- Lost \/ Failed

FollowsPlan == Plan!PlanSpec

\* PREVIOUS_INSTALL_TEXT: "Click yes to keep your user data".  Once the user has
\* said so, only the sync with the alpha replaces them.
YesKeepsData ==
    [][(data_partition /\ leftover = "good" /\ disc.user = "data")
          => disc'.user \in {"data", "mirror"}]_vars

\* The message of SYNC_WITH_ALPHA_ERROR: "Click OK to try again", and the comment
\* "Now try it again": the installer survives its second try.
RetrySurvives == crash # "sync_with_alpha"

=============================================================================
