------------------------ MODULE InstallerWizardProofs ------------------------
(***************************************************************************)
(* Theorems about InstallerWizard, for any leftovers of an earlier         *)
(* installation and any bounds.  As long as no thread was started out of   *)
(* turn, the installer is where its last thread left it: InTurn says what  *)
(* that is, page by page and step by step.                                 *)
(***************************************************************************)
EXTENDS InstallerWizard, SequenceTheorems, TLAPS

Thread == [fn : Function \cup {"sync_again"}, result : {"running", "hung", "ok", "error"}]

\* The type of the state, in three parts: threads, machine, and what the user sees.
ThreadsOK ==
    /\ workers \in Seq(Thread)
    /\ \A i \in 1 .. Len(workers) : i < Len(workers) => workers[i].result \in {"running", "hung"}
    /\ joined \in BOOLEAN
    /\ thread_finished \in BOOLEAN
    /\ strays \in 0 .. MaxStrays

Disc == [table : {"old", "new"}, swap : BOOLEAN, root : {"old", "fresh"},
         user : {"none", "data", "fresh", "mirror"},
         mounts : SUBSET Mountpoint, files : SUBSET Function]

MachineOK ==
    /\ leftover \in {"none", "good", "corrupt"}
    /\ moved \in BOOLEAN
    /\ devices \in 0 .. 2
    /\ disc \in Disc
    /\ cleared \subseteq Function
    /\ detected \in BOOLEAN

UserOK ==
    /\ dialog \in {"none", "repair", "error", "blank", "prompt", "testing"}
    /\ section \in {"CHECK_ENTRIES", "CHECK_NET", "CHECK_EXIT"}
    /\ clicks \in 0 .. MaxClicks
    /\ data_partition \in BOOLEAN
    /\ node_type \in -1 .. 1
    /\ timers \in Nat
    /\ net_timers \in Nat

TypeInv == ThreadsOK /\ MachineOK /\ UserOK

-----------------------------------------------------------------------------
(***************************************************************************)
(* The way of the installation.                                            *)
(***************************************************************************)

Syncs == {"sync_with_alpha", "sync_again"}

\* The steps that have succeeded when a step begins.
ToSnapptix == {"bad_block_scan", "detect_nic_cards", "create_partitions", "make_swap",
               "make_snapptix"}
ToUser == ToSnapptix \cup IF data_partition THEN {} ELSE {"make_user"}
ToNics == ToUser \cup {"mount_partitions", "install_base", "install_nic_modules"}
ToNetwork == ToNics \cup IF node_type = 1 THEN {"sync_with_alpha"} ELSE {}
ToKernel == ToNetwork \cup {"find_connected_external", "setup_configs", "setup_kernel"}

Before(fn) ==
    CASE fn = "bad_block_scan"          -> {}
      [] fn = "detect_nic_cards"        -> {"bad_block_scan"}
      [] fn = "create_partitions"       -> {"bad_block_scan", "detect_nic_cards"}
      [] fn = "make_swap"               -> ToSnapptix \ {"make_swap", "make_snapptix"}
      [] fn = "make_snapptix"           -> ToSnapptix \ {"make_snapptix"}
      [] fn = "make_user"               -> ToSnapptix
      [] fn = "mount_partitions"        -> ToUser
      [] fn = "install_base"            -> ToUser \cup {"mount_partitions"}
      [] fn = "install_nic_modules"     -> ToNics \ {"install_nic_modules"}
      [] fn \in Syncs                   -> ToNics
      [] fn = "find_connected_external" -> ToNetwork
      [] fn = "setup_configs"           -> ToNetwork \cup {"find_connected_external"}
      [] fn = "setup_kernel"            -> ToKernel \ {"setup_kernel"}
      [] fn = "final_sync"              -> ToKernel
      [] fn = "unmount_partitions"      ->
            ToKernel \cup IF node_type = 1 THEN {"final_sync"} ELSE {}

Steps(w) ==
    IF w \in {"SYNC_WITH_ALPHA", "SETUP_CONFIGS", "KERNEL_INSTALL", "FINAL_SYNC", "UNMOUNT"}
    THEN ClusterSteps(w) ELSE DiscSteps(w)

\* Before the first thread.
Untouched ==
    /\ page \in {"INTRO", "CHECK_DRIVE", "HARDDRIVE_ERROR"}
    /\ joined
    /\ cleared = {}
    /\ disc.mounts = {}
    /\ disc.user \in {"none", "data"}

\* The window a thread works under, and what it has put into `update`.
Working ==
    \/ /\ page \in BusyWindow
       /\ Tid.fn = Work(page)
       /\ update = Steps(page)
       /\ net_timers = 0
    \/ /\ page = "SYNC_WITH_ALPHA_ERROR"
       /\ Tid.fn = "sync_again"
       /\ update = Steps("SYNC_WITH_ALPHA")
       /\ net_timers = 0
    \/ /\ page = "NETWORK_CONFIG"
       /\ dialog = "testing"
       /\ Tid.fn = "find_connected_external"
       /\ net_timers = 1

Ended(fn, result) == Tid.fn = fn /\ Tid.result = result

\* What the last thread was when a window waits for the user, or for nothing.
Waiting ==
    \/ page \in ErrorWindow /\ Failed
    \/ page = "NONETDEVICE_ERROR" /\ Ended("detect_nic_cards", "ok")
    \/ /\ Ended("install_nic_modules", "ok")
       /\ \/ page = "NODE_TYPE_SELECT" /\ update.next = "GET_TZINFO"
          \/ /\ page = "GET_TZINFO"
             /\ node_type \in {0, 1}
             /\ update.next = IF node_type = 1 THEN "SYNC_PROMPT" ELSE "GET_PASSWORD"
          \/ page = "SYNC_PROMPT" /\ node_type = 1 /\ update.next = "SYNC_WITH_ALPHA"
          \/ page \in {"GET_PASSWORD", "NETWORK_CONFIG"} /\ node_type = 0
    \/ page = "NETWORK_CONFIG" /\ Ended("sync_with_alpha", "ok")
    \/ page = "NETWORK_CONFIG" /\ Ended("find_connected_external", "error")
    \/ page = "REBOOT" /\ Ended("unmount_partitions", "ok")

\* The windows on top.
OnTop ==
    /\ dialog = "repair" => page = "CHECK_DRIVE" /\ leftover = "good"
    /\ dialog = "error" => workers # <<>> /\ leftover = "corrupt"
    /\ dialog = "prompt" => page = "NETWORK_CONFIG" /\ joined
    /\ dialog = "testing" => Tid.fn = "find_connected_external" /\ ~joined

\* What has succeeded, and which unit it is.
Ledger ==
    /\ cleared = Before(Tid.fn) \cup IF Tid.result = "ok" THEN {Tid.fn} ELSE {}
    /\ Tid.fn = "make_user" => ~data_partition
    /\ Tid.fn \in Syncs \cup {"final_sync"} => node_type = 1
    /\ Tid.fn \in {"find_connected_external", "setup_configs", "setup_kernel",
                   "unmount_partitions"} => node_type \in {0, 1}
    /\ Tid.fn = "sync_again" => Tid.result # "ok"
    /\ Tid.fn = "find_connected_external" => detected = (Tid.result = "ok")

Asked == IF data_partition THEN "data" ELSE "fresh"

SyncBegun == workers # <<>> /\ (Tid.fn \in Syncs \/ "sync_with_alpha" \in cleared)

\* The disc, as the steps leave it.
OnDisc ==
    /\ workers # <<>> /\ Tid.fn \in ToSnapptix \cup {"make_user"} => disc.mounts = {}
    /\ "create_partitions" \in cleared => disc.table = "new"
    /\ "make_swap" \in cleared => disc.swap
    /\ "make_snapptix" \in cleared => disc.root = "fresh"
    /\ {"install_base", "install_nic_modules", "setup_configs", "setup_kernel",
        "sync_with_alpha", "final_sync"} \cap cleared \subseteq disc.files
    /\ "unmount_partitions" \in cleared => disc.mounts = {}

\* And the user data.
UserData ==
    /\ "home" \in disc.mounts => disc.user = Asked
    /\ data_partition /\ ~SyncBegun => disc.user \in {"none", "data"}
    /\ "make_user" \in cleared /\ ~SyncBegun => disc.user = "fresh"
    /\ "mount_partitions" \in cleared /\ ~SyncBegun => disc.user # "none"
    /\ "sync_with_alpha" \in cleared => disc.user = "mirror" /\ "home" \notin disc.mounts

\* The record that tells the timer and the buttons what comes next.
Noted == DOMAIN update = {"next", "error"}

InTurn ==
    /\ Noted
    /\ Len(workers) <= 1
    /\ timers + net_timers = IF joined THEN 0 ELSE 1
    /\ workers = <<>> => Untouched
    /\ workers # <<>> => Ledger
    /\ workers # <<>> /\ joined => Waiting
    /\ ~joined => Working
    /\ OnTop
    /\ OnDisc
    /\ UserData

IInv == TypeInv /\ (strays = 0 => InTurn)
-----------------------------------------------------------------------------
(***************************************************************************)
(* Types.                                                                  *)
(***************************************************************************)

LEMMA TypeInvIsType == TypeInv => TypeOK
<1> SUFFICES ASSUME TypeInv PROVE TypeOK
  OBVIOUS
<1>1. \A i \in DOMAIN workers :
          /\ workers[i].fn \in Function \cup {"sync_again"}
          /\ workers[i].result \in {"running", "hung", "ok", "error"}
          /\ i < Len(workers) => workers[i].result \in {"running", "hung"}
  <2>1. DOMAIN workers = 1 .. Len(workers) /\ \A i \in 1 .. Len(workers) : workers[i] \in Thread
    BY DEF TypeInv, ThreadsOK
  <2> QED
    BY <2>1 DEF TypeInv, ThreadsOK, Thread
<1>2. /\ disc.table \in {"old", "new"}
      /\ disc.swap \in BOOLEAN
      /\ disc.root \in {"old", "fresh"}
      /\ disc.user \in {"none", "data", "fresh", "mirror"}
      /\ disc.mounts \subseteq Mountpoint
      /\ disc.files \subseteq Function
  BY DEF TypeInv, MachineOK, Disc
<1> QED
  BY <1>1, <1>2 DEF TypeInv, ThreadsOK, MachineOK, UserOK, TypeOK

LEMMA TypeInit == Init => TypeInv
<1> SUFFICES ASSUME Init PROVE TypeInv
  OBVIOUS
<1>1. ThreadsOK
  <2>1. workers \in Seq(Thread) /\ Len(workers) = 0
    BY EmptySeq DEF Init
  <2>2. joined \in BOOLEAN /\ thread_finished \in BOOLEAN
    BY Zenon DEF Init
  <2>3. strays \in 0 .. MaxStrays
    BY StrayAssumption DEF Init
  <2> QED
    BY <2>1, <2>2, <2>3 DEF ThreadsOK
<1>2. MachineOK
  <2>1. disc \in Disc
    BY DEF Init, Disc, Mountpoint
  <2>2. leftover \in {"none", "good", "corrupt"}
    BY LeftoverAssumption DEF Init
  <2>3. moved \in BOOLEAN /\ detected \in BOOLEAN
    BY Zenon, MoveAssumption DEF Init
  <2>4. devices \in 0 .. 2 /\ cleared \subseteq Function
    BY DEF Init
  <2> QED
    BY <2>1, <2>2, <2>3, <2>4 DEF MachineOK
<1>3. UserOK
  <2>1. clicks \in 0 .. MaxClicks /\ node_type \in -1 .. 1 /\ timers \in Nat /\ net_timers \in Nat
    BY ClickAssumption DEF Init
  <2>2. data_partition \in BOOLEAN
    BY DEF Init
  <2>3. /\ dialog \in {"none", "repair", "error", "blank", "prompt", "testing"}
        /\ section \in {"CHECK_ENTRIES", "CHECK_NET", "CHECK_EXIT"}
    BY DEF Init
  <2> QED
    BY <2>1, <2>2, <2>3 DEF UserOK
<1> QED
  BY <1>1, <1>2, <1>3 DEF TypeInv

\* A sequence without its last member.
LEMMA FrontIs ==
    ASSUME NEW S, NEW s \in Seq(S), s # <<>>
    PROVE  /\ Front(s) \in Seq(S)
           /\ Len(Front(s)) = Len(s) - 1
           /\ \A i \in 1 .. Len(s) - 1 : Front(s)[i] = s[i]
<1>1. Len(s) \in Nat /\ Len(s) >= 1
  OBVIOUS
<1> DEFINE n == Len(s) - 1
           front == SubSeq(s, 1, n)
<1>2. n \in Nat /\ \A i \in 1 .. n : s[i] \in S
  BY <1>1
<1> HIDE DEF n
<1>3. /\ front \in Seq(S)
      /\ Len(front) = IF 1 <= n THEN n - 1 + 1 ELSE 0
      /\ \A i \in 1 .. n - 1 + 1 : front[i] = s[1 + i - 1]
  BY <1>2, SubSeqProperties
<1>4. Front(s) = front
  BY DEF Front, n
<1> HIDE DEF front
<1>5. Len(front) = n /\ \A i \in 1 .. n : front[i] = s[i]
  BY <1>2, <1>3
<1> QED
  BY <1>3, <1>4, <1>5 DEF n

\* Those before the last thread run, and so do all if the last one does.
LEMMA OthersRun ==
    ASSUME ThreadsOK
    PROVE  LET others == IF workers = <<>> \/ Running(Tid) THEN workers ELSE Front(workers)
           IN  /\ others \in Seq(Thread)
               /\ \A i \in 1 .. Len(others) : Running(others[i])
<1>1. CASE workers = <<>>
  BY <1>1 DEF ThreadsOK
<1>2. CASE workers # <<>> /\ Running(Tid)
  BY <1>2 DEF ThreadsOK, Running, Tid, Last
<1>3. CASE workers # <<>> /\ ~Running(Tid)
  <2>1. Len(workers) \in Nat /\ Len(workers) > 0
    BY <1>3 DEF ThreadsOK
  <2>2. /\ Front(workers) \in Seq(Thread)
        /\ Len(Front(workers)) = Len(workers) - 1
        /\ \A i \in 1 .. Len(workers) - 1 : Front(workers)[i] = workers[i]
    BY <1>3, FrontIs DEF ThreadsOK
  <2> QED
    BY <1>3, <2>1, <2>2 DEF ThreadsOK, Running
<1> QED
  BY <1>1, <1>2, <1>3

LEMMA StartType ==
    ASSUME ThreadsOK, NEW fn \in Function \cup {"sync_again"}, NEW collected,
           StartThread(fn, collected)
    PROVE  ThreadsOK'
<1> DEFINE others == IF workers = <<>> \/ Running(Tid) THEN workers ELSE Front(workers)
           new == [fn |-> fn, result |-> "running"]
<1>1. others \in Seq(Thread) /\ \A i \in 1 .. Len(others) : Running(others[i])
  BY OthersRun
<1>2. new \in Thread
  BY DEF Thread
<1>3. workers' = Append(others, new)
  BY DEF StartThread
<1>4. /\ workers' \in Seq(Thread)
      /\ \A i \in 1 .. Len(workers') :
            i < Len(workers') => workers'[i].result \in {"running", "hung"}
  <2> HIDE DEF others, new
  <2> QED  BY <1>1, <1>2, <1>3 DEF Running
<1>5. strays' \in 0 .. MaxStrays
  BY StrayAssumption DEF StartThread, ThreadsOK
<1> QED
  BY <1>4, <1>5 DEF StartThread, ThreadsOK

LEMMA NoThreadType ==
    ASSUME ThreadsOK, NEW collected \in BOOLEAN, NoThread(collected)
    PROVE  ThreadsOK'
  BY DEF NoThread, ThreadsOK

LEMMA BusyType ==
    ASSUME TypeInv, NEW w \in BusyWindow, NEW t \in Nat, NEW collected, Busy(w, t, collected)
    PROVE  ThreadsOK' /\ timers' \in Nat /\ node_type' = node_type
<1>1. Work(w) \in Function
  BY DEF BusyWindow, Work, Function
<1> QED
  BY <1>1, StartType DEF Busy, TypeInv

LEMMA StillType ==
    ASSUME TypeInv, NEW w, NEW t \in Nat, NEW collected \in BOOLEAN, Still(w, t, collected)
    PROVE  ThreadsOK' /\ timers' \in Nat
  BY NoThreadType DEF Still, TypeInv

LEMMA SetupType ==
    ASSUME TypeInv, NEW w, NEW t \in Nat, NEW collected \in BOOLEAN,
           SetupWindow(w, t, collected)
    PROVE  ThreadsOK' /\ timers' \in Nat /\ node_type' \in -1 .. 1
<1> node_type \in -1 .. 1
  BY DEF TypeInv, UserOK
<1>1. CASE w = "CREATE_PARTITIONS" /\ CreatePartitions(t, collected)
  BY <1>1, BusyType, StillType DEF CreatePartitions, BusyWindow
<1>2. CASE w \in BusyWindow \ {"CREATE_PARTITIONS"} /\ Busy(w, t, collected)
  BY <1>2, BusyType
<1>3. CASE NodeTypeSelect(t, collected)
  BY <1>3, StillType DEF NodeTypeSelect, GetTimezone
<1>4. CASE GetTimezone(node_type, t, collected)
  BY <1>4, StillType DEF GetTimezone
<1>5. CASE SyncWithAlphaError(t, collected)
  BY <1>5, StartType DEF SyncWithAlphaError, TypeInv
<1>6. CASE \/ GetPassword(t, collected) \/ SyncPrompt(t, collected)
           \/ NetworkConfig(t, collected) \/ Reboot(t, collected) \/ Error(w, t, collected)
  BY <1>6, StillType DEF GetPassword, SyncPrompt, NetworkConfig, Reboot, Error
<1> QED
  BY <1>1, <1>2, <1>3, <1>4, <1>5, <1>6 DEF SetupWindow

\* A callback that ends in setup_window() and leaves the machine alone.
LEMMA SetupKeepsType ==
    ASSUME TypeInv, NEW w, NEW t \in Nat, NEW collected \in BOOLEAN,
           SetupWindow(w, t, collected), UNCHANGED <<machineVars, cleared>>,
           detected' \in BOOLEAN, dialog' \in {"none", dialog}, clicks' = clicks,
           data_partition' \in BOOLEAN, net_timers' \in Nat,
           section' \in {section, "CHECK_ENTRIES", "CHECK_EXIT"}
    PROVE  TypeInv'
<1>1. ThreadsOK' /\ timers' \in Nat /\ node_type' \in -1 .. 1
  BY SetupType
<1>2. MachineOK'
  BY DEF TypeInv, MachineOK, machineVars
<1>3. UserOK'
  BY <1>1 DEF TypeInv, UserOK
<1> QED
  BY <1>1, <1>2, <1>3 DEF TypeInv

\* What a worker leaves is a disc.
LEMMA EffectsType ==
    ASSUME disc \in Disc, NEW fn \in Function \cup {"sync_again"}, NEW good \in BOOLEAN
    PROVE  Effects(fn, good) \subseteq Disc /\ (fn = "sync_again" /\ good => Effects(fn, good) = {})
<1>1. create_partitions(good) \subseteq Disc /\ make_swap(good) \subseteq Disc
  <2>1. \A u \in {"data", "none"} :
            [disc EXCEPT !.table = "new", !.swap = FALSE, !.root = "old", !.user = u] \in Disc
    BY DEF Disc
  <2>2. create_partitions(good) \subseteq Disc
    BY <2>1 DEF create_partitions
  <2> QED
    BY <2>2 DEF make_swap, Disc
<1>2. make_snapptix(good) \subseteq Disc /\ make_user(good) \subseteq Disc
  <2>1. make_snapptix(good) \subseteq Disc
    BY DEF make_snapptix, Disc
  <2>2. make_user(good) \subseteq Disc
    BY DEF make_user, Disc
  <2> QED
    BY <2>1, <2>2
<1>3. mount_partitions(good) \subseteq Disc
  BY DEF mount_partitions, Disc, Mountpoint
<1>4. unmount_partitions(good) \subseteq Disc
  BY DEF unmount_partitions, Disc, Mountpoint
<1>5. \A g \in BOOLEAN : sync_with_alpha(g) \subseteq Disc
  <2> DEFINE bare == [disc EXCEPT !.mounts = @ \ {"home"}]
             synced == [disc EXCEPT !.user = "mirror", !.mounts = @ \ {"home"}]
  <2>1. bare \in Disc /\ synced \in Disc
    BY DEF Disc
  <2>2. [synced EXCEPT !.files = @ \cup {"sync_with_alpha"}] \in Disc
    <3> HIDE DEF synced
    <3> QED
      BY <2>1 DEF Disc, Function
  <2> HIDE DEF Disc
  <2> QED
    BY <2>1, <2>2 DEF sync_with_alpha
<1>6. sync_again(good) \subseteq Disc /\ (good => sync_again(good) = {})
  BY <1>5 DEF sync_again
<1>7. setup_configs(good) \subseteq Disc
  BY DEF setup_configs, Disc, Function
<1>8. \A f \in Function : Leaves(f, good) \subseteq Disc
  BY DEF Leaves, Disc
<1> HIDE DEF Disc
<1> QED
  BY <1>1, <1>2, <1>3, <1>4, <1>5, <1>6, <1>7, <1>8 DEF Effects, Function

\* A sequence without one of its members.
LEMMA RemoveAtIs ==
    ASSUME NEW S, NEW s \in Seq(S), NEW i \in 1 .. Len(s)
    PROVE  /\ RemoveAt(s, i) \in Seq(S)
           /\ Len(RemoveAt(s, i)) = Len(s) - 1
           /\ \A j \in 1 .. Len(s) - 1 :
                 RemoveAt(s, i)[j] = IF j < i THEN s[j] ELSE s[j + 1]
<1> DEFINE one == SubSeq(s, 1, i - 1)
           two == SubSeq(s, i + 1, Len(s))
<1>1. Len(s) \in Nat /\ i \in Nat /\ i >= 1 /\ i <= Len(s)
  OBVIOUS
<1>2. \A j \in 1 .. Len(s) : s[j] \in S
  OBVIOUS
<1>3. /\ one \in Seq(S) /\ Len(one) = i - 1
      /\ \A j \in 1 .. i - 1 : one[j] = s[j]
  BY <1>1, <1>2, SubSeqProperties
<1>4. /\ two \in Seq(S) /\ Len(two) = Len(s) - i
      /\ \A j \in 1 .. Len(s) - i : two[j] = s[j + i]
  <2>1. \A j \in (i + 1) .. Len(s) : s[j] \in S
    BY <1>1, <1>2
  <2>2. i + 1 \in Int /\ Len(s) \in Int
    BY <1>1
  <2>3. /\ two \in Seq(S)
        /\ Len(two) = IF i + 1 <= Len(s) THEN Len(s) - (i + 1) + 1 ELSE 0
        /\ \A j \in 1 .. Len(s) - (i + 1) + 1 : two[j] = s[(i + 1) + j - 1]
    BY <2>1, <2>2, SubSeqProperties
  <2> HIDE DEF two
  <2> QED
    BY <1>1, <2>3
<1>5. RemoveAt(s, i) = one \o two
  BY DEF RemoveAt
<1> HIDE DEF one, two
<1>6. /\ one \o two \in Seq(S)
      /\ Len(one \o two) = Len(one) + Len(two)
      /\ \A j \in 1 .. Len(one) + Len(two) :
            (one \o two)[j] = IF j <= Len(one) THEN one[j] ELSE two[j - Len(one)]
  BY <1>3, <1>4, ConcatProperties
<1>7. ASSUME NEW j \in 1 .. Len(s) - 1
      PROVE  (one \o two)[j] = IF j < i THEN s[j] ELSE s[j + 1]
  <2>1. CASE j < i
    BY <1>1, <1>3, <1>4, <1>6, <2>1
  <2>2. CASE j >= i
    <3>1. j - (i - 1) \in 1 .. Len(s) - i /\ (j - (i - 1)) + i = j + 1
      BY <1>1, <2>2
    <3>2. two[j - (i - 1)] = s[j + 1]
      BY <1>4, <3>1
    <3>3. (one \o two)[j] = two[j - (i - 1)]
      BY <1>1, <1>3, <1>4, <1>6, <2>2
    <3> QED
      BY <2>2, <3>2, <3>3, <1>1
  <2>3. j < i \/ j >= i
    BY <1>1
  <2> QED
    BY <2>1, <2>2, <2>3
<1> QED
  BY <1>1, <1>3, <1>4, <1>5, <1>6, <1>7

LEMMA WorkerEndsType ==
    ASSUME TypeInv, NEW i \in DOMAIN workers, WorkerEnds(i)
    PROVE  TypeInv'
<1> DEFINE fn == workers[i].fn
<1>0. /\ workers \in Seq(Thread) /\ Len(workers) \in Nat /\ i \in 1 .. Len(workers)
      /\ workers[i] \in Thread /\ fn \in Function \cup {"sync_again"}
  <2>1. workers \in Seq(Thread) /\ Len(workers) \in Nat /\ i \in 1 .. Len(workers)
    BY DEF TypeInv, ThreadsOK
  <2>2. workers[i] \in Thread
    BY <2>1
  <2> QED
    BY <2>1, <2>2 DEF Thread
<1>1. PICK good \in BOOLEAN :
              /\ disc' \in Effects(fn, good)
              /\ cleared' = IF good THEN cleared \cup {fn} ELSE cleared
              /\ devices' \in IF fn = "detect_nic_cards" THEN detect_nic_cards(good)
                              ELSE {devices}
              /\ detected' = (detected \/ (fn = "find_connected_external" /\ good))
              /\ workers' = IF i < Len(workers) THEN RemoveAt(workers, i)
                            ELSE [workers EXCEPT ![i].result =
                                    IF fn \in cleared' THEN "ok" ELSE "error"]
              /\ SetFinished(good)
  BY DEF WorkerEnds
<1> HIDE DEF fn
<1>2. disc' \in Disc /\ cleared' \subseteq Function
  BY <1>0, <1>1, EffectsType DEF TypeInv, MachineOK
<1>3. MachineOK'
  BY <1>1, <1>2 DEF TypeInv, MachineOK, WorkerEnds, detect_nic_cards
<1>4. UserOK'
  BY DEF TypeInv, UserOK, WorkerEnds, choiceVars
<1>5. /\ workers' \in Seq(Thread)
      /\ \A j \in 1 .. Len(workers') :
            j < Len(workers') => workers'[j].result \in {"running", "hung"}
  <2>1. CASE i < Len(workers)
    <3>1. /\ workers' \in Seq(Thread) /\ Len(workers') = Len(workers) - 1
          /\ \A j \in 1 .. Len(workers) - 1 :
                workers'[j] = IF j < i THEN workers[j] ELSE workers[j + 1]
      BY <1>0, <1>1, <2>1, RemoveAtIs
    <3>2. ASSUME NEW j \in 1 .. Len(workers) - 1, j < Len(workers) - 1
          PROVE  workers'[j].result \in {"running", "hung"}
      <4>1. j \in 1 .. Len(workers) /\ j + 1 \in 1 .. Len(workers)
        BY <1>0, <3>2
      <4>2. /\ workers[j].result \in {"running", "hung"}
            /\ workers[j + 1].result \in {"running", "hung"}
        BY <1>0, <3>2, <4>1 DEF TypeInv, ThreadsOK
      <4> QED
        BY <3>1, <4>2
    <3> QED
      BY <3>1, <3>2
  <2>2. CASE i = Len(workers)
    <3>1. workers' = [workers EXCEPT ![i] =
                         [workers[i] EXCEPT !.result = IF fn \in cleared' THEN "ok" ELSE "error"]]
      BY <1>1, <1>0, <2>2 DEF TypeInv, ThreadsOK
    <3>2. [workers[i] EXCEPT !.result = IF fn \in cleared' THEN "ok" ELSE "error"] \in Thread
      BY <1>0 DEF Thread
    <3> QED
      BY <1>0, <2>2, <3>1, <3>2 DEF TypeInv, ThreadsOK
  <2> QED
    BY <1>0, <2>1, <2>2 DEF TypeInv, ThreadsOK
<1>6. ThreadsOK'
  BY <1>1, <1>5 DEF TypeInv, ThreadsOK, WorkerEnds, SetFinished
<1> QED
  BY <1>3, <1>4, <1>6 DEF TypeInv

LEMMA MakeUserHangsType ==
    ASSUME TypeInv, NEW i \in DOMAIN workers, MakeUserHangs(i)
    PROVE  TypeInv'
<1> DEFINE hung == [workers[i] EXCEPT !.result = "hung"]
<1>1. /\ workers \in Seq(Thread) /\ Len(workers) \in Nat /\ i \in 1 .. Len(workers)
      /\ workers[i] \in Thread
  BY DEF TypeInv, ThreadsOK
<1>2. hung \in Thread /\ hung.result = "hung"
  BY <1>1 DEF Thread
<1>3. ThreadsOK'
  <2>1. workers' = [workers EXCEPT ![i] = hung]
    BY DEF MakeUserHangs
  <2> HIDE DEF hung
  <2>2. workers' \in Seq(Thread) /\ Len(workers') = Len(workers)
    BY <1>1, <1>2, <2>1
  <2>3. \A j \in 1 .. Len(workers) : workers'[j] = IF j = i THEN hung ELSE workers[j]
    BY <1>1, <2>1
  <2>4. \A j \in 1 .. Len(workers') :
           j < Len(workers') => workers'[j].result \in {"running", "hung"}
    BY <1>2, <2>2, <2>3 DEF TypeInv, ThreadsOK
  <2> QED
    BY <2>2, <2>4 DEF MakeUserHangs, TypeInv, ThreadsOK
<1>4. MachineOK'
  <2>1. disc' \in Disc
    <3>1. disc \in Disc
      BY DEF TypeInv, MachineOK
    <3>2. \E u \in {disc.user, "fresh", "none"} : disc' = [disc EXCEPT !.user = u]
      BY <3>1 DEF MakeUserHangs, make_user, Disc
    <3> QED
      BY <3>1, <3>2 DEF Disc
  <2>2. UNCHANGED <<leftover, moved, devices, cleared, detected>>
    BY DEF MakeUserHangs, netVars
  <2> QED
    BY <2>1, <2>2 DEF TypeInv, MachineOK
<1>5. UserOK'
  BY DEF MakeUserHangs, TypeInv, UserOK, netVars, choiceVars
<1> QED
  BY <1>3, <1>4, <1>5 DEF TypeInv

LEMMA DieType ==
    ASSUME TypeInv, NEW where, Die(where)
    PROVE  TypeInv'
  BY DEF Die, TypeInv, ThreadsOK, MachineOK, UserOK, machineVars, netVars, choiceVars,
         threadVars

LEMMA TimerType ==
    ASSUME TypeInv, Timer
    PROVE  TypeInv'
<1>1. CASE joined /\ Die("update_progress_bar")
  BY <1>1, DieType
<1>2. ASSUME NEW w, SetupWindow(w, TimersLeft, TRUE), EnterSection(w),
             UNCHANGED <<machineVars, dialog, clicks, detected, data_partition,
                         net_timers, cleared>>
      PROVE  TypeInv'
  <2>1. TimersLeft \in Nat
    BY DEF TimersLeft, Timer, TypeInv, UserOK
  <2>2. /\ detected' \in BOOLEAN /\ data_partition' \in BOOLEAN /\ net_timers' \in Nat
        /\ section' \in {section, "CHECK_ENTRIES", "CHECK_EXIT"}
    BY <1>2 DEF TypeInv, MachineOK, UserOK, EnterSection
  <2> QED
    BY <1>2, <2>1, <2>2, SetupKeepsType
<1> QED
  BY <1>1, <1>2 DEF Timer

LEMMA NetTimerType ==
    ASSUME TypeInv, NetTimer
    PROVE  TypeInv'
<1>1. net_timers' \in Nat
  BY DEF NetTimer, TypeInv, UserOK
<1>2. CASE detected
  BY <1>1, <1>2, SetupKeepsType DEF NetTimer, TypeInv, MachineOK, UserOK
<1>3. CASE ~detected
  <2>1. ThreadsOK'
    BY <1>3, NoThreadType DEF NetTimer, TypeInv
  <2> QED
    BY <1>1, <1>3, <2>1 DEF NetTimer, TypeInv, MachineOK, UserOK, machineVars
<1> QED
  BY <1>2, <1>3

LEMMA CheckDriveType ==
    ASSUME TypeInv, CheckDrive
    PROVE  TypeInv'
<1>1. timers \in Nat /\ joined \in BOOLEAN
  BY DEF TypeInv, UserOK, ThreadsOK
<1>2. MachineOK'
  BY DEF CheckDrive, TypeInv, MachineOK, machineVars, netVars
<1>3. ThreadsOK' /\ timers' \in Nat /\ node_type' = node_type
  BY <1>1, BusyType, StillType DEF CheckDrive, QueryRepair, BusyWindow
<1>4. UserOK'
  BY <1>3 DEF CheckDrive, QueryRepair, TypeInv, UserOK, netVars
<1> QED
  BY <1>2, <1>3, <1>4 DEF TypeInv

LEMMA WindowStepType ==
    ASSUME TypeInv, GotYes \/ GotNo \/ ButtonNext \/ CheckPasswords
    PROVE  TypeInv'
<1>1. timers \in Nat /\ joined \in BOOLEAN /\ detected \in BOOLEAN /\ net_timers \in Nat
      /\ data_partition \in BOOLEAN
  BY DEF TypeInv, UserOK, ThreadsOK, MachineOK
<1>2. CASE GotYes
  BY <1>1, <1>2, SetupKeepsType DEF GotYes, netVars
<1>3. CASE GotNo
  BY <1>1, <1>3, SetupKeepsType DEF GotNo, netVars
<1>4. CASE ButtonNext
  BY <1>1, <1>4, SetupKeepsType DEF ButtonNext, EnterSection
<1>5. CASE CheckPasswords
  BY <1>1, <1>5, SetupKeepsType DEF CheckPasswords, EnterSection
<1> QED
  BY <1>2, <1>3, <1>4, <1>5

LEMMA NetCheckType ==
    ASSUME TypeInv, CheckEntries \/ CheckNet \/ CheckNetBehind
    PROVE  TypeInv'
<1>1. CASE CheckEntries
  BY <1>1, ClickAssumption
  DEF CheckEntries, TypeInv, ThreadsOK, MachineOK, UserOK, machineVars, choiceVars, threadVars
<1>2. CASE StartNetCheck /\ clicks' \in 0 .. MaxClicks
  <2>1. ThreadsOK'
    BY <1>2, StartType DEF StartNetCheck, Function, TypeInv
  <2>2. MachineOK'
    BY <1>2 DEF StartNetCheck, TypeInv, MachineOK, machineVars
  <2>3. net_timers' \in Nat /\ timers' \in Nat
    BY <1>2 DEF StartNetCheck, TypeInv, UserOK
  <2>4. UserOK'
    BY <1>2, <2>3 DEF StartNetCheck, TypeInv, UserOK, choiceVars
  <2> QED
    BY <2>1, <2>2, <2>4 DEF TypeInv
<1> QED
  BY <1>1, <1>2, ClickAssumption DEF CheckNet, CheckNetBehind, TypeInv, UserOK

LEMMA TypeNext == TypeInv /\ [Next]_vars => TypeInv'
<1> SUFFICES ASSUME TypeInv, [Next]_vars PROVE TypeInv'
  OBVIOUS
<1>1. CASE WorkerStep
  BY <1>1, WorkerEndsType, MakeUserHangsType DEF WorkerStep
<1>2. CASE SelectNodeType
  BY <1>2
  DEF SelectNodeType, TypeInv, ThreadsOK, MachineOK, UserOK, machineVars, netVars, threadVars
<1>3. CASE Dies
  BY <1>3, DieType DEF Dies, QueryDies, RetryDies, BehindDies, NetTimerDies
<1>4. CASE UNCHANGED vars
  BY <1>4 DEF vars, TypeInv, ThreadsOK, MachineOK, UserOK, machineVars, netVars, choiceVars,
              threadVars
<1> QED
  BY <1>1, <1>2, <1>3, <1>4, TimerType, NetTimerType, CheckDriveType, WindowStepType,
     NetCheckType
  DEF Next, UserStep

\* Whatever threads were started out of turn, the state keeps its type.
THEOREM TypeCorrect == Spec => []TypeOK
<1>1. Spec => []TypeInv
  BY TypeInit, TypeNext, PTL DEF Spec
<1> QED
  BY <1>1, TypeInvIsType, PTL
-----------------------------------------------------------------------------
(***************************************************************************)
(* In turn: what comes after a thread.                                     *)
(***************************************************************************)

LEMMA LastThread ==
    ASSUME TypeInv, InTurn, workers # <<>>
    PROVE  /\ Len(workers) = 1 /\ Tid = workers[1]
           /\ Tid.fn \in Function \cup {"sync_again"}
           /\ Tid.result \in {"running", "hung", "ok", "error"}
<1>1. Len(workers) = 1
  <2>1. Len(workers) \in Nat /\ Len(workers) >= 1
    BY DEF TypeInv, ThreadsOK
  <2>2. Len(workers) <= 1
    BY DEF InTurn
  <2>3. \A n \in Nat : n >= 1 /\ n <= 1 => n = 1
    OBVIOUS
  <2> QED
    BY <2>1, <2>2, <2>3
<1>2. Tid = workers[1] /\ workers[1] \in Thread
  BY <1>1 DEF TypeInv, ThreadsOK, Tid, Last
<1> QED
  BY <1>1, <1>2 DEF Thread

\* What a thread needs that is started under window w.
Prepared(w) ==
    /\ cleared = Before(Work(w))
    /\ Work(w) = "make_user" => ~data_partition
    /\ Work(w) \in {"sync_with_alpha", "final_sync"} => node_type = 1
    /\ Work(w) \in {"setup_configs", "setup_kernel", "unmount_partitions"} => node_type \in {0, 1}
    /\ Work(w) \in ToSnapptix \cup {"make_user"} => disc.mounts = {}
    /\ SyncBegun => "sync_with_alpha" \in cleared

\* Where the timer goes once the thread of a busy window has ended.
Destination(w) ==
    \/ w \in BusyWindow /\ Prepared(w) /\ Tid.result = "ok"
       /\ (w = "CREATE_PARTITIONS" => Tid.fn = "detect_nic_cards")
    \/ w = "NODE_TYPE_SELECT" /\ Ended("install_nic_modules", "ok")
    \/ w = "NETWORK_CONFIG" /\ Ended("sync_with_alpha", "ok")
    \/ w = "REBOOT" /\ Ended("unmount_partitions", "ok")
    \/ w \in ErrorWindow /\ Failed
    \/ w = "SYNC_WITH_ALPHA_ERROR" /\ Tid.fn \in Syncs /\ Tid.result = "error"

\* A step begins when the one before it has succeeded.
LEMMA BeforeNext ==
    /\ Before("bad_block_scan") = {}
    /\ Before("detect_nic_cards") = Before("bad_block_scan") \cup {"bad_block_scan"}
    /\ Before("create_partitions") = Before("detect_nic_cards") \cup {"detect_nic_cards"}
    /\ Before("make_swap") = Before("create_partitions") \cup {"create_partitions"}
    /\ Before("make_snapptix") = Before("make_swap") \cup {"make_swap"}
    /\ Before("make_user") = Before("make_snapptix") \cup {"make_snapptix"}
    /\ data_partition =>
          Before("mount_partitions") = Before("make_snapptix") \cup {"make_snapptix"}
    /\ ~data_partition => Before("mount_partitions") = Before("make_user") \cup {"make_user"}
    /\ Before("install_base") = Before("mount_partitions") \cup {"mount_partitions"}
    /\ Before("install_nic_modules") = Before("install_base") \cup {"install_base"}
    /\ Before("sync_with_alpha") = Before("install_nic_modules") \cup {"install_nic_modules"}
    /\ Before("sync_again") = Before("sync_with_alpha")
    /\ node_type # 1 => Before("find_connected_external") = Before("sync_with_alpha")
    /\ node_type = 1 =>
          Before("find_connected_external") = Before("sync_with_alpha") \cup {"sync_with_alpha"}
    /\ Before("setup_configs") =
          Before("find_connected_external") \cup {"find_connected_external"}
    /\ Before("setup_kernel") = Before("setup_configs") \cup {"setup_configs"}
    /\ Before("final_sync") = Before("setup_kernel") \cup {"setup_kernel"}
    /\ node_type # 1 => Before("unmount_partitions") = Before("setup_kernel") \cup {"setup_kernel"}
    /\ node_type = 1 => Before("unmount_partitions") = Before("final_sync") \cup {"final_sync"}
<1> USE DEF Before, Syncs
<1>1. /\ Before("bad_block_scan") = {}
      /\ Before("detect_nic_cards") = Before("bad_block_scan") \cup {"bad_block_scan"}
      /\ Before("create_partitions") = Before("detect_nic_cards") \cup {"detect_nic_cards"}
  OBVIOUS
<1>2. Before("make_swap") = Before("create_partitions") \cup {"create_partitions"}
  BY DEF ToSnapptix
<1>3. Before("make_snapptix") = Before("make_swap") \cup {"make_swap"}
  BY DEF ToSnapptix
<1>4. Before("make_user") = Before("make_snapptix") \cup {"make_snapptix"}
  BY DEF ToSnapptix
<1>5. Before("mount_partitions") = Before("make_user") \cup IF data_partition THEN {} ELSE {"make_user"}
  BY DEF ToUser
<1>6. Before("install_base") = Before("mount_partitions") \cup {"mount_partitions"}
  OBVIOUS
<1>7. Before("install_nic_modules") = Before("install_base") \cup {"install_base"}
  BY DEF ToNics, ToUser, ToSnapptix
<1>8. Before("sync_with_alpha") = Before("install_nic_modules") \cup {"install_nic_modules"}
  BY DEF ToNics
<1>9. /\ Before("sync_again") = Before("sync_with_alpha")
      /\ node_type # 1 => Before("find_connected_external") = Before("sync_with_alpha")
      /\ node_type = 1 =>
          Before("find_connected_external") = Before("sync_with_alpha") \cup {"sync_with_alpha"}
  BY DEF ToNetwork
<1>10. Before("setup_configs") = Before("find_connected_external") \cup {"find_connected_external"}
  OBVIOUS
<1>11. Before("setup_kernel") = Before("setup_configs") \cup {"setup_configs"}
  BY DEF ToKernel, ToNetwork, ToNics, ToUser, ToSnapptix
<1>12. Before("final_sync") = Before("setup_kernel") \cup {"setup_kernel"}
  BY DEF ToKernel
<1>13. /\ node_type # 1 =>
             Before("unmount_partitions") = Before("setup_kernel") \cup {"setup_kernel"}
       /\ node_type = 1 => Before("unmount_partitions") = Before("final_sync") \cup {"final_sync"}
  BY <1>12
<1> HIDE DEF Before
<1> QED
  BY <1>1, <1>2, <1>3, <1>4, <1>5, <1>6, <1>7, <1>8, <1>9, <1>10, <1>11, <1>12, <1>13

LEMMA Onward ==
    ASSUME TypeInv, InTurn, ~joined, net_timers = 0, workers # <<>>, ~Running(Tid)
    PROVE  Destination(IF Tid.result = "error" THEN update.error ELSE update.next)
<1>1. Tid.result \in {"ok", "error"} /\ Ledger /\ Working /\ OnDisc
  BY LastThread DEF Running, InTurn
<1>2. data_partition \in BOOLEAN /\ node_type \in -1 .. 1
  BY DEF TypeInv, UserOK
<1>3. CASE Tid.result = "error"
  <2>1. CASE page = "SYNC_WITH_ALPHA_ERROR"
    BY <1>1, <1>3, <2>1 DEF Working, Steps, ClusterSteps, Then, Destination, Syncs, BusyWindow
  <2>2. CASE page = "SYNC_WITH_ALPHA"
    BY <1>1, <1>3, <2>2 DEF Working, Work, Steps, ClusterSteps, Then, Destination, Syncs
  <2>3. CASE page \in BusyWindow \ {"SYNC_WITH_ALPHA"}
    <3>1. update = Steps(page) /\ Tid.fn = Work(page)
      BY <1>1, <2>3 DEF Working, BusyWindow
    <3>2. update.error \in ErrorWindow
      BY <3>1, <2>3 DEF Steps, DiscSteps, ClusterSteps, AfterSnapptix, AfterMount, AfterKernel,
                        Then, BusyWindow, ErrorWindow
    <3>3. Failed
      BY <1>3, <2>3, <3>1 DEF Failed, Work, BusyWindow
    <3> QED
      BY <1>3, <3>2, <3>3 DEF Destination
  <2> QED
    BY <1>1, <2>1, <2>2, <2>3 DEF Working
<1>4. CASE Tid.result = "ok"
  <2>1. page \in BusyWindow /\ update = Steps(page) /\ Tid.fn = Work(page)
    BY <1>1, <1>4 DEF Working, Ledger
  <2>2. cleared = Before(Tid.fn) \cup {Tid.fn}
    BY <1>1, <1>4 DEF Ledger
  <2>3. Destination(update.next)
    <3>12. CASE page = "KERNEL_INSTALL"
      <4> DEFINE next == IF node_type = 0 THEN "UNMOUNT" ELSE "FINAL_SYNC"
      <4>1. Tid.fn = "setup_kernel"
        BY <2>1, <3>12 DEF Work
      <4>2. node_type \in {0, 1}
        BY <1>1, <4>1 DEF Ledger
      <4>3. update.next = next
        BY <2>1, <3>12 DEF Steps, ClusterSteps, AfterKernel, Then
      <4>4. next \in {"UNMOUNT", "FINAL_SYNC"} /\ (next = "FINAL_SYNC" => node_type = 1)
        BY <4>2
      <4>5. /\ Work("UNMOUNT") = "unmount_partitions"
            /\ Work("FINAL_SYNC") = "final_sync"
        BY DEF Work
      <4>6. cleared = Before("setup_kernel") \cup {"setup_kernel"}
        BY <2>2, <4>1
      <4>7. next = "UNMOUNT" => node_type # 1
        BY <4>2
      <4>8. cleared = Before(Work(next))
        BY <4>4, <4>5, <4>6, <4>7, BeforeNext
      <4>9. SyncBegun => "sync_with_alpha" \in cleared
        BY <4>1 DEF SyncBegun, Syncs
      <4> HIDE DEF next
      <4>10. Prepared(next)
        BY <4>2, <4>4, <4>5, <4>8, <4>9 DEF Prepared, ToSnapptix
      <4> QED
        BY <1>4, <4>3, <4>4, <4>10 DEF Destination, BusyWindow
    <3> USE <1>1, <1>2, <1>4, <2>1, <2>2, BeforeNext
        DEF Destination, Prepared, Work, SyncBegun, Ledger, OnDisc, Syncs, Then, ToSnapptix
    <3>1. CASE page = "CONTINUE_CHECK"
      BY <3>1 DEF Steps, DiscSteps, BusyWindow
    <3>2. CASE page = "NETWORK_DETECT"
      BY <3>2 DEF Steps, DiscSteps, BusyWindow
    <3>3. CASE page = "CREATE_PARTITIONS"
      BY <3>3 DEF Steps, DiscSteps, BusyWindow
    <3>4. CASE page = "MAKE_SWAP"
      BY <3>4 DEF Steps, DiscSteps, BusyWindow
    <3>5. CASE page = "MAKE_SNAPPTIX"
      BY <3>5 DEF Steps, DiscSteps, AfterSnapptix, BusyWindow
    <3>6. CASE page = "MAKE_USER"
      BY <3>6 DEF Steps, DiscSteps, BusyWindow
    <3>7. CASE page = "MOUNT_PARTITIONS"
      BY <3>7 DEF Steps, DiscSteps, AfterMount, BusyWindow
    <3>8. CASE page = "INSTALL_PACKAGES"
      BY <3>8 DEF Steps, DiscSteps, BusyWindow
    <3>9. CASE page = "INSTALL_NICS"
      BY <3>9 DEF Steps, DiscSteps, Ended
    <3>10. CASE page = "SYNC_WITH_ALPHA"
      BY <3>10 DEF Steps, ClusterSteps, Ended
    <3>11. CASE page = "SETUP_CONFIGS"
      BY <3>11 DEF Steps, ClusterSteps, BusyWindow
    <3>13. CASE page = "FINAL_SYNC"
      BY <3>13 DEF Steps, ClusterSteps, BusyWindow
    <3>14. CASE page = "UNMOUNT"
      BY <3>14 DEF Steps, ClusterSteps, Ended
    <3> QED
      BY <2>1, <3>1, <3>2, <3>3, <3>4, <3>5, <3>6, <3>7, <3>8, <3>9, <3>10, <3>11, <3>12,
         <3>13, <3>14 DEF BusyWindow
  <2> QED
    BY <1>4, <2>3
<1> QED
  BY <1>1, <1>3, <1>4
-----------------------------------------------------------------------------
(***************************************************************************)
(* In turn: threads that start.                                            *)
(***************************************************************************)

\* What a thread that is not a stray finds, and what it makes of the state.
LEMMA Started ==
    ASSUME TypeInv, strays = 0 => InTurn, NEW fn, NEW collected \in BOOLEAN,
           StartThread(fn, collected), strays' = 0
    PROVE  /\ strays = 0 /\ InTurn
           /\ collected
           /\ workers # <<>> => ~Running(Tid)
           /\ fn \notin cleared
           /\ ~Failed
           /\ Len(workers') = 1 /\ workers' # <<>>
           /\ (Tid.fn)' = fn /\ (Tid.result)' = "running"
           /\ ~joined'
<1> DEFINE others == IF workers = <<>> \/ Running(Tid) THEN workers ELSE Front(workers)
           stray == strays > 0 \/ ~collected \/ others # <<>> \/ fn \in cleared \/ Failed
           new == [fn |-> fn, result |-> "running"]
<1>1. strays' = strays + IF stray THEN 1 ELSE 0
  BY DEF StartThread
<1>2. strays \in Nat
  BY DEF TypeInv, ThreadsOK
<1> HIDE DEF stray
<1>3. strays = 0 /\ ~stray
  BY <1>1, <1>2
<1>4. others = <<>>
  BY <1>3 DEF stray
<1>5. workers' = Append(others, new)
  BY DEF StartThread
<1>6. workers' = <<new>>
  <2> HIDE DEF others, new
  <2> QED
    BY <1>4, <1>5
<1>7. workers # <<>> => ~Running(Tid)
  BY <1>4
<1>8. Len(workers') = 1 /\ workers' # <<>> /\ Tid' = new
  BY <1>6 DEF Tid, Last
<1> QED
  BY <1>3, <1>7, <1>8 DEF stray, StartThread

LEMMA NewThread ==
    ASSUME TypeInv, strays = 0 => InTurn, NEW fn, NEW collected \in BOOLEAN,
           StartThread(fn, collected), strays' = 0,
           UNCHANGED <<disc, cleared>>, cleared = Before(fn)',
           fn = "make_user" => ~data_partition',
           fn \in Syncs \cup {"final_sync"} => node_type' = 1,
           fn \in {"find_connected_external", "setup_configs", "setup_kernel",
                   "unmount_partitions"} => node_type' \in {0, 1},
           fn \in ToSnapptix \cup {"make_user"} => disc.mounts = {},
           fn = "find_connected_external" => detected' = FALSE,
           timers' + net_timers' = 1,
           Noted', Working', OnTop', UserData'
    PROVE  InTurn'
<1>1. /\ strays = 0 /\ InTurn
      /\ Len(workers') = 1 /\ workers' # <<>>
      /\ (Tid.fn)' = fn /\ (Tid.result)' = "running"
      /\ ~joined'
  BY Started
<1>2. Ledger'
  <2>1. Before(Tid.fn)' = Before(fn)'
    BY <1>1 DEF Before
  <2>2. cleared' = Before(Tid.fn)'
    BY <2>1
  <2>3. (Tid.fn = "find_connected_external")' => detected' = (Tid.result = "ok")'
    BY <1>1
  <2> QED
    BY <1>1, <2>2, <2>3 DEF Ledger, Syncs
<1>3. OnDisc'
  BY <1>1 DEF OnDisc, InTurn, ToSnapptix
<1> QED
  BY <1>1, <1>2, <1>3 DEF InTurn

\* The user data are as they were, with a thread that does not change what has
\* begun.
LEMMA UserDataStays ==
    ASSUME UserData, UNCHANGED <<disc, cleared, data_partition>>, SyncBegun => SyncBegun'
    PROVE  UserData'
  BY DEF UserData, Asked

LEMMA BusyKeeps ==
    ASSUME TypeInv, strays = 0 => InTurn, NEW w \in BusyWindow, NEW collected \in BOOLEAN,
           Busy(w, 0, collected), strays' = 0, net_timers' = 0,
           UNCHANGED <<disc, cleared, data_partition>>, Prepared(w), OnTop'
    PROVE  InTurn'
<1>1. StartThread(Work(w), collected) /\ page' = w /\ timers' = 1 /\ update' = Steps(w)
      /\ node_type' = node_type
  BY DEF Busy, Steps
<1>2. /\ strays = 0 /\ InTurn /\ workers' # <<>> /\ (Tid.fn)' = Work(w)
  BY <1>1, Started
<1>3. Before(Work(w))' = Before(Work(w)) /\ Steps(w)' = Steps(w)
  <2>1. /\ ToUser' = ToUser /\ ToNics' = ToNics /\ ToNetwork' = ToNetwork /\ ToKernel' = ToKernel
        /\ AfterSnapptix' = AfterSnapptix /\ AfterKernel' = AfterKernel
    BY <1>1 DEF ToUser, ToNics, ToNetwork, ToKernel, AfterSnapptix, AfterKernel
  <2> QED
    BY <1>1, <2>1 DEF Before, Steps, DiscSteps, ClusterSteps
<1>4. Working'
  BY <1>1, <1>2, <1>3 DEF Working
<1>5. UserData'
  <2>1. SyncBegun => SyncBegun'
    BY <1>2 DEF SyncBegun, Prepared
  <2> QED
    BY <1>2, <2>1, UserDataStays DEF InTurn
<1>6. Work(w) \notin Syncs \ {"sync_with_alpha"} /\ Work(w) # "find_connected_external"
  BY DEF Work, BusyWindow, Syncs
<1> DEFINE fn == Work(w)
<1>7. cleared = Before(fn)'
  BY <1>3 DEF Prepared
<1>8. /\ fn = "make_user" => ~data_partition'
      /\ fn \in Syncs \cup {"final_sync"} => node_type' = 1
      /\ fn \in {"find_connected_external", "setup_configs", "setup_kernel",
                "unmount_partitions"} => node_type' \in {0, 1}
      /\ fn \in ToSnapptix \cup {"make_user"} => disc.mounts = {}
      /\ fn = "find_connected_external" => detected' = FALSE
  BY <1>1, <1>6 DEF Prepared, Syncs
<1> HIDE DEF fn
<1>9. StartThread(fn, collected)
  BY <1>1 DEF fn
<1>10. timers' + net_timers' = 1
  BY <1>1
<1>11. Noted'
  <2>1. \E next, error : Steps(w) = Then(next, error)
    BY DEF BusyWindow, Steps, DiscSteps, ClusterSteps, AfterSnapptix, AfterMount, AfterKernel
  <2> QED
    BY <1>1, <2>1 DEF Noted, Then
<1> QED
  BY <1>4, <1>5, <1>7, <1>8, <1>9, <1>10, <1>11, NewThread
-----------------------------------------------------------------------------
(***************************************************************************)
(* In turn: threads that end.                                              *)
(***************************************************************************)

\* A step is none of those before it.
LEMMA NotBefore ==
    ASSUME NEW fn \in Function \cup {"sync_again"}
    PROVE  fn \notin Before(fn)
<1> USE DEF Before, Syncs, Function, ToSnapptix
<1>1. CASE fn \in ToSnapptix \cup {"make_user"}
  BY <1>1
<1>2. CASE fn \in {"mount_partitions", "install_base", "install_nic_modules"}
  BY <1>2 DEF ToUser, ToNics
<1>3. CASE fn \in Syncs \cup {"find_connected_external"}
  BY <1>3 DEF ToUser, ToNics, ToNetwork
<1>4. CASE fn \in {"setup_configs", "setup_kernel", "final_sync", "unmount_partitions"}
  BY <1>4 DEF ToUser, ToNics, ToNetwork, ToKernel
<1> QED
  BY <1>1, <1>2, <1>3, <1>4

\* The steps of the disc, before there is anything to mount, and the others.
EarlyStep == ToSnapptix \cup {"make_user"}

LEMMA EarlySteps ==
    ASSUME NEW fn \in EarlyStep
    PROVE  Before(fn) \subseteq ToSnapptix
  BY DEF EarlyStep, Before, ToSnapptix, Syncs

\* The disc after a step that succeeded or failed.
LEMMA EarlyDisc ==
    ASSUME TypeInv, OnDisc, UserData, workers # <<>>, workers' # <<>>, (Tid.fn)' = Tid.fn,
           Tid.fn \in EarlyStep, cleared = Before(Tid.fn),
           NEW good \in BOOLEAN, disc' \in Effects(Tid.fn, good),
           cleared' = cleared \cup IF good THEN {Tid.fn} ELSE {},
           UNCHANGED data_partition,
           Tid.fn = "make_user" => ~data_partition
    PROVE  OnDisc' /\ UserData'
<1> DEFINE fn == Tid.fn
<1>1. disc \in Disc
  BY DEF TypeInv, MachineOK
<1>2. disc.mounts = {}
  BY DEF OnDisc, EarlyStep
<1>3. cleared' \subseteq EarlyStep /\ fn \notin Syncs
  BY EarlySteps DEF EarlyStep, ToSnapptix, Syncs
<1>4. ~SyncBegun /\ ~SyncBegun'
  BY <1>3, EarlySteps DEF SyncBegun, EarlyStep, ToSnapptix, Syncs
<1>5. SUFFICES /\ disc'.mounts = {}
               /\ "create_partitions" \in cleared' => disc'.table = "new"
               /\ "make_swap" \in cleared' => disc'.swap
               /\ "make_snapptix" \in cleared' => disc'.root = "fresh"
               /\ data_partition => disc'.user \in {"none", "data"}
               /\ "make_user" \in cleared' => disc'.user = "fresh"
  BY <1>3, <1>4 DEF OnDisc, UserData, EarlyStep, ToSnapptix
<1>6. /\ "create_partitions" \in cleared => disc.table = "new"
      /\ "make_swap" \in cleared => disc.swap
      /\ "make_snapptix" \in cleared => disc.root = "fresh"
      /\ data_partition => disc.user \in {"none", "data"}
      /\ "make_user" \in cleared => disc.user = "fresh"
  BY <1>4 DEF OnDisc, UserData
<1>12. fn \in cleared' => good
  BY NotBefore DEF EarlyStep, ToSnapptix, Function
<1>7. CASE fn \in {"bad_block_scan", "detect_nic_cards"}
  BY <1>2, <1>6, <1>7 DEF Effects
<1>8. CASE fn = "create_partitions"
  <2>1. cleared' \subseteq {"bad_block_scan", "detect_nic_cards", "create_partitions"}
    <3>1. Before("create_partitions") = {"bad_block_scan", "detect_nic_cards"}
      BY DEF Before, Syncs
    <3> QED
      BY <1>8, <3>1
  <2>2. disc' \in create_partitions(good)
    BY <1>8 DEF Effects
  <2>3. disc'.mounts = {} /\ (good => disc'.table = "new")
    BY <1>1, <1>2, <2>2 DEF create_partitions, Disc
  <2>4. disc'.user \in {"data", "none", disc.user}
    BY <1>1, <2>2 DEF create_partitions, Disc
  <2>5. "create_partitions" \in cleared' => good
    BY <1>8, <1>12
  <2> QED
    BY <1>6, <2>1, <2>3, <2>4, <2>5
<1>9. CASE fn = "make_swap"
  <2>1. cleared' \subseteq {"bad_block_scan", "detect_nic_cards", "create_partitions", "make_swap"}
    <3>1. Before("make_swap") = {"bad_block_scan", "detect_nic_cards", "create_partitions"}
      BY DEF Before, ToSnapptix, Syncs
    <3> QED
      BY <1>9, <3>1
  <2>2. "make_swap" \in cleared' => good
    BY <1>9, <1>12
  <2>3. disc' = [disc EXCEPT !.swap = good]
    BY <1>9 DEF Effects, make_swap
  <2> QED
    BY <1>1, <1>2, <1>6, <1>9, <2>1, <2>2, <2>3 DEF Disc
<1>10. CASE fn = "make_snapptix"
  <2>1. cleared' \subseteq ToSnapptix
    BY <1>10, EarlySteps DEF ToSnapptix
  <2>2. "make_snapptix" \in cleared' => good
    BY <1>10, <1>12
  <2>3. /\ disc' \in {disc, [disc EXCEPT !.root = "fresh", !.files = {}]}
        /\ good => disc' = [disc EXCEPT !.root = "fresh", !.files = {}]
    BY <1>10 DEF Effects, make_snapptix
  <2> QED
    BY <1>1, <1>2, <1>6, <1>10, <2>1, <2>2, <2>3 DEF Disc, ToSnapptix
<1>11. CASE fn = "make_user"
  <2>1. "make_user" \in cleared' => good
    BY <1>11, <1>12
  <2>2. /\ disc' \in {disc, [disc EXCEPT !.user = "fresh"], [disc EXCEPT !.user = "none"]}
        /\ good => disc' = [disc EXCEPT !.user = "fresh"]
    BY <1>11 DEF Effects, make_user
  <2>3. ~data_partition
    BY <1>11
  <2> QED
    BY <1>1, <1>2, <1>6, <1>11, <2>1, <2>2, <2>3 DEF Disc
<1> QED
  BY <1>7, <1>8, <1>9, <1>10, <1>11 DEF EarlyStep, ToSnapptix

\* What every step after them leaves of the disc.
LEMMA LateEffects ==
    ASSUME disc \in Disc, NEW fn \in (Function \cup {"sync_again"}) \ EarlyStep,
           NEW good \in BOOLEAN, NEW d \in Effects(fn, good)
    PROVE  /\ d.table = disc.table /\ d.swap = disc.swap /\ d.root = disc.root
           /\ disc.files \subseteq d.files
           /\ fn \in {"install_base", "install_nic_modules", "setup_configs", "setup_kernel",
                      "sync_with_alpha", "final_sync"} /\ good => fn \in d.files
           /\ fn = "unmount_partitions" /\ good => d.mounts = {}
           /\ fn \notin Syncs => d.user = disc.user
           /\ fn \notin {"mount_partitions"} /\ "home" \in d.mounts => "home" \in disc.mounts
<1> USE DEF Disc
<1>1. CASE fn = "mount_partitions"
  <2>1. \E m \in SUBSET Mountpoint : d = [disc EXCEPT !.mounts = m]
    BY <1>1 DEF Effects, mount_partitions, Mountpoint
  <2> QED
    BY <1>1, <2>1
<1>2. CASE fn = "unmount_partitions"
  <2>1. d \in unmount_partitions(good)
    BY <1>2 DEF Effects
  <2>2. \E m : d = [disc EXCEPT !.mounts = m] /\ (good => m = {})
               /\ ("home" \in m => "home" \in disc.mounts)
    BY <2>1 DEF unmount_partitions
  <2> QED
    BY <1>2, <2>2
<1>3. CASE fn \in Syncs
  <2>1. d \in sync_with_alpha(good) /\ (fn = "sync_again" => ~good)
    BY <1>3 DEF Effects, sync_again, Syncs
  <2>2. CASE good
    <3>1. d = [disc EXCEPT !.user = "mirror", !.mounts = disc.mounts \ {"home"},
                           !.files = disc.files \cup {"sync_with_alpha"}]
      BY <2>1, <2>2 DEF sync_with_alpha
    <3> QED
      BY <1>3, <2>1, <2>2, <3>1 DEF Syncs
  <2>3. CASE ~good
    <3>1. \/ d = disc
          \/ d = [disc EXCEPT !.user = "mirror", !.mounts = disc.mounts \ {"home"}]
          \/ d = [disc EXCEPT !.mounts = disc.mounts \ {"home"}]
      BY <2>1, <2>3 DEF sync_with_alpha
    <3>2. /\ d.table = disc.table /\ d.swap = disc.swap /\ d.root = disc.root
          /\ d.files = disc.files /\ d.mounts \subseteq disc.mounts
      BY <3>1
    <3> QED
      BY <1>3, <2>3, <3>2 DEF Syncs
  <2> QED
    BY <2>2, <2>3
<1>4. CASE fn = "setup_configs"
  BY <1>4 DEF Effects, setup_configs
<1>5. CASE fn \in {"install_base", "install_nic_modules", "setup_kernel", "final_sync"}
  BY <1>5 DEF Effects, Leaves
<1>6. CASE fn = "find_connected_external"
  BY <1>6 DEF Effects
<1> QED
  BY <1>1, <1>2, <1>3, <1>4, <1>5, <1>6 DEF EarlyStep, ToSnapptix, Function, Syncs

LEMMA LateDisc ==
    ASSUME TypeInv, OnDisc, UserData, workers # <<>>, workers' # <<>>, (Tid.fn)' = Tid.fn,
           Tid.fn \in (Function \cup {"sync_again"}) \ EarlyStep, cleared = Before(Tid.fn),
           NEW good \in BOOLEAN, disc' \in Effects(Tid.fn, good),
           cleared' = cleared \cup IF good THEN {Tid.fn} ELSE {},
           UNCHANGED data_partition
    PROVE  OnDisc' /\ UserData'
<1> DEFINE fn == Tid.fn
           left == {"install_base", "install_nic_modules", "setup_configs", "setup_kernel",
                    "sync_with_alpha", "final_sync"}
<1>1. disc \in Disc
  BY DEF TypeInv, MachineOK
<1>2. fn \in cleared' => good
  BY NotBefore
<1>3. /\ disc'.table = disc.table /\ disc'.swap = disc.swap /\ disc'.root = disc.root
      /\ disc.files \subseteq disc'.files
      /\ good /\ fn \in left => fn \in disc'.files
      /\ fn = "unmount_partitions" /\ good => disc'.mounts = {}
      /\ fn \notin Syncs => disc'.user = disc.user
      /\ fn \notin {"mount_partitions"} /\ "home" \in disc'.mounts => "home" \in disc.mounts
  BY <1>1, LateEffects
<1>4. fn \notin EarlyStep /\ cleared \subseteq cleared' /\ cleared' \subseteq cleared \cup {fn}
  OBVIOUS
<1>6. "unmount_partitions" \notin cleared
  <2>1. "unmount_partitions" \notin ToUser
    BY DEF ToUser, ToSnapptix
  <2>2. "unmount_partitions" \notin ToKernel
    BY <2>1 DEF ToKernel, ToNetwork, ToNics
  <2>3. fn \in {"mount_partitions", "install_base", "install_nic_modules", "sync_with_alpha",
                "sync_again", "find_connected_external", "setup_configs", "setup_kernel",
                "final_sync", "unmount_partitions"}
    BY DEF EarlyStep, ToSnapptix, Function
  <2> QED
    BY <2>1, <2>2, <2>3 DEF Before, Syncs, ToKernel, ToNetwork, ToNics
<1>7. OnDisc'
  <2>1. /\ "create_partitions" \in cleared' => disc'.table = "new"
        /\ "make_swap" \in cleared' => disc'.swap
        /\ "make_snapptix" \in cleared' => disc'.root = "fresh"
    BY <1>3, <1>4 DEF OnDisc, EarlyStep, ToSnapptix
  <2>2. left \cap cleared' \subseteq disc'.files
    BY <1>2, <1>3, <1>4 DEF OnDisc
  <2>3. "unmount_partitions" \in cleared' => disc'.mounts = {}
    BY <1>2, <1>3, <1>4, <1>6
  <2> QED
    BY <1>4, <2>1, <2>2, <2>3 DEF OnDisc, EarlyStep
<1>8. CASE fn = "mount_partitions"
  <2>1. cleared = ToUser
    BY <1>8 DEF Before, Syncs
  <2>2. ~SyncBegun /\ ~SyncBegun'
    BY <1>4, <1>8, <2>1 DEF SyncBegun, Syncs, ToUser, ToSnapptix
  <2>3. disc'.user = disc.user
    BY <1>3, <1>8 DEF Syncs
  <2>4. ("home" \in disc'.mounts \/ good) => disc.user # "none"
    BY <1>1, <1>8 DEF Effects, mount_partitions, Disc
  <2>5. data_partition => disc.user \in {"none", "data"}
    BY <2>2 DEF UserData
  <2>6. ~data_partition => disc.user = "fresh"
    BY <2>1, <2>2 DEF UserData, ToUser
  <2>7. "make_user" \in cleared' => disc.user = "fresh"
    BY <1>4, <1>8, <2>2 DEF UserData
  <2>8. data_partition \in BOOLEAN
    BY DEF TypeInv, UserOK
  <2> QED
    BY <1>2, <1>4, <1>7, <1>8, <2>1, <2>2, <2>3, <2>4, <2>5, <2>6, <2>7, <2>8
    DEF UserData, Asked, SyncBegun
<1>9. CASE fn \in Syncs
  <2>1. SyncBegun /\ SyncBegun'
    BY <1>9 DEF SyncBegun
  <2>2. "sync_with_alpha" \in cleared' => good /\ fn = "sync_with_alpha"
    <3>1. "sync_with_alpha" \notin cleared
      BY <1>9 DEF Before, Syncs, ToNics, ToUser, ToSnapptix
    <3> QED
      BY <1>2, <1>4, <3>1
  <2>3. good /\ fn = "sync_with_alpha" => disc'.user = "mirror" /\ "home" \notin disc'.mounts
    <3> DEFINE synced == [disc EXCEPT !.user = "mirror", !.mounts = @ \ {"home"}]
    <3>1. ASSUME good, fn = "sync_with_alpha"
          PROVE  disc' = [synced EXCEPT !.files = @ \cup {"sync_with_alpha"}]
      BY <3>1 DEF Effects, sync_with_alpha
    <3> QED
      BY <1>1, <3>1 DEF Disc
  <2>4. "home" \in disc'.mounts => disc' = disc
    BY <1>1, <1>9 DEF Effects, sync_with_alpha, sync_again, Syncs, Disc
  <2> QED
    BY <1>7, <2>1, <2>2, <2>3, <2>4 DEF UserData, Asked
<1>10. CASE fn \notin Syncs \cup {"mount_partitions"}
  <2>1. disc'.user = disc.user /\ ("home" \in disc'.mounts => "home" \in disc.mounts)
    BY <1>3, <1>10
  <2>2. SyncBegun' = SyncBegun
    BY <1>4, <1>10 DEF SyncBegun, Syncs
  <2>3. \A s \in {"make_user", "mount_partitions", "sync_with_alpha"} : s \in cleared' => s \in cleared
    BY <1>4, <1>10 DEF EarlyStep, Syncs
  <2> QED
    BY <1>7, <2>1, <2>2, <2>3 DEF UserData, Asked
<1> QED
  BY <1>8, <1>9, <1>10

\* The way only depends on the two answers of the user.
LEMMA WayStays ==
    ASSUME UNCHANGED choiceVars
    PROVE  /\ \A fn : Before(fn)' = Before(fn)
           /\ \A w : Steps(w)' = Steps(w)
           /\ Asked' = Asked
<1>1. data_partition' = data_partition /\ node_type' = node_type
  BY DEF choiceVars
<1>2. /\ ToUser' = ToUser /\ ToNics' = ToNics /\ ToNetwork' = ToNetwork /\ ToKernel' = ToKernel
      /\ AfterSnapptix' = AfterSnapptix /\ AfterKernel' = AfterKernel
  BY <1>1 DEF ToUser, ToNics, ToNetwork, ToKernel, AfterSnapptix, AfterKernel
<1> QED
  BY <1>1, <1>2 DEF Before, Steps, DiscSteps, ClusterSteps, Asked

LEMMA WorkerEndsKeeps ==
    ASSUME TypeInv, InTurn, NEW i \in DOMAIN workers, WorkerEnds(i)
    PROVE  InTurn'
<1>0. PICK fn : fn = Tid.fn
  OBVIOUS
<1>1. /\ workers # <<>> /\ Len(workers) = 1 /\ i = 1 /\ Tid = workers[1] /\ workers[1] \in Thread
      /\ fn \in Function \cup {"sync_again"}
  <2>1. workers \in Seq(Thread) /\ workers # <<>>
    BY <1>0 DEF TypeInv, ThreadsOK
  <2> QED
    BY <1>0, <2>1, LastThread
<1>2. Tid.result = "running"
  BY <1>0, <1>1 DEF WorkerEnds, Running
<1>3. ~joined
  BY <1>0, <1>1, <1>2 DEF InTurn, Waiting, Failed, Ended
<1>4. /\ Working /\ Ledger /\ OnTop /\ OnDisc /\ UserData
      /\ timers + net_timers = 1
  BY <1>0, <1>1, <1>3 DEF InTurn
<1>5. cleared = Before(fn)
  BY <1>0, <1>2, <1>4 DEF Ledger
<1>6. /\ UNCHANGED <<leftover, moved, page, dialog, section, clicks, choiceVars, update, timers,
                     net_timers, joined, strays, crash>>
      /\ data_partition' = data_partition /\ node_type' = node_type
  BY <1>0 DEF WorkerEnds, choiceVars
<1>7. PICK good \in BOOLEAN :
          /\ disc' \in Effects(fn, good)
          /\ cleared' = IF good THEN cleared \cup {fn} ELSE cleared
          /\ detected' = (detected \/ (fn = "find_connected_external" /\ good))
          /\ workers' = [workers EXCEPT ![1].result = IF fn \in cleared' THEN "ok" ELSE "error"]
  BY <1>0, <1>1 DEF WorkerEnds
<1>8. (fn \in cleared') = good
  BY <1>0, <1>1, <1>5, <1>7, NotBefore
<1>9. /\ Len(workers') = 1 /\ workers' # <<>>
      /\ (Tid.fn)' = fn
      /\ (Tid.result)' = IF fn \in cleared' THEN "ok" ELSE "error"
  <2> DEFINE result == IF fn \in cleared' THEN "ok" ELSE "error"
  <2>1. workers' = [workers EXCEPT ![1].result = result]
    BY <1>0, <1>7
  <2> HIDE DEF result
  <2>2. Len(workers') = 1 /\ workers' # <<>>
    BY <1>0, <1>1, <2>1 DEF TypeInv, ThreadsOK
  <2>3. workers'[1].fn = workers[1].fn /\ workers'[1].result = result
    BY <1>0, <1>1, <2>1 DEF TypeInv, ThreadsOK, Thread
  <2> QED
    BY <1>0, <1>1, <2>2, <2>3 DEF Tid, Last, result
<1>10. fn = "sync_again" => ~good
  BY <1>0, <1>7 DEF Effects, sync_again, Syncs
<1>11. Ledger'
  <2>1. Before(fn)' = Before(fn)
    BY <1>0, <1>6, WayStays
  <2>2. Before(Tid.fn)' = Before(fn)'
    BY <1>0, <1>9 DEF Before
  <2>3. cleared' = Before(Tid.fn)' \cup IF (Tid.result)' = "ok" THEN {(Tid.fn)'} ELSE {}
    BY <1>0, <1>5, <1>7, <1>8, <1>9, <2>1, <2>2
  <2>4. fn = "find_connected_external" => detected' = ((Tid.result)' = "ok")
    BY <1>0, <1>2, <1>4, <1>7, <1>8, <1>9 DEF Ledger
  <2>5. fn = "sync_again" => (Tid.result)' # "ok"
    BY <1>0, <1>8, <1>9, <1>10
  <2>6. /\ fn = "make_user" => ~data_partition
        /\ fn \in Syncs \cup {"final_sync"} => node_type = 1
        /\ fn \in {"find_connected_external", "setup_configs", "setup_kernel",
                   "unmount_partitions"} => node_type \in {0, 1}
    BY <1>0, <1>4 DEF Ledger
  <2> QED
    BY <1>0, <1>6, <1>9, <2>3, <2>4, <2>5, <2>6 DEF Ledger, Syncs
<1>12. Working'
  <2>1. \A w : Steps(w)' = Steps(w)
    BY <1>0, <1>6, WayStays
  <2>2. Steps(page)' = Steps(page)
    BY <1>0, <1>6, <2>1
  <2>3. Steps("SYNC_WITH_ALPHA")' = Steps("SYNC_WITH_ALPHA")
    BY <1>0, <2>1
  <2> QED
    BY <1>0, <1>4, <1>6, <1>9, <2>2, <2>3 DEF Working
<1>13. OnTop'
  BY <1>0, <1>3, <1>4, <1>6, <1>9 DEF OnTop
<1>14. OnDisc' /\ UserData'
  <2>1. cleared' = cleared \cup IF good THEN {fn} ELSE {}
    BY <1>0, <1>7
  <2>2. CASE fn \in EarlyStep
    BY <1>0, <1>1, <1>4, <1>5, <1>6, <1>7, <1>9, <2>1, <2>2, EarlyDisc DEF Ledger
  <2>3. CASE fn \notin EarlyStep
    BY <1>0, <1>1, <1>4, <1>5, <1>6, <1>7, <1>9, <2>1, <2>3, LateDisc
  <2> QED
    BY <1>0, <2>2, <2>3
<1>15. ~joined' /\ timers' + net_timers' = 1 /\ Noted'
  BY <1>3, <1>4, <1>6 DEF InTurn, Noted
<1> QED
  BY <1>0, <1>9, <1>11, <1>12, <1>13, <1>14, <1>15 DEF InTurn

\* The thread that hangs is the last one, and stays it.
LEMMA HungThread ==
    ASSUME TypeInv, InTurn, NEW i \in DOMAIN workers, MakeUserHangs(i)
    PROVE  /\ workers # <<>> /\ Tid.fn = "make_user" /\ Tid.result = "running"
           /\ Len(workers') = 1 /\ workers' # <<>>
           /\ (Tid.fn)' = "make_user" /\ (Tid.result)' = "hung"
<1>1. workers \in Seq(Thread) /\ workers # <<>>
  BY DEF TypeInv, ThreadsOK
<1>2. Len(workers) = 1 /\ i = 1 /\ Tid = workers[1] /\ workers[1] \in Thread
  BY <1>1, LastThread
<1>3. Len(workers') = 1 /\ workers'[1] = [workers[1] EXCEPT !.result = "hung"]
  BY <1>1, <1>2 DEF MakeUserHangs
<1>4. workers'[1].fn = workers[1].fn /\ workers'[1].result = "hung"
  BY <1>2, <1>3 DEF Thread
<1>5. workers[1].fn = "make_user" /\ workers[1].result = "running"
  BY <1>2 DEF MakeUserHangs
<1> QED
  BY <1>1, <1>2, <1>3, <1>4, <1>5 DEF Tid, Last

\* A thread that hangs is, as far as the rest knows, one that still works.
LEMMA MakeUserHangsKeeps ==
    ASSUME TypeInv, InTurn, NEW i \in DOMAIN workers, MakeUserHangs(i)
    PROVE  InTurn'
<1>1. /\ workers # <<>> /\ Tid.fn = "make_user" /\ Tid.result = "running"
      /\ Len(workers') = 1 /\ workers' # <<>>
      /\ (Tid.fn)' = "make_user" /\ (Tid.result)' = "hung"
  BY HungThread
<1>2. /\ UNCHANGED <<page, dialog, section, data_partition, node_type, update, timers,
                     net_timers, joined, cleared, detected, leftover>>
      /\ disc' \in make_user(FALSE)
  BY DEF MakeUserHangs, choiceVars, netVars
<1>3. ~joined
  BY <1>1 DEF InTurn, Waiting, Failed, Ended
<1>4. Working /\ Ledger /\ OnTop /\ OnDisc /\ UserData /\ timers + net_timers = 1 /\ Noted
  BY <1>1, <1>3 DEF InTurn
<1>5. Ledger'
  <2>0. \A fn : fn = "make_user" => Before(fn) = ToSnapptix /\ Before(fn)' = ToSnapptix
    BY DEF Before, Syncs, ToSnapptix
  <2>1. cleared = ToSnapptix /\ ~data_partition
    BY <1>1, <1>4, <2>0 DEF Ledger
  <2>2. Before(Tid.fn)' = Before("make_user")' /\ Before("make_user")' = ToSnapptix
    BY <1>1, <2>0 DEF Before
  <2>3. cleared' = Before(Tid.fn)' \cup IF (Tid.result)' = "ok" THEN {(Tid.fn)'} ELSE {}
    BY <1>1, <1>2, <2>1, <2>2
  <2>4. ~data_partition'
    BY <1>2, <2>1
  <2> QED
    BY <1>1, <2>3, <2>4 DEF Ledger, Syncs
<1>6. Working'
  <2>0. \A w : Steps(w)' = Steps(w)
    BY WayStays DEF MakeUserHangs
  <2>1. Steps(page)' = Steps(page)
    BY <1>2, <2>0
  <2> QED
    BY <1>1, <1>2, <1>4, <2>1 DEF Working
<1>7. OnTop'
  BY <1>1, <1>2, <1>4 DEF OnTop
<1>8. OnDisc' /\ UserData'
  <2>1. "make_user" \in EarlyStep /\ FALSE \in BOOLEAN
    BY DEF EarlyStep
  <2>2. disc' \in Effects("make_user", FALSE)
    BY <1>2 DEF Effects
  <2>3. cleared = Before("make_user") /\ ~data_partition
    BY <1>1, <1>4 DEF Ledger
  <2>4. cleared' = cleared \cup IF FALSE THEN {"make_user"} ELSE {}
    BY <1>2
  <2> QED
    BY <1>1, <1>2, <1>4, <2>1, <2>2, <2>3, <2>4, EarlyDisc
<1>9. Noted'
  BY <1>2, <1>4 DEF Noted
<1> QED
  BY <1>1, <1>2, <1>3, <1>4, <1>5, <1>6, <1>7, <1>8, <1>9 DEF InTurn

-----------------------------------------------------------------------------
(***************************************************************************)
(* In turn: the next window.                                               *)
(***************************************************************************)

\* A window that only waits is shown once the last thread has been joined.
LEMMA StillKeeps ==
    ASSUME TypeInv, InTurn, workers # <<>>, NoThread(TRUE), timers' = 0, net_timers' = 0,
           UNCHANGED <<disc, cleared, data_partition, detected>>,
           node_type' = node_type \/ Tid.fn = "install_nic_modules",
           Noted', Waiting', OnTop'
    PROVE  InTurn'
<1>1. workers' = workers /\ joined' = TRUE /\ Tid' = Tid
  BY DEF NoThread, Tid
<1>2. Ledger /\ OnDisc /\ UserData
  BY DEF InTurn
<1>3. Ledger'
  <2>1. CASE node_type' = node_type
    <3>1. Before(Tid.fn)' = Before(Tid.fn)
      BY <1>1, <2>1 DEF Before, ToUser, ToNics, ToNetwork, ToKernel
    <3> QED
      BY <1>1, <1>2, <2>1, <3>1 DEF Ledger
  <2>2. CASE Tid.fn = "install_nic_modules"
    <3>1. Before(Tid.fn)' = Before(Tid.fn)
      BY <1>1, <2>2 DEF Before, ToUser, ToNics, Syncs
    <3> QED
      BY <1>1, <1>2, <2>2, <3>1 DEF Ledger, Syncs
  <2> QED
    BY <2>1, <2>2
<1>4. OnDisc' /\ UserData'
  BY <1>1, <1>2, UserDataStays DEF OnDisc, SyncBegun
<1> QED
  BY <1>1, <1>3, <1>4 DEF InTurn

\* The window that follows a thread that has ended.
LEMMA ShowKeeps ==
    ASSUME TypeInv, strays = 0, InTurn, workers # <<>>, ~joined, NEW w, Destination(w),
           SetupWindow(w, 0, TRUE), strays' = 0, net_timers' = 0,
           UNCHANGED <<disc, cleared, data_partition, detected>>,
           dialog' \in {"none", "error", "blank"}, dialog' = "error" => leftover' = "corrupt"
    PROVE  InTurn'
<1>1. Noted /\ Working /\ Ledger /\ OnDisc /\ UserData
  BY DEF InTurn
<1>2. workers' # <<>> => OnTop'
  BY DEF OnTop
<1>3. ASSUME NEW v \in BusyWindow, Busy(v, 0, TRUE), Prepared(v)
      PROVE  InTurn'
  <2>1. workers' # <<>>
    BY <1>3, Started DEF Busy
  <2> QED
    BY <1>2, <1>3, <2>1, BusyKeeps
<1>4. ASSUME NEW v, Still(v, 0, TRUE), Waiting', Noted',
             node_type' = node_type \/ Tid.fn = "install_nic_modules"
      PROVE  InTurn'
  <2>1. NoThread(TRUE) /\ timers' = 0 /\ workers' # <<>>
    BY <1>4 DEF Still, NoThread
  <2> QED
    BY <1>2, <1>4, <2>1, StillKeeps
<1>5. ASSUME NEW v, Still(v, 0, TRUE)
      PROVE  page' = v /\ workers' = workers /\ Tid' = Tid
  BY <1>5 DEF Still, NoThread, Tid
<1>6. CASE w = "CREATE_PARTITIONS" /\ CreatePartitions(0, TRUE)
  <2>1. Prepared(w) /\ Ended("detect_nic_cards", "ok")
    BY <1>6 DEF Destination, BusyWindow, ErrorWindow, Ended
  <2>2. CASE devices < 1
    <3>1. Still("NONETDEVICE_ERROR", 0, TRUE) /\ UNCHANGED <<update, node_type>>
      BY <1>6, <2>2 DEF CreatePartitions
    <3>2. Waiting'
      BY <1>5, <2>1, <3>1 DEF Waiting, Ended
    <3> QED
      BY <1>1, <1>4, <3>1, <3>2 DEF Noted
  <2>3. CASE ~(devices < 1)
    BY <1>3, <1>6, <2>1, <2>3 DEF CreatePartitions, BusyWindow
  <2> QED
    BY <2>2, <2>3
<1>7. CASE w \in BusyWindow \ {"CREATE_PARTITIONS"} /\ Busy(w, 0, TRUE)
  BY <1>3, <1>7 DEF Destination, BusyWindow, ErrorWindow
<1>8. CASE w = "NODE_TYPE_SELECT" /\ NodeTypeSelect(0, TRUE)
  <2>1. Ended("install_nic_modules", "ok")
    BY <1>8 DEF Destination, BusyWindow, ErrorWindow
  <2>2. CASE devices = 1
    <3>1. /\ Still("GET_TZINFO", 0, TRUE)
          /\ update' = [update EXCEPT !.next = "GET_PASSWORD"]
          /\ node_type' = 0
      BY <1>8, <2>2 DEF NodeTypeSelect, GetTimezone
    <3>2. Noted' /\ update'.next = "GET_PASSWORD"
      BY <1>1, <3>1 DEF Noted
    <3>3. Ended("install_nic_modules", "ok")' /\ page' = "GET_TZINFO"
      BY <1>5, <2>1, <3>1 DEF Ended
    <3>4. Waiting'
      BY <3>1, <3>2, <3>3 DEF Waiting
    <3> QED
      BY <1>4, <2>1, <3>1, <3>2, <3>4 DEF Ended
  <2>3. CASE devices # 1
    <3>1. /\ Still("NODE_TYPE_SELECT", 0, TRUE)
          /\ update' = [update EXCEPT !.next = "GET_TZINFO"]
      BY <1>8, <2>3 DEF NodeTypeSelect
    <3>2. Noted' /\ update'.next = "GET_TZINFO"
      BY <1>1, <3>1 DEF Noted
    <3>3. Waiting'
      BY <1>5, <2>1, <3>1, <3>2 DEF Waiting, Ended
    <3> QED
      BY <1>4, <2>1, <3>1, <3>2, <3>3 DEF Ended
  <2> QED
    BY <2>2, <2>3
<1>9. CASE w = "SYNC_WITH_ALPHA_ERROR" /\ SyncWithAlphaError(0, TRUE)
  <2>1. Tid.fn \in Syncs /\ Tid.result = "error"
    BY <1>9 DEF Destination, BusyWindow, ErrorWindow
  <2>2. /\ page' = "SYNC_WITH_ALPHA_ERROR"
        /\ StartThread("sync_again", TRUE)
        /\ timers' = 1
        /\ UNCHANGED <<update, node_type>>
    <3>1. timers' = 1 /\ page' = "SYNC_WITH_ALPHA_ERROR" /\ UNCHANGED <<update, node_type>>
      BY <1>9 DEF SyncWithAlphaError
    <3>2. StartThread("sync_again", TRUE)
      BY <1>9, Zenon DEF SyncWithAlphaError
    <3> QED
      BY <3>1, <3>2
  <2>3. workers' # <<>> /\ (Tid.fn)' = "sync_again"
    BY <2>2, Started
  <2>4. update = Steps("SYNC_WITH_ALPHA")
    <3>1. page \in BusyWindow /\ Work(page) \in Syncs => page = "SYNC_WITH_ALPHA"
      BY DEF BusyWindow, Work, Syncs
    <3> QED
      BY <1>1, <2>1, <3>1 DEF Working, Syncs
  <2>5. Before("sync_again")' = Before("sync_again") /\ Steps("SYNC_WITH_ALPHA")' = Steps("SYNC_WITH_ALPHA")
    BY <2>2, WayStays DEF choiceVars
  <2>6. Working'
    BY <2>2, <2>3, <2>4, <2>5 DEF Working
  <2>7. cleared = Before("sync_again")'
    BY <1>1, <2>1, <2>5, BeforeNext DEF Ledger, Syncs
  <2>8. UserData'
    BY <1>1, <2>3, UserDataStays DEF SyncBegun, Syncs
  <2>9. Noted' /\ OnTop' /\ timers' + net_timers' = 1 /\ node_type' = 1
    BY <1>1, <1>2, <2>1, <2>2, <2>3 DEF Noted, Ledger
  <2>10. "sync_again" \notin ToSnapptix \cup {"make_user"}
    BY DEF ToSnapptix
  <2> QED
    BY <2>2, <2>6, <2>7, <2>8, <2>9, <2>10, NewThread
<1>10. CASE w = "NETWORK_CONFIG" /\ NetworkConfig(0, TRUE)
  <2>1. Ended("sync_with_alpha", "ok")
    BY <1>10 DEF Destination, BusyWindow, ErrorWindow
  <2>2. Waiting'
    BY <1>5, <1>10, <2>1 DEF NetworkConfig, Waiting, Ended
  <2> QED
    BY <1>1, <1>4, <1>10, <2>2 DEF NetworkConfig, Noted
<1>11. CASE w = "REBOOT" /\ Reboot(0, TRUE)
  <2>1. Ended("unmount_partitions", "ok")
    BY <1>11 DEF Destination, BusyWindow, ErrorWindow
  <2>2. Waiting'
    BY <1>5, <1>11, <2>1 DEF Reboot, Waiting, Ended
  <2> QED
    BY <1>1, <1>4, <1>11, <2>2 DEF Reboot, Noted
<1>12. CASE w \in ErrorWindow /\ Error(w, 0, TRUE)
  <2>1. Failed
    BY <1>12 DEF Destination, BusyWindow, ErrorWindow
  <2>2. Waiting'
    BY <1>5, <1>12, <2>1 DEF Error, Waiting, Failed
  <2> QED
    BY <1>1, <1>4, <1>12, <2>2 DEF Error, Noted
<1>13. w \notin {"GET_TZINFO", "GET_PASSWORD", "SYNC_PROMPT"}
  BY DEF Destination, BusyWindow, ErrorWindow
<1> QED
  BY <1>6, <1>7, <1>8, <1>9, <1>10, <1>11, <1>12, <1>13 DEF SetupWindow

-----------------------------------------------------------------------------
(***************************************************************************)
(* In turn: the callbacks.                                                 *)
(***************************************************************************)

\* The timer of a busy window joins the thread and shows what comes after it.
LEMMA TimerShows ==
    ASSUME TypeInv, InTurn, Timer
    PROVE  /\ ~joined /\ workers # <<>> /\ ~Running(Tid)
           /\ \E w : Destination(w) /\ SetupWindow(w, 0, TRUE)
           /\ UNCHANGED <<disc, cleared, data_partition, detected>>
           /\ net_timers' = 0
           /\ dialog' \in {"none", "error", "blank"}
           /\ dialog' = "error" => leftover' = "corrupt"
<1>1. /\ timers > 0
      /\ \/ \E failed \in IF joined THEN BOOLEAN ELSE {Tid.result = "error"} :
                /\ SetupWindow(IF failed THEN update.error ELSE update.next, TimersLeft, TRUE)
                /\ UNCHANGED <<machineVars, dialog, detected, data_partition, net_timers, cleared>>
         \/ joined
      /\ ~Running(Tid)
  BY Zenon DEF Timer
<1>2. joined \in BOOLEAN /\ timers \in Nat /\ net_timers \in Nat
  BY DEF TypeInv, ThreadsOK, UserOK
<1>3. ~joined /\ timers = 1 /\ net_timers = 0
  BY <1>1, <1>2 DEF InTurn
<1>4. workers # <<>> /\ Working /\ OnTop
  BY <1>3 DEF InTurn, Untouched
<1> DEFINE w == IF Tid.result = "error" THEN update.error ELSE update.next
<1>5. /\ SetupWindow(w, 0, TRUE)
      /\ UNCHANGED <<machineVars, dialog, detected, data_partition, net_timers, cleared>>
  <2>1. TimersLeft = 0
    BY <1>3 DEF TimersLeft
  <2>2. /\ SetupWindow(w, TimersLeft, TRUE)
        /\ UNCHANGED <<machineVars, dialog, detected, data_partition, net_timers, cleared>>
    BY <1>1, <1>3, Zenon
  <2> QED
    BY <2>1, <2>2, Zenon
<1>6. Destination(w)
  BY <1>1, <1>3, <1>4, Onward
<1>7. dialog \in {"none", "error", "blank"} /\ (dialog = "error" => leftover = "corrupt")
  <2>1. page \in BusyWindow \/ page = "SYNC_WITH_ALPHA_ERROR"
    BY <1>3, <1>4 DEF Working
  <2>2. Tid.fn # "find_connected_external"
    BY <1>3, <1>4 DEF Working, Work, BusyWindow
  <2>3. dialog \in {"none", "repair", "error", "blank", "prompt", "testing"}
    BY DEF TypeInv, UserOK
  <2> QED
    BY <1>3, <1>4, <2>1, <2>2, <2>3 DEF OnTop, BusyWindow
<1> HIDE DEF w
<1>8. /\ UNCHANGED <<disc, cleared, data_partition, detected>>
      /\ net_timers' = 0
      /\ dialog' \in {"none", "error", "blank"}
      /\ dialog' = "error" => leftover' = "corrupt"
  BY <1>3, <1>5, <1>7 DEF machineVars
<1> QED
  BY <1>1, <1>3, <1>4, <1>5, <1>6, <1>8

LEMMA TimerKeeps ==
    ASSUME TypeInv, strays = 0, InTurn, Timer, strays' = 0
    PROVE  InTurn'
  BY TimerShows, ShowKeeps

\* The timer of the network check looks at what was detected.
LEMMA NetTimerShows ==
    ASSUME TypeInv, InTurn, NetTimer
    PROVE  /\ ~joined /\ workers # <<>> /\ ~Running(Tid)
           /\ UNCHANGED <<disc, cleared, data_partition, detected>>
           /\ timers = 0 /\ net_timers' = 0 /\ dialog' = "none"
           /\ page = "NETWORK_CONFIG" /\ Tid.fn = "find_connected_external"
           /\ detected \in BOOLEAN
           /\ detected => Destination("SETUP_CONFIGS") /\ SetupWindow("SETUP_CONFIGS", 0, TRUE)
           /\ ~detected => NoThread(TRUE) /\ Tid.result = "error"
<1>1. joined \in BOOLEAN /\ timers \in Nat /\ net_timers \in Nat
  BY DEF TypeInv, ThreadsOK, UserOK
<1>2. /\ net_timers > 0 /\ ~Running(Tid) /\ net_timers' = net_timers - 1 /\ dialog' = "none"
      /\ UNCHANGED <<disc, cleared, data_partition, detected>>
  BY DEF NetTimer, machineVars
<1>3. ~joined /\ timers = 0 /\ net_timers = 1 /\ net_timers' = 0
  BY <1>1, <1>2 DEF InTurn
<1>4. workers # <<>> /\ Working /\ Ledger /\ OnTop /\ Noted
  BY <1>3 DEF InTurn, Untouched
<1>5. page = "NETWORK_CONFIG" /\ Tid.fn = "find_connected_external"
  BY <1>3, <1>4 DEF Working
<1>6. Tid.result \in {"ok", "error"} /\ detected = (Tid.result = "ok")
  BY <1>2, <1>4, <1>5, LastThread DEF Ledger, Running
<1>7. ASSUME detected
      PROVE  Destination("SETUP_CONFIGS") /\ SetupWindow("SETUP_CONFIGS", 0, TRUE)
  <2>1. SetupWindow("SETUP_CONFIGS", timers, TRUE)
    BY <1>7, Zenon DEF NetTimer
  <2>2. SetupWindow("SETUP_CONFIGS", 0, TRUE)
    BY <1>3, <2>1, Zenon
  <2>3. Tid.result = "ok" /\ node_type \in {0, 1}
    BY <1>4, <1>5, <1>6, <1>7 DEF Ledger
  <2>4. cleared = Before("setup_configs")
    BY <1>4, <1>5, <2>3, BeforeNext DEF Ledger
  <2>5. Work("SETUP_CONFIGS") = "setup_configs"
    BY DEF Work
  <2>6. Prepared("SETUP_CONFIGS")
    BY <1>5, <2>3, <2>4, <2>5 DEF Prepared, ToSnapptix, SyncBegun, Syncs
  <2>7. Destination("SETUP_CONFIGS")
    BY <2>3, <2>6 DEF Destination, BusyWindow
  <2> QED
    BY <2>2, <2>7
<1>8. ASSUME ~detected
      PROVE  NoThread(TRUE) /\ Tid.result = "error"
  BY <1>6, <1>8, Zenon DEF NetTimer
<1>9. detected \in BOOLEAN
  BY DEF TypeInv, MachineOK
<1> QED
  BY <1>2, <1>3, <1>4, <1>5, <1>7, <1>8, <1>9

LEMMA NetTimerKeeps ==
    ASSUME TypeInv, strays = 0, InTurn, NetTimer, strays' = 0
    PROVE  InTurn'
<1>1. /\ ~joined /\ workers # <<>>
      /\ UNCHANGED <<disc, cleared, data_partition, detected>>
      /\ timers = 0 /\ net_timers' = 0 /\ dialog' = "none"
      /\ page = "NETWORK_CONFIG" /\ Tid.fn = "find_connected_external"
      /\ detected \in BOOLEAN
  BY NetTimerShows
<1>2. CASE detected
  <2>1. Destination("SETUP_CONFIGS") /\ SetupWindow("SETUP_CONFIGS", 0, TRUE)
    BY <1>2, NetTimerShows
  <2> QED
    BY <1>1, <2>1, ShowKeeps
<1>3. CASE ~detected
  <2>1. NoThread(TRUE) /\ Tid.result = "error"
    BY <1>3, NetTimerShows
  <2>2. page' = page /\ update' = update /\ timers' = 0 /\ node_type' = node_type
    BY <1>1, <1>3 DEF NetTimer
  <2>3. Tid' = Tid /\ workers' = workers
    BY <2>1 DEF NoThread, Tid
  <2>4. Waiting'
    BY <1>1, <2>1, <2>2, <2>3 DEF Waiting, Ended
  <2>5. Noted' /\ OnTop'
    BY <1>1, <2>2 DEF InTurn, Noted, OnTop
  <2> QED
    BY <1>1, <2>1, <2>2, <2>4, <2>5, StillKeeps
<1> QED
  BY <1>1, <1>2, <1>3

\* Before the first thread there is nothing but a page.
LEMMA BeforeFirst ==
    ASSUME TypeInv, InTurn, page \in {"INTRO", "CHECK_DRIVE"}
    PROVE  /\ workers = <<>> /\ joined = TRUE /\ timers = 0 /\ net_timers = 0
           /\ Untouched /\ OnTop /\ Noted
<1>1. ~Working
  BY DEF Working, BusyWindow
<1>2. joined = TRUE
  BY <1>1 DEF InTurn, TypeInv, ThreadsOK
<1>3. ~Waiting
  BY DEF Waiting, ErrorWindow
<1>4. workers = <<>>
  BY <1>2, <1>3 DEF InTurn
<1>5. timers \in Nat /\ net_timers \in Nat
  BY DEF TypeInv, UserOK
<1> QED
  BY <1>2, <1>4, <1>5 DEF InTurn

LEMMA StillFirst ==
    ASSUME TypeInv, InTurn, page = "INTRO", NEW w \in {"CHECK_DRIVE", "HARDDRIVE_ERROR"},
           Still(w, timers, joined), UNCHANGED <<update, net_timers, disc, cleared>>, OnTop'
    PROVE  InTurn'
<1>1. /\ workers = <<>> /\ joined = TRUE /\ timers = 0 /\ net_timers = 0
      /\ Untouched /\ Noted
  BY BeforeFirst
<1>2. page' = w /\ timers' = 0 /\ NoThread(joined)
  BY <1>1 DEF Still
<1>3. workers' = <<>> /\ joined' = TRUE
  BY <1>1, <1>2 DEF NoThread
<1>4. OnDisc' /\ UserData' /\ Untouched'
  BY <1>1, <1>2, <1>3 DEF OnDisc, UserData, Untouched, SyncBegun
<1> QED
  BY <1>1, <1>2, <1>3, <1>4 DEF InTurn, Noted

LEMMA FirstThread ==
    ASSUME TypeInv, strays = 0, InTurn, page \in {"INTRO", "CHECK_DRIVE"},
           Busy("CONTINUE_CHECK", timers, joined), strays' = 0,
           UNCHANGED <<net_timers, disc, cleared>>,
           dialog' \in {"none", "error", "blank"}, dialog' = "error" => leftover' = "corrupt"
    PROVE  InTurn'
<1>1. /\ workers = <<>> /\ joined = TRUE /\ timers = 0 /\ net_timers = 0 /\ Untouched
  BY BeforeFirst
<1>2. /\ page' = "CONTINUE_CHECK" /\ timers' = 1
      /\ update' = Then("NETWORK_DETECT", "BAD_BLOCKS_ERROR")
  BY <1>1 DEF Busy, DiscSteps
<1>3. StartThread("bad_block_scan", joined)
  <2>1. StartThread(Work("CONTINUE_CHECK"), joined)
    BY DEF Busy
  <2>2. Work("CONTINUE_CHECK") = "bad_block_scan"
    BY DEF Work
  <2> QED
    BY <2>1, <2>2
<1>4. joined \in BOOLEAN
  BY DEF TypeInv, ThreadsOK
<1>5. workers' # <<>> /\ (Tid.fn)' = "bad_block_scan" /\ ~joined'
  BY <1>3, <1>4, Started
<1>6. Working' /\ OnTop' /\ Noted'
  BY <1>1, <1>2, <1>5 DEF Working, OnTop, Noted, Then, Steps, DiscSteps, Work, BusyWindow
<1>7. UserData'
  <2>1. cleared' = {} /\ disc'.mounts = {} /\ disc'.user \in {"none", "data"}
    BY <1>1 DEF Untouched
  <2> QED
    BY <2>1 DEF UserData
<1>8. cleared = Before("bad_block_scan")' /\ disc.mounts = {}
  <2>1. Before("bad_block_scan")' = {}
    BY DEF Before, Syncs
  <2> QED
    BY <1>1, <2>1 DEF Untouched
<1>9. "bad_block_scan" \notin Syncs
  BY DEF Syncs
<1>10. timers' + net_timers' = 1
  BY <1>1, <1>2
<1> QED
  BY <1>3, <1>4, <1>6, <1>7, <1>8, <1>9, <1>10, NewThread

\* Once there is a thread, the first one can only be started out of turn.
LEMMA NoSecondFirst ==
    ASSUME TypeInv, strays = 0, InTurn, workers # <<>>,
           StartThread("bad_block_scan", joined), strays' = 0
    PROVE  FALSE
<1>1. joined \in BOOLEAN
  BY DEF TypeInv, ThreadsOK
<1>2. joined /\ "bad_block_scan" \notin cleared /\ ~Failed
  BY <1>1, Started
<1>3. Waiting /\ Ledger
  BY <1>2 DEF InTurn
<1>4. Tid.fn \in {"detect_nic_cards", "install_nic_modules", "sync_with_alpha",
                  "find_connected_external", "unmount_partitions"}
  BY <1>2, <1>3 DEF Waiting, Ended
<1>5. "bad_block_scan" \in Before(Tid.fn)
  BY <1>4 DEF Before, ToKernel, ToNetwork, ToNics, ToUser, ToSnapptix, Syncs
<1> QED
  BY <1>2, <1>3, <1>5 DEF Ledger

LEMMA CheckDriveKeeps ==
    ASSUME TypeInv, strays = 0, InTurn, CheckDrive, strays' = 0
    PROVE  InTurn'
<1>1. /\ page = "INTRO"
      /\ UNCHANGED <<disc, cleared, net_timers, leftover>>
  BY DEF CheckDrive, machineVars
<1>2. workers = <<>> /\ joined = TRUE /\ OnTop
  BY <1>1, BeforeFirst
<1>3. dialog \in {"none", "blank"}
  BY <1>1, <1>2 DEF OnTop, TypeInv, UserOK
<1>4. CASE Still("HARDDRIVE_ERROR", timers, joined) /\ UNCHANGED <<dialog, update>>
  <2>1. OnTop'
    BY <1>3, <1>4 DEF OnTop
  <2> QED
    BY <1>1, <1>4, <2>1, StillFirst
<1>5. CASE Busy("CONTINUE_CHECK", timers, joined) /\ UNCHANGED dialog
  BY <1>1, <1>3, <1>5, FirstThread
<1>6. CASE leftover = "good" /\ QueryRepair
  <2>1. Still("CHECK_DRIVE", timers, joined) /\ dialog' = "repair" /\ UNCHANGED update
    BY <1>6 DEF QueryRepair
  <2>2. OnTop'
    BY <1>1, <1>6, <2>1 DEF OnTop, Still
  <2> QED
    BY <1>1, <2>1, <2>2, StillFirst
<1>7. CASE /\ leftover = "corrupt"
           /\ Busy("CONTINUE_CHECK", timers, joined)
           /\ dialog' \in {"error", "blank"}
  BY <1>1, <1>7, FirstThread
<1> QED
  BY <1>4, <1>5, <1>6, <1>7 DEF CheckDrive, find_snapptix_partition

\* The answer to the question about good data comes before the first thread, the
\* one about corrupt data after it.
LEMMA AnswerKeeps ==
    ASSUME TypeInv, strays = 0, InTurn, GotYes \/ GotNo, strays' = 0
    PROVE  InTurn'
<1>1. /\ dialog \in {"repair", "error"} /\ dialog' = "none"
      /\ UNCHANGED <<disc, cleared, net_timers>>
      /\ SetupWindow("CONTINUE_CHECK", timers, joined)
  BY DEF GotYes, GotNo, machineVars
<1>2. Busy("CONTINUE_CHECK", timers, joined)
  BY <1>1 DEF SetupWindow, ErrorWindow
<1>3. CASE dialog = "repair"
  <2>1. page = "CHECK_DRIVE"
    BY <1>3 DEF InTurn, OnTop
  <2> QED
    BY <1>1, <1>2, <2>1, FirstThread
<1>4. CASE dialog = "error"
  <2>1. workers # <<>>
    BY <1>4 DEF InTurn, OnTop
  <2>2. StartThread(Work("CONTINUE_CHECK"), joined) /\ Work("CONTINUE_CHECK") = "bad_block_scan"
    BY <1>2 DEF Busy, Work
  <2> QED
    BY <2>1, <2>2, NoSecondFirst
<1> QED
  BY <1>1, <1>3, <1>4

\* Where the user is asked for the type of the unit and what follows from it.
LEMMA AtQuestions ==
    ASSUME TypeInv, InTurn,
           page \in {"NODE_TYPE_SELECT", "GET_TZINFO", "GET_PASSWORD", "SYNC_PROMPT"}
    PROVE  /\ workers # <<>> /\ joined = TRUE /\ timers = 0 /\ net_timers = 0
           /\ Ended("install_nic_modules", "ok")
           /\ cleared = Before("sync_with_alpha")
           /\ Noted /\ Waiting /\ OnTop
<1>1. ~Working /\ ~Untouched
  BY DEF Working, Untouched, BusyWindow
<1>2. workers # <<>> /\ joined = TRUE
  BY <1>1 DEF InTurn, TypeInv, ThreadsOK
<1>3. Waiting /\ Ledger /\ OnTop /\ Noted
  BY <1>2 DEF InTurn
<1>4. Ended("install_nic_modules", "ok")
  BY <1>3 DEF Waiting, ErrorWindow
<1>5. cleared = Before("sync_with_alpha")
  BY <1>3, <1>4, BeforeNext DEF Ledger, Ended
<1>6. timers = 0 /\ net_timers = 0
  BY <1>2 DEF InTurn, TypeInv, UserOK
<1> QED
  BY <1>2, <1>3, <1>4, <1>5, <1>6

LEMMA SelectNodeTypeKeeps ==
    ASSUME TypeInv, InTurn, SelectNodeType
    PROVE  InTurn'
<1>1. /\ page = "NODE_TYPE_SELECT" /\ dialog = "none"
      /\ UNCHANGED <<disc, page, dialog, detected, data_partition, update, timers, net_timers,
                     workers, joined, thread_finished, strays, cleared>>
  BY DEF SelectNodeType, machineVars, netVars, threadVars
<1>2. /\ workers # <<>> /\ joined = TRUE /\ timers = 0 /\ net_timers = 0
      /\ Ended("install_nic_modules", "ok")
      /\ Noted /\ Waiting
  BY <1>1, AtQuestions
<1>3. NoThread(TRUE)
  BY <1>1, <1>2 DEF NoThread
<1>4. Waiting'
  <2>1. update.next = "GET_TZINFO"
    BY <1>1, <1>2 DEF Waiting, ErrorWindow
  <2>2. Ended("install_nic_modules", "ok")'
    BY <1>1, <1>2 DEF Ended, Tid
  <2> QED
    BY <1>1, <2>1, <2>2 DEF Waiting
<1>5. Noted' /\ OnTop'
  BY <1>1, <1>2 DEF Noted, OnTop
<1> QED
  BY <1>1, <1>2, <1>3, <1>4, <1>5, StillKeeps DEF Ended

\* A page that follows one of those questions.
LEMMA NextQuestion ==
    ASSUME TypeInv, InTurn, dialog = "none",
           page \in {"NODE_TYPE_SELECT", "GET_TZINFO", "GET_PASSWORD", "SYNC_PROMPT"},
           NEW w, Still(w, timers, joined),
           UNCHANGED <<disc, dialog, detected, data_partition, node_type, net_timers, cleared>>,
           Noted',
           \/ /\ w = "GET_TZINFO"
              /\ node_type \in {0, 1}
              /\ update'.next = IF node_type = 1 THEN "SYNC_PROMPT" ELSE "GET_PASSWORD"
           \/ w = "SYNC_PROMPT" /\ node_type = 1 /\ update'.next = "SYNC_WITH_ALPHA"
           \/ w \in {"GET_PASSWORD", "NETWORK_CONFIG"} /\ node_type = 0
    PROVE  InTurn'
<1>1. /\ workers # <<>> /\ joined = TRUE /\ timers = 0 /\ net_timers = 0
      /\ Ended("install_nic_modules", "ok")
  BY AtQuestions
<1>2. page' = w /\ timers' = 0 /\ NoThread(TRUE)
  BY <1>1 DEF Still, NoThread
<1>3. Ended("install_nic_modules", "ok")'
  BY <1>1, <1>2 DEF Ended, Tid, NoThread
<1>4. Waiting'
  BY <1>2, <1>3 DEF Waiting
<1>5. OnTop'
  BY DEF OnTop
<1> QED
  BY <1>1, <1>2, <1>4, <1>5, StillKeeps

LEMMA ButtonNextKeeps ==
    ASSUME TypeInv, strays = 0, InTurn, ButtonNext, strays' = 0
    PROVE  InTurn'
<1>1. /\ dialog = "none"
      /\ \/ page = "NODE_TYPE_SELECT" /\ node_type # -1
         \/ page = "GET_TZINFO"
         \/ page = "SYNC_PROMPT"
      /\ UNCHANGED <<disc, dialog, detected, data_partition, net_timers, cleared>>
  BY DEF ButtonNext, machineVars
<1>2. SetupWindow(update.next, timers, joined)
  BY DEF ButtonNext
<1>3. /\ workers # <<>> /\ joined = TRUE /\ timers = 0 /\ net_timers = 0
      /\ Ended("install_nic_modules", "ok")
      /\ cleared = Before("sync_with_alpha")
      /\ Noted /\ Waiting
  BY <1>1, AtQuestions
<1>4. node_type \in -1 .. 1
  BY DEF TypeInv, UserOK
<1>5. CASE page = "NODE_TYPE_SELECT"
  <2>1. update.next = "GET_TZINFO"
    BY <1>3, <1>5 DEF Waiting, ErrorWindow
  <2>2. GetTimezone(node_type, timers, joined)
    BY <1>2, <2>1 DEF SetupWindow, BusyWindow, ErrorWindow
  <2> DEFINE next == IF node_type # 0 THEN "SYNC_PROMPT" ELSE "GET_PASSWORD"
  <2>3. /\ Still("GET_TZINFO", timers, joined) /\ node_type' = node_type
        /\ update' = [update EXCEPT !.next = next]
    BY <2>2 DEF GetTimezone
  <2>4. node_type \in {0, 1}
    BY <1>1, <1>4, <1>5
  <2>5. next = IF node_type = 1 THEN "SYNC_PROMPT" ELSE "GET_PASSWORD"
    BY <2>4
  <2> HIDE DEF next
  <2>6. Noted' /\ update'.next = next
    BY <1>3, <2>3 DEF Noted
  <2> QED
    BY <1>1, <1>5, <2>3, <2>4, <2>5, <2>6, NextQuestion
<1>6. CASE page = "GET_TZINFO" /\ node_type = 1
  <2>1. update.next = "SYNC_PROMPT"
    BY <1>3, <1>6 DEF Waiting, ErrorWindow
  <2>2. SyncPrompt(timers, joined)
    BY <1>2, <2>1 DEF SetupWindow, BusyWindow, ErrorWindow
  <2>3. /\ Still("SYNC_PROMPT", timers, joined) /\ node_type' = node_type
        /\ update' = [update EXCEPT !.next = "SYNC_WITH_ALPHA"]
    BY <2>2 DEF SyncPrompt
  <2>4. Noted' /\ update'.next = "SYNC_WITH_ALPHA"
    BY <1>3, <2>3 DEF Noted
  <2> QED
    BY <1>1, <1>6, <2>3, <2>4, NextQuestion
<1>7. CASE page = "GET_TZINFO" /\ node_type # 1
  <2>1. update.next = "GET_PASSWORD" /\ node_type = 0
    BY <1>3, <1>7 DEF Waiting, ErrorWindow
  <2>2. GetPassword(timers, joined)
    BY <1>2, <2>1 DEF SetupWindow, BusyWindow, ErrorWindow
  <2>3. Still("GET_PASSWORD", timers, joined) /\ node_type' = node_type /\ Noted'
    BY <1>3, <2>2 DEF GetPassword, Noted
  <2> QED
    BY <1>1, <1>7, <2>1, <2>3, NextQuestion
<1>8. CASE page = "SYNC_PROMPT"
  <2>1. update.next = "SYNC_WITH_ALPHA" /\ node_type = 1
    BY <1>3, <1>8 DEF Waiting, ErrorWindow
  <2>2. Busy("SYNC_WITH_ALPHA", timers, joined)
    BY <1>2, <2>1 DEF SetupWindow, BusyWindow, ErrorWindow
  <2>3. Busy("SYNC_WITH_ALPHA", 0, TRUE)
    BY <1>3, <2>2
  <2>4. Prepared("SYNC_WITH_ALPHA")
    BY <1>3, <2>1, NotBefore
    DEF Prepared, Work, Ended, SyncBegun, Syncs, ToSnapptix, Function
  <2>5. OnTop'
    BY <1>1 DEF OnTop
  <2> QED
    BY <1>1, <1>3, <2>3, <2>4, <2>5, BusyKeeps DEF BusyWindow
<1> QED
  BY <1>1, <1>5, <1>6, <1>7, <1>8

LEMMA CheckPasswordsKeeps ==
    ASSUME TypeInv, InTurn, CheckPasswords
    PROVE  InTurn'
<1>1. /\ dialog = "none" /\ page = "GET_PASSWORD"
      /\ UNCHANGED <<disc, dialog, detected, data_partition, net_timers, cleared>>
      /\ SetupWindow("NETWORK_CONFIG", timers, joined)
  BY DEF CheckPasswords, machineVars
<1>2. NetworkConfig(timers, joined)
  BY <1>1 DEF SetupWindow, BusyWindow, ErrorWindow
<1>3. Waiting /\ Noted
  BY <1>1, AtQuestions
<1>4. node_type = 0
  BY <1>1, <1>3 DEF Waiting, ErrorWindow
<1>5. Still("NETWORK_CONFIG", timers, joined) /\ node_type' = node_type /\ Noted'
  BY <1>2, <1>3 DEF NetworkConfig, Noted
<1> QED
  BY <1>1, <1>4, <1>5, NextQuestion

LEMMA CheckEntriesKeeps ==
    ASSUME TypeInv, InTurn, CheckEntries
    PROVE  InTurn'
<1>1. /\ page = "NETWORK_CONFIG" /\ dialog = "none" /\ dialog' = "prompt"
      /\ UNCHANGED <<disc, page, detected, data_partition, node_type, update, timers,
                     net_timers, workers, joined, thread_finished, strays, cleared>>
  BY DEF CheckEntries, machineVars, choiceVars, threadVars
<1>2. joined = TRUE
  BY <1>1 DEF InTurn, Working, BusyWindow, TypeInv, ThreadsOK
<1>3. workers # <<>> /\ Waiting /\ Noted /\ timers = 0 /\ net_timers = 0
  BY <1>1, <1>2 DEF InTurn, Untouched, TypeInv, UserOK
<1>4. NoThread(TRUE)
  BY <1>1, <1>2 DEF NoThread
<1>5. Waiting'
  <2>1. Tid' = Tid
    BY <1>1 DEF Tid
  <2> QED
    BY <1>1, <1>3, <2>1 DEF Waiting, Ended, Failed
<1>6. Noted' /\ OnTop'
  BY <1>1, <1>2, <1>3 DEF Noted, OnTop
<1> QED
  BY <1>1, <1>3, <1>4, <1>5, <1>6, StillKeeps

\* The network page offers the check when the node's type is known, and a beta has
\* the data of the alpha.
LEMMA BeforeCheck ==
    ASSUME TypeInv, InTurn, page = "NETWORK_CONFIG", joined
    PROVE  /\ workers # <<>> /\ timers = 0 /\ net_timers = 0
           /\ cleared = Before("find_connected_external")
           /\ node_type \in {0, 1}
           /\ Tid.fn \notin Syncs \/ "sync_with_alpha" \in cleared
<1>1. workers # <<>> /\ timers = 0 /\ net_timers = 0
  BY DEF InTurn, Untouched, TypeInv, UserOK
<1>2. Waiting /\ Ledger
  BY <1>1 DEF InTurn
<1>3. CASE Ended("install_nic_modules", "ok") /\ node_type = 0
  BY <1>1, <1>2, <1>3, BeforeNext DEF Ledger, Ended, Syncs
<1>4. CASE Ended("sync_with_alpha", "ok")
  BY <1>1, <1>2, <1>4, BeforeNext DEF Ledger, Ended, Syncs
<1>5. CASE Ended("find_connected_external", "error")
  BY <1>1, <1>2, <1>5 DEF Ledger, Ended, Syncs
<1> QED
  BY <1>2, <1>3, <1>4, <1>5 DEF Waiting, ErrorWindow

LEMMA NetCheckKeeps ==
    ASSUME TypeInv, strays = 0, InTurn, CheckNet \/ CheckNetBehind, strays' = 0
    PROVE  InTurn'
<1>1. /\ dialog \in {"prompt", "testing"}
      /\ StartNetCheck
  BY DEF CheckNet, CheckNetBehind
<1>2. /\ dialog' = "testing" /\ detected' = FALSE
      /\ StartThread("find_connected_external", joined)
      /\ net_timers' = net_timers + 1
      /\ UNCHANGED <<disc, page, data_partition, node_type, update, timers, cleared>>
  BY <1>1 DEF StartNetCheck, machineVars, choiceVars
<1>3. joined \in BOOLEAN
  BY DEF TypeInv, ThreadsOK
<1>4. joined = TRUE /\ workers' # <<>> /\ (Tid.fn)' = "find_connected_external" /\ ~joined'
  BY <1>2, <1>3, Started
<1>5. page = "NETWORK_CONFIG"
  BY <1>1, <1>4 DEF InTurn, OnTop
<1>6. /\ timers = 0 /\ net_timers = 0
      /\ cleared = Before("find_connected_external")
      /\ node_type \in {0, 1}
      /\ Tid.fn \notin Syncs \/ "sync_with_alpha" \in cleared
      /\ UserData /\ Noted
  BY <1>4, <1>5, BeforeCheck DEF InTurn
<1>7. cleared = Before("find_connected_external")'
  BY <1>2, <1>6, WayStays DEF choiceVars
<1>8. UserData'
  BY <1>2, <1>4, <1>6, UserDataStays DEF SyncBegun
<1>9. Working' /\ OnTop' /\ Noted'
  BY <1>2, <1>4, <1>5, <1>6 DEF Working, OnTop, Noted
<1>10. timers' + net_timers' = 1
  BY <1>2, <1>6
<1>11. "find_connected_external" \notin ToSnapptix \cup {"make_user", "final_sync"} \cup Syncs
  BY DEF ToSnapptix, Syncs
<1> QED
  BY <1>2, <1>3, <1>6, <1>7, <1>8, <1>9, <1>10, <1>11, NewThread

\* Nothing but the installer's death, or what no window shows.
LEMMA SameKeeps ==
    ASSUME InTurn,
           UNCHANGED <<leftover, disc, page, dialog, detected, choiceVars, update, timers,
                       net_timers, workers, joined, cleared>>
    PROVE  InTurn'
<1>1. Tid' = Tid /\ data_partition' = data_partition /\ node_type' = node_type
  BY DEF Tid, choiceVars
<1>2. Working => Working'
  <2>1. Steps(page)' = Steps(page) /\ Steps("SYNC_WITH_ALPHA")' = Steps("SYNC_WITH_ALPHA")
    BY <1>1 DEF Steps, ClusterSteps, DiscSteps, AfterSnapptix, AfterKernel
  <2> QED
    BY <1>1, <2>1 DEF Working
<1>3. Waiting => Waiting'
  BY <1>1 DEF Waiting, Ended, Failed
<1>4. Ledger => Ledger'
  <2>1. Before(Tid.fn)' = Before(Tid.fn)
    BY <1>1 DEF Before, ToUser, ToNics, ToNetwork, ToKernel
  <2> QED
    BY <1>1, <2>1 DEF Ledger
<1>5. OnTop' /\ OnDisc' /\ UserData'
  BY <1>1, UserDataStays DEF InTurn, OnTop, OnDisc, SyncBegun
<1>6. Untouched => Untouched'
  BY DEF Untouched
<1> QED
  BY <1>2, <1>3, <1>4, <1>5, <1>6 DEF InTurn, Noted

LEMMA InTurnNext ==
    ASSUME TypeInv, strays = 0, InTurn, [Next]_vars, strays' = 0
    PROVE  InTurn'
<1>1. CASE WorkerStep
  BY <1>1, WorkerEndsKeeps, MakeUserHangsKeeps DEF WorkerStep
<1>2. CASE Dies
  <2>1. \E where : Die(where)
    BY <1>2 DEF Dies, QueryDies, RetryDies, BehindDies, NetTimerDies
  <2> QED
    BY <2>1, SameKeeps DEF Die, machineVars, netVars, threadVars
<1>3. CASE UNCHANGED vars
  BY <1>3, SameKeeps DEF vars, machineVars, netVars, threadVars
<1> QED
  BY <1>1, <1>2, <1>3, TimerKeeps, NetTimerKeeps, CheckDriveKeeps, AnswerKeeps,
     SelectNodeTypeKeeps, ButtonNextKeeps, CheckPasswordsKeeps, CheckEntriesKeeps, NetCheckKeeps
  DEF Next, UserStep

\* The count of threads that were started out of turn never goes back.
LEMMA StraysGrow ==
    ASSUME TypeInv, [Next]_vars
    PROVE  strays' >= strays
<1>1. strays \in Nat
  BY DEF TypeInv, ThreadsOK
<1>2. ASSUME NEW fn, NEW collected, StartThread(fn, collected)
      PROVE  strays' >= strays
  <2>1. strays' = strays \/ strays' = strays + 1
    BY <1>1, <1>2 DEF StartThread
  <2> QED
    BY <1>1, <2>1
<1>3. ASSUME NEW w, NEW t, NEW collected, SetupWindow(w, t, collected)
      PROVE  strays' >= strays
  <2>1. \/ \E fn : StartThread(fn, collected)
        \/ NoThread(collected)
    BY <1>3, Zenon
    DEF SetupWindow, CreatePartitions, Busy, NodeTypeSelect, GetTimezone, GetPassword,
        SyncPrompt, SyncWithAlphaError, NetworkConfig, Reboot, Error, Still
  <2> QED
    BY <1>1, <1>2, <2>1 DEF NoThread
<1>4. ASSUME NEW where, Die(where)
      PROVE  strays' >= strays
  BY <1>1, <1>4 DEF Die, threadVars
<1>5. CASE WorkerStep
  <2>1. strays' = strays
    BY <1>5 DEF WorkerStep, WorkerEnds, MakeUserHangs
  <2> QED
    BY <1>1, <2>1
<1>6. CASE Timer \/ NetTimer
  <2>1. \/ \E w, t, collected : SetupWindow(w, t, collected)
        \/ \E collected : NoThread(collected)
        \/ \E where : Die(where)
    BY <1>6, Zenon DEF Timer, NetTimer
  <2> QED
    BY <1>1, <1>3, <1>4, <2>1 DEF NoThread
<1>7. CASE CheckDrive
  BY <1>1, <1>2, <1>7 DEF CheckDrive, QueryRepair, Busy, Still, NoThread
<1>8. CASE GotYes \/ GotNo \/ ButtonNext \/ CheckPasswords
  BY <1>3, <1>8 DEF GotYes, GotNo, ButtonNext, CheckPasswords
<1>9. CASE SelectNodeType \/ CheckEntries
  BY <1>1, <1>9 DEF SelectNodeType, CheckEntries, threadVars
<1>10. CASE CheckNet \/ CheckNetBehind
  BY <1>2, <1>10 DEF CheckNet, CheckNetBehind, StartNetCheck
<1>11. CASE Dies
  BY <1>4, <1>11 DEF Dies, QueryDies, RetryDies, BehindDies, NetTimerDies
<1>12. CASE UNCHANGED vars
  BY <1>1, <1>12 DEF vars, threadVars
<1> QED
  BY <1>5, <1>6, <1>7, <1>8, <1>9, <1>10, <1>11, <1>12 DEF Next, UserStep

LEMMA IInvInit == Init => IInv
<1> SUFFICES ASSUME Init PROVE IInv
  OBVIOUS
<1>1. workers = <<>> /\ joined /\ cleared = {} /\ disc.mounts = {}
      /\ disc.user \in {"none", "data"} /\ page = "INTRO" /\ dialog = "none"
      /\ timers = 0 /\ net_timers = 0
  BY DEF Init
<1>2. Noted /\ Untouched /\ OnTop
  BY <1>1 DEF Init, Noted, Untouched, OnTop
<1>3. OnDisc /\ UserData
  BY <1>1 DEF OnDisc, UserData
<1> QED
  BY <1>1, <1>2, <1>3, TypeInit DEF IInv, InTurn

LEMMA IInvNext == IInv /\ [Next]_vars => IInv'
<1> SUFFICES ASSUME IInv, [Next]_vars PROVE IInv'
  OBVIOUS
<1>1. TypeInv /\ TypeInv'
  BY TypeNext DEF IInv
<1>2. strays' = 0 => strays = 0
  BY <1>1, StraysGrow DEF TypeInv, ThreadsOK
<1> QED
  BY <1>1, <1>2, InTurnNext DEF IInv

LEMMA IInvHolds == Spec => []IInv
  BY IInvInit, IInvNext, PTL DEF Spec
-----------------------------------------------------------------------------
(***************************************************************************)
(* Theorems.                                                               *)
(***************************************************************************)

\* Whoever starts a thread also adds the timer that will join it, and the timer
\* that joined it is gone: as long as no thread was started out of turn, there is
\* one timer while there is a thread to join, and none otherwise.
THEOREM TimerMatchesThread == Spec => []OneTimerPerThread
<1>1. IInv => OneTimerPerThread
  BY DEF IInv, InTurn, OneTimerPerThread
<1> QED
  BY <1>1, IInvHolds, PTL

\* As long as no thread was started out of turn, what is mounted on /home is the
\* old data if the user wanted to keep them, and a new file system if not.
THEOREM HomeAsAsked == Spec => []HomeIsAsAsked
<1>1. IInv => HomeIsAsAsked
  BY DEF IInv, InTurn, UserData, Asked, HomeIsAsAsked
<1> QED
  BY <1>1, IInvHolds, PTL

\* The steps of a complete installation.
LEMMA AllSteps ==
    LET all == Before("unmount_partitions")
    IN  /\ ToSnapptix \cup {"mount_partitions", "install_base", "install_nic_modules",
                            "find_connected_external", "setup_configs", "setup_kernel"}
               \subseteq all
        /\ ~data_partition => "make_user" \in all
        /\ node_type = 1 => {"sync_with_alpha", "final_sync"} \subseteq all
        /\ node_type # 1 => "sync_with_alpha" \notin all
<1>1. Before("unmount_partitions") = ToKernel \cup IF node_type = 1 THEN {"final_sync"} ELSE {}
  BY DEF Before, Syncs
<1> QED
  BY <1>1 DEF ToKernel, ToNetwork, ToNics, ToUser, ToSnapptix

\* The page that asks for the reboot comes only when the unit is complete, whatever
\* was found on its disc and whatever the user answered, as long as no thread was
\* started out of turn.
THEOREM RebootOnlyComplete == Spec => []RebootIsComplete
<1>1. IInv => RebootIsComplete
  <2> SUFFICES ASSUME IInv, page = "REBOOT", strays = 0
               PROVE  /\ disc.table = "new"
                      /\ disc.swap
                      /\ disc.root = "fresh"
                      /\ {"install_base", "install_nic_modules", "setup_configs",
                          "setup_kernel"} \subseteq disc.files
                      /\ disc.mounts = {}
                      /\ node_type \in {0, 1}
                      /\ node_type = 1 =>
                            /\ disc.user = "mirror"
                            /\ {"sync_with_alpha", "final_sync"} \subseteq disc.files
                      /\ node_type = 0 => disc.user = Asked
    BY DEF RebootIsComplete, Asked
  <2>1. TypeInv /\ InTurn /\ OnDisc /\ UserData
    BY DEF IInv, InTurn
  <2>2. ~Working /\ ~Untouched
    BY DEF Working, Untouched, BusyWindow
  <2>3. workers # <<>> /\ joined
    BY <2>1, <2>2 DEF InTurn
  <2>4. Ledger /\ Ended("unmount_partitions", "ok")
    BY <2>1, <2>3 DEF InTurn, Waiting, ErrorWindow
  <2>5. cleared = Before("unmount_partitions") \cup {"unmount_partitions"} /\ node_type \in {0, 1}
    BY <2>4 DEF Ledger, Ended
  <2>6. /\ ToSnapptix \subseteq cleared
        /\ {"mount_partitions", "install_base", "install_nic_modules",
            "find_connected_external", "setup_configs", "setup_kernel"} \subseteq cleared
        /\ ~data_partition => "make_user" \in cleared
        /\ node_type = 1 => {"sync_with_alpha", "final_sync"} \subseteq cleared
        /\ node_type # 1 => "sync_with_alpha" \notin cleared
    BY <2>5, AllSteps
  <2>7. /\ disc.table = "new" /\ disc.swap /\ disc.root = "fresh" /\ disc.mounts = {}
        /\ {"install_base", "install_nic_modules", "setup_configs", "setup_kernel"}
               \subseteq disc.files
        /\ node_type = 1 => {"sync_with_alpha", "final_sync"} \subseteq disc.files
    BY <2>1, <2>5, <2>6 DEF OnDisc, ToSnapptix
  <2>8. node_type = 1 => disc.user = "mirror"
    BY <2>1, <2>6 DEF UserData
  <2>9. node_type = 0 => disc.user = Asked
    <3>1. node_type = 0 => ~SyncBegun
      BY <2>4, <2>6 DEF SyncBegun, Ended, Syncs
    <3> QED
      BY <2>1, <2>6, <3>1 DEF UserData, Asked
  <2> QED
    BY <2>5, <2>7, <2>8, <2>9
<1> QED
  BY <1>1, IInvHolds, PTL

\* Nothing has been started while the user is asked about good data.
Quiet ==
    /\ page \in {"INTRO", "CHECK_DRIVE"} =>
          workers = <<>> /\ timers = 0 /\ net_timers = 0 /\ dialog \in {"none", "repair"}
    /\ dialog = "repair" => page = "CHECK_DRIVE"

LEMMA QuietInit == Init => Quiet
  BY DEF Init, Quiet

LEMMA QuietNext == Quiet /\ [Next]_vars => Quiet'
<1> SUFFICES ASSUME Quiet, [Next]_vars PROVE Quiet'
  OBVIOUS
<1>1. ASSUME NEW w, NEW t, NEW collected, SetupWindow(w, t, collected)
      PROVE  page' \notin {"INTRO", "CHECK_DRIVE"}
  BY <1>1 DEF SetupWindow, CreatePartitions, Busy, NodeTypeSelect, GetTimezone, GetPassword,
              SyncPrompt, SyncWithAlphaError, NetworkConfig, Reboot, Error, Still, BusyWindow,
              ErrorWindow
<1>2. ASSUME NEW where, Die(where)
      PROVE  Quiet'
  BY <1>2 DEF Die, Quiet, threadVars
<1>3. CASE WorkerStep
  <2>1. PICK i \in DOMAIN workers : WorkerEnds(i) \/ MakeUserHangs(i)
    BY <1>3 DEF WorkerStep
  <2>2. UNCHANGED <<page, dialog, timers, net_timers>>
    BY <2>1 DEF WorkerEnds, MakeUserHangs
  <2>3. workers # <<>>
    BY <2>1
  <2> QED
    BY <2>2, <2>3 DEF Quiet
<1>4. CASE Timer
  <2>1. timers > 0
    BY <1>4 DEF Timer
  <2>2. \/ \E w, t, collected : SetupWindow(w, t, collected) /\ dialog' = dialog
        \/ \E where : Die(where)
    BY <1>4, Zenon DEF Timer
  <2>3. page \notin {"INTRO", "CHECK_DRIVE"}
    BY <2>1 DEF Quiet
  <2> QED
    BY <1>1, <1>2, <2>2, <2>3 DEF Quiet
<1>5. CASE NetTimer
  <2>1. net_timers > 0 /\ dialog' = "none"
    BY <1>5 DEF NetTimer
  <2>2. (\E w, t, collected : SetupWindow(w, t, collected)) \/ page' = page
    BY <1>5, Zenon DEF NetTimer
  <2>3. page \notin {"INTRO", "CHECK_DRIVE"}
    BY <2>1 DEF Quiet
  <2> QED
    BY <1>1, <2>1, <2>2, <2>3 DEF Quiet
<1>6. CASE CheckDrive
  <2>1. page = "INTRO" /\ net_timers' = net_timers
    BY <1>6 DEF CheckDrive
  <2>2. \/ page' = "HARDDRIVE_ERROR" /\ dialog' = dialog
        \/ page' = "CONTINUE_CHECK" /\ dialog' \in {dialog, "error", "blank"}
        \/ page' = "CHECK_DRIVE" /\ dialog' = "repair" /\ workers' = workers /\ timers' = timers
    BY <1>6 DEF CheckDrive, QueryRepair, Busy, Still, NoThread
  <2> QED
    BY <2>1, <2>2 DEF Quiet
<1>7. CASE GotYes \/ GotNo \/ ButtonNext \/ CheckPasswords
  <2>1. \E w, t, collected : SetupWindow(w, t, collected)
    BY <1>7 DEF GotYes, GotNo, ButtonNext, CheckPasswords
  <2>2. dialog' = "none"
    BY <1>7 DEF GotYes, GotNo, ButtonNext, CheckPasswords
  <2> QED
    BY <1>1, <2>1, <2>2 DEF Quiet
<1>8. CASE SelectNodeType \/ CheckEntries
  BY <1>8 DEF SelectNodeType, CheckEntries, Quiet
<1>9. CASE CheckNet \/ CheckNetBehind
  BY <1>9 DEF CheckNet, CheckNetBehind, StartNetCheck, Quiet
<1>10. CASE Dies
  BY <1>2, <1>10 DEF Dies, QueryDies, RetryDies, BehindDies, NetTimerDies
<1>11. CASE UNCHANGED vars
  BY <1>11 DEF vars, threadVars, Quiet
<1> QED
  BY <1>3, <1>4, <1>5, <1>6, <1>7, <1>8, <1>9, <1>10, <1>11 DEF Next, UserStep

\* While the question whether good data are to be kept is on the screen, no thread
\* works and the disc stays as it was found.
THEOREM QuestionFirst == Spec => NothingBehindQuestion
<1>1. Spec => []Quiet
  BY QuietInit, QuietNext, PTL DEF Spec
<1>2. Quiet /\ [Next]_vars => [dialog = "repair" => disc' = disc]_vars
  <2> SUFFICES ASSUME Quiet, Next, dialog = "repair" PROVE disc' = disc
    BY DEF vars, machineVars
  <2>1. workers = <<>>
    BY DEF Quiet
  <2>2. ~WorkerStep
    BY <2>1 DEF WorkerStep
  <2>3. CASE Timer \/ NetTimer
    BY <2>3, Zenon DEF Timer, NetTimer, Die, machineVars
  <2>4. CASE UserStep
    BY <2>4 DEF UserStep, CheckDrive, GotYes, GotNo, SelectNodeType, ButtonNext, CheckPasswords,
                CheckEntries, CheckNet, CheckNetBehind, StartNetCheck, machineVars
  <2>5. CASE Dies
    BY <2>5 DEF Dies, QueryDies, RetryDies, BehindDies, NetTimerDies, Die, machineVars
  <2> QED
    BY <2>2, <2>3, <2>4, <2>5 DEF Next
<1> QED
  BY <1>1, <1>2, PTL DEF Spec, NothingBehindQuestion
-----------------------------------------------------------------------------
(***************************************************************************)
(* Nobody starts a thread out of turn but two windows.                     *)
(***************************************************************************)

LEMMA NotStray ==
    ASSUME TypeInv, strays = 0, InTurn, NEW fn, StartThread(fn, TRUE),
           workers # <<>> => ~Running(Tid), fn \notin cleared, ~Failed
    PROVE  strays' = 0
<1> DEFINE others == IF workers = <<>> \/ Running(Tid) THEN workers ELSE Front(workers)
           stray == strays > 0 \/ ~TRUE \/ others # <<>> \/ fn \in cleared \/ Failed
<1>1. others = <<>>
  <2>1. CASE workers # <<>>
    <3>1. Len(workers) = 1
      BY <2>1, LastThread
    <3>2. Front(workers) \in Seq(Thread) /\ Len(Front(workers)) = Len(workers) - 1
      BY <2>1, FrontIs DEF TypeInv, ThreadsOK
    <3>3. Front(workers) = <<>>
      <4>1. Len(Front(workers)) = 0
        BY <3>1, <3>2
      <4> QED
        BY <3>2, <4>1, EmptySeq
    <3> QED
      BY <2>1, <3>3
  <2> QED
    BY <2>1
<1>2. ~stray
  BY <1>1
<1>3. strays' = strays + IF stray THEN 1 ELSE 0
  BY Zenon DEF StartThread
<1> HIDE DEF stray
<1> QED
  BY <1>2, <1>3

\* A window that is shown where the last thread said, or at the start.
LEMMA ShowInOrder ==
    ASSUME TypeInv, strays = 0, InTurn, workers # <<>>, ~Running(Tid), ~joined,
           NEW w, Destination(w), SetupWindow(w, 0, TRUE)
    PROVE  strays' = 0
<1>1. ASSUME NEW v \in BusyWindow, Busy(v, 0, TRUE), Prepared(v), Tid.result = "ok"
      PROVE  strays' = 0
  <2>1. Work(v) \in Function
    BY DEF BusyWindow, Work, Function
  <2>2. Work(v) \notin cleared
    BY <1>1, <2>1, NotBefore DEF Prepared
  <2>3. StartThread(Work(v), TRUE)
    BY <1>1, Zenon DEF Busy
  <2>4. ~Failed
    BY <1>1 DEF Failed
  <2> QED
    BY <2>2, <2>3, <2>4, NotStray
<1>2. ASSUME NEW v, Still(v, 0, TRUE)
      PROVE  strays' = 0
  BY <1>2 DEF Still, NoThread
<1>3. CASE w \in BusyWindow
  <2>1. Prepared(w) /\ Tid.result = "ok"
    BY <1>3 DEF Destination, BusyWindow, ErrorWindow
  <2>2. \/ Busy(w, 0, TRUE)
        \/ \E v : Still(v, 0, TRUE)
    BY <1>3, Zenon DEF SetupWindow, CreatePartitions, NodeTypeSelect, GetTimezone, GetPassword,
                       SyncPrompt, SyncWithAlphaError, NetworkConfig, Reboot, Error, BusyWindow
  <2> QED
    BY <1>1, <1>2, <1>3, <2>1, <2>2
<1>4. CASE w = "SYNC_WITH_ALPHA_ERROR"
  <2>1. StartThread("sync_again", TRUE)
    BY <1>4, Zenon DEF SetupWindow, SyncWithAlphaError, BusyWindow, ErrorWindow
  <2>2. Tid.fn \in Syncs /\ Tid.result = "error"
    BY <1>4 DEF Destination, BusyWindow, ErrorWindow
  <2>3. cleared = Before("sync_again")
    BY <2>2, BeforeNext DEF InTurn, Ledger, Syncs
  <2>4. ~Failed
    BY <2>2 DEF Failed, Syncs
  <2> QED
    BY <2>1, <2>3, <2>4, NotBefore, NotStray
<1>5. CASE w \notin BusyWindow \cup {"SYNC_WITH_ALPHA_ERROR"}
  <2>1. \E v : Still(v, 0, TRUE)
    BY <1>5, Zenon DEF SetupWindow, CreatePartitions, NodeTypeSelect, GetTimezone, GetPassword,
                       SyncPrompt, SyncWithAlphaError, NetworkConfig, Reboot, Error, BusyWindow
  <2> QED
    BY <1>2, <2>1
<1> QED
  BY <1>3, <1>4, <1>5

LEMMA FirstInOrder ==
    ASSUME TypeInv, strays = 0, InTurn, page \in {"INTRO", "CHECK_DRIVE"},
           Busy("CONTINUE_CHECK", timers, joined)
    PROVE  strays' = 0
<1>1. workers = <<>> /\ joined = TRUE /\ Untouched
  BY BeforeFirst
<1>2. StartThread("bad_block_scan", TRUE)
  <2>1. StartThread(Work("CONTINUE_CHECK"), joined)
    BY DEF Busy
  <2>2. Work("CONTINUE_CHECK") = "bad_block_scan"
    BY DEF Work
  <2> QED
    BY <1>1, <2>1, <2>2
<1> QED
  BY <1>1, <1>2, NotStray DEF Untouched, Failed

LEMMA QuestionInOrder ==
    ASSUME TypeInv, strays = 0, InTurn, ButtonNext \/ CheckPasswords
    PROVE  strays' = 0
<1>1. /\ dialog = "none"
      /\ page \in {"NODE_TYPE_SELECT", "GET_TZINFO", "GET_PASSWORD", "SYNC_PROMPT"}
      /\ \/ SetupWindow("NETWORK_CONFIG", timers, joined)
         \/ SetupWindow(update.next, timers, joined) /\ page # "GET_PASSWORD"
  BY DEF ButtonNext, CheckPasswords
<1>2. /\ joined = TRUE /\ Waiting
      /\ Ended("install_nic_modules", "ok")
      /\ cleared = Before("sync_with_alpha")
  BY <1>1, AtQuestions
<1>3. page # "GET_PASSWORD" =>
          update.next \in {"GET_TZINFO", "SYNC_PROMPT", "GET_PASSWORD", "SYNC_WITH_ALPHA"}
  BY <1>1, <1>2 DEF Waiting, ErrorWindow
<1>4. \/ \E w, t, collected : Still(w, t, collected)
      \/ Busy("SYNC_WITH_ALPHA", timers, joined)
  BY <1>1, <1>3 DEF SetupWindow, GetTimezone, GetPassword, SyncPrompt, NetworkConfig, BusyWindow,
                    ErrorWindow
<1>5. CASE \E w, t, collected : Still(w, t, collected)
  BY <1>5 DEF Still, NoThread
<1>6. CASE Busy("SYNC_WITH_ALPHA", timers, joined)
  <2>1. StartThread("sync_with_alpha", TRUE)
    <3>1. StartThread(Work("SYNC_WITH_ALPHA"), joined)
      BY <1>6 DEF Busy
    <3>2. Work("SYNC_WITH_ALPHA") = "sync_with_alpha"
      BY DEF Work
    <3> QED
      BY <1>2, <3>1, <3>2
  <2>2. "sync_with_alpha" \notin cleared
    BY <1>2, NotBefore DEF Function
  <2>3. ~Running(Tid) /\ ~Failed
    BY <1>2 DEF Ended, Running, Failed
  <2> QED
    BY <2>1, <2>2, <2>3, NotStray
<1> QED
  BY <1>4, <1>5, <1>6

\* The first check of the network, from the window that asks for the cable.
LEMMA NetCheckInOrder ==
    ASSUME TypeInv, strays = 0, InTurn, StartNetCheck, dialog = "prompt"
    PROVE  strays' = 0
<1>1. page = "NETWORK_CONFIG" /\ joined = TRUE
  BY DEF InTurn, OnTop, TypeInv, ThreadsOK
<1>2. workers # <<>> /\ cleared = Before("find_connected_external")
  BY <1>1, BeforeCheck
<1>3. ~Running(Tid) /\ ~Failed
  BY <1>1, <1>2 DEF InTurn, Waiting, Ended, Running, Failed, ErrorWindow
<1>4. "find_connected_external" \notin cleared
  BY <1>2, NotBefore DEF Function
<1>5. StartThread("find_connected_external", TRUE)
  <2>1. StartThread("find_connected_external", joined)
    BY DEF StartNetCheck
  <2> QED
    BY <1>1, <2>1
<1> QED
  BY <1>3, <1>4, <1>5, NotStray

\* The one handle, flag and record are used by one thread at a time, each step once:
\* in whatever order threads end, timers fire and the user clicks, the first thread
\* out of turn comes from the question about corrupt data, which nobody waits for,
\* or from a third click on the network page.
THEOREM StraysOnlyByTwo == Spec => StraysOnlyBy
<1>1. IInv /\ [Next]_vars =>
          [strays = 0 /\ strays' > 0 => \/ leftover = "corrupt" /\ dialog = "error"
                                        \/ clicks' > 1]_vars
  <2> SUFFICES ASSUME IInv, Next, strays = 0, strays' > 0,
                      ~(leftover = "corrupt" /\ dialog = "error"), ~(clicks' > 1)
               PROVE  FALSE
    BY DEF vars, threadVars
  <2>1. TypeInv /\ InTurn
    BY DEF IInv
  <2>2. strays' # 0
    OBVIOUS
  <2>3. CASE WorkerStep \/ SelectNodeType \/ CheckEntries \/ Dies
    BY <2>2, <2>3 DEF WorkerStep, WorkerEnds, MakeUserHangs, SelectNodeType, CheckEntries, Dies,
                      QueryDies, RetryDies, BehindDies, NetTimerDies, Die, threadVars
  <2>4. CASE Timer
    BY <2>1, <2>2, <2>4, TimerShows, ShowInOrder
  <2>5. CASE NetTimer
    <3>1. CASE detected
      BY <2>1, <2>2, <2>5, <3>1, NetTimerShows, ShowInOrder
    <3>2. CASE ~detected
      BY <2>1, <2>2, <2>5, <3>2, NetTimerShows DEF NoThread
    <3> QED
      BY <3>1, <3>2
  <2>6. CASE CheckDrive
    <3>1. page = "INTRO"
      BY <2>6 DEF CheckDrive
    <3>2. \/ Busy("CONTINUE_CHECK", timers, joined)
          \/ \E w, t, collected : Still(w, t, collected)
      BY <2>6, Zenon DEF CheckDrive, QueryRepair
    <3> QED
      BY <2>1, <2>2, <3>1, <3>2, FirstInOrder DEF Still, NoThread
  <2>7. CASE GotYes \/ GotNo
    <3>1. dialog \in {"repair", "error"} /\ SetupWindow("CONTINUE_CHECK", timers, joined)
      BY <2>7 DEF GotYes, GotNo
    <3>2. Busy("CONTINUE_CHECK", timers, joined)
      BY <3>1 DEF SetupWindow, ErrorWindow
    <3>3. page = "CHECK_DRIVE"
      BY <2>1, <3>1 DEF InTurn, OnTop
    <3> QED
      BY <2>1, <2>2, <3>2, <3>3, FirstInOrder
  <2>8. CASE ButtonNext \/ CheckPasswords
    BY <2>1, <2>2, <2>8, QuestionInOrder
  <2>9. CASE CheckNet \/ CheckNetBehind
    <3>1. dialog = "prompt" /\ StartNetCheck
      BY <2>1, <2>9 DEF CheckNet, CheckNetBehind, TypeInv, UserOK
    <3> QED
      BY <2>1, <2>2, <3>1, NetCheckInOrder
  <2> QED
    BY <2>3, <2>4, <2>5, <2>6, <2>7, <2>8, <2>9 DEF Next, UserStep
<1> QED
  BY <1>1, IInvHolds, PTL DEF Spec, StraysOnlyBy
-----------------------------------------------------------------------------
(***************************************************************************)
(* The installer follows the plan.                                         *)
(***************************************************************************)

\* What a step needs has succeeded before it begins.
NeedsFirst ==
    \A fn \in Function : (fn = "final_sync" => node_type = 1) => Plan!Needs(fn) \subseteq Before(fn)

LEMMA NeedsBefore == NeedsFirst
<1> SUFFICES ASSUME NEW fn \in Function, fn = "final_sync" => node_type = 1
             PROVE  Plan!Needs(fn) \subseteq Before(fn)
  BY DEF NeedsFirst
<1> USE DEF Plan!Needs, Before, Syncs, Function
<1>1. CASE fn \in EarlyStep \cup {"mount_partitions"}
  BY <1>1 DEF EarlyStep, ToSnapptix, ToUser
<1>2. CASE fn \in {"install_base", "install_nic_modules", "sync_with_alpha",
                   "find_connected_external"}
  BY <1>2 DEF ToUser, ToNics, ToNetwork
<1>3. CASE fn \in {"setup_configs", "setup_kernel", "unmount_partitions"}
  BY <1>3 DEF ToNics, ToNetwork, ToKernel
<1>4. CASE fn = "final_sync"
  BY <1>4 DEF ToNics, ToNetwork, ToKernel
<1> QED
  BY <1>1, <1>2, <1>3, <1>4 DEF EarlyStep, ToSnapptix

\* Once the installer has died, or has lost count, it stays so.
LEMMA LostStays ==
    ASSUME TypeInv, [Next]_vars, Lost
    PROVE  Lost'
<1>1. CASE crash # "no"
  <2>1. ~Next
    <3>1. ~WorkerStep /\ ~UserStep
      BY <1>1 DEF WorkerStep, WorkerEnds, MakeUserHangs, UserStep, CheckDrive, GotYes, GotNo, SelectNodeType,
                  ButtonNext, CheckPasswords, CheckEntries, CheckNet, CheckNetBehind
    <3>2. ~Timer /\ ~NetTimer
      BY <1>1, Zenon DEF Timer, NetTimer
    <3>3. ~Dies
      BY <1>1 DEF Dies, QueryDies, RetryDies, BehindDies, NetTimerDies, Die
    <3> QED
      BY <3>1, <3>2, <3>3 DEF Next
  <2>2. crash' = crash
    BY <2>1 DEF vars
  <2> QED
    BY <1>1, <2>2 DEF Lost
<1>2. CASE strays > 0
  <2>1. strays' >= strays /\ strays \in Nat /\ strays' \in Nat
    BY StraysGrow, TypeNext DEF TypeInv, ThreadsOK
  <2> QED
    BY <1>2, <2>1 DEF Lost
<1> QED
  BY <1>1, <1>2 DEF Lost

\* A thread ends, or hangs, or starts, or none of it.
LEMMA StepKinds ==
    ASSUME TypeInv, [Next]_vars
    PROVE  \/ \E i \in DOMAIN workers : WorkerEnds(i)
           \/ \E i \in DOMAIN workers : MakeUserHangs(i)
           \/ \E fn : \E collected \in BOOLEAN : StartThread(fn, collected) /\ cleared' = cleared
           \/ workers' = workers /\ cleared' = cleared
<1>0. joined \in BOOLEAN
  BY DEF TypeInv, ThreadsOK
<1>1. ASSUME NEW w, NEW t, NEW collected \in BOOLEAN, SetupWindow(w, t, collected)
      PROVE  (\E fn : StartThread(fn, collected)) \/ workers' = workers
  BY <1>1, Zenon
  DEF SetupWindow, CreatePartitions, Busy, NodeTypeSelect, GetTimezone, GetPassword,
      SyncPrompt, SyncWithAlphaError, NetworkConfig, Reboot, Error, Still, NoThread
<1>2. ASSUME NEW where, Die(where)
      PROVE  workers' = workers /\ cleared' = cleared
  BY <1>2 DEF Die, threadVars
<1>3. CASE Timer
  <2>1. \/ \E w, t : \E collected \in BOOLEAN : SetupWindow(w, t, collected) /\ cleared' = cleared
        \/ \E where : Die(where)
    BY <1>3, Zenon DEF Timer
  <2> QED
    BY <1>1, <1>2, <2>1, Zenon
<1>4. CASE NetTimer
  <2>1. /\ (\E w, t : \E collected \in BOOLEAN : SetupWindow(w, t, collected)) \/ workers' = workers
        /\ cleared' = cleared
    BY <1>4, Zenon DEF NetTimer, NoThread
  <2> QED
    BY <1>1, <2>1, Zenon
<1>5. CASE CheckDrive
  BY <1>0, <1>5, Zenon DEF CheckDrive, QueryRepair, Busy, Still, NoThread
<1>6. CASE GotYes \/ GotNo \/ ButtonNext \/ CheckPasswords
  <2>1. (\E w, t : \E collected \in BOOLEAN : SetupWindow(w, t, collected)) /\ cleared' = cleared
    BY <1>0, <1>6, Zenon DEF GotYes, GotNo, ButtonNext, CheckPasswords
  <2> QED
    BY <1>1, <2>1, Zenon
<1>7. CASE SelectNodeType \/ CheckEntries \/ UNCHANGED vars
  BY <1>7 DEF SelectNodeType, CheckEntries, vars, threadVars
<1>8. CASE CheckNet \/ CheckNetBehind
  BY <1>0, <1>8, Zenon DEF CheckNet, CheckNetBehind, StartNetCheck
<1>9. CASE Dies
  BY <1>2, <1>9 DEF Dies, QueryDies, RetryDies, BehindDies, NetTimerDies
<1> QED
  BY <1>3, <1>4, <1>5, <1>6, <1>7, <1>8, <1>9 DEF Next, WorkerStep, UserStep

\* What the plan sees of the installer.
Done == IF Lost THEN {} ELSE cleared

Current ==
    IF Lost \/ workers = <<>> \/ ~Running(Tid) THEN "none"
    ELSE IF Tid.fn = "sync_again" THEN "sync_with_alpha" ELSE Tid.fn

Stopped == Lost \/ Failed

LEMMA PlanSeen ==
    /\ Plan!PlanInit <=> Done = {} /\ Current = "none" /\ Stopped = FALSE
    /\ \A s : Plan!Begin(s) <=> /\ ~Stopped
                                /\ Current = "none"
                                /\ s \notin Done
                                /\ Plan!Needs(s) \subseteq Done
                                /\ Current' = s
                                /\ UNCHANGED <<Done, Stopped>>
    /\ Plan!Succeed <=> /\ Current # "none"
                        /\ Done' = Done \cup {Current}
                        /\ Current' = "none"
                        /\ UNCHANGED Stopped
    /\ Plan!Fail <=> /\ Current # "none"
                     /\ Current' = "none"
                     /\ Stopped' = (Current \notin Plan!Retried)
                     /\ UNCHANGED Done
    /\ Plan!Abandon <=> Done' = {} /\ Current' = "none" /\ Stopped' = TRUE
    /\ (UNCHANGED Plan!planVars) <=> UNCHANGED <<Done, Current, Stopped>>
  BY DEF Plan!PlanInit, Plan!Begin, Plan!Succeed, Plan!Fail, Plan!Abandon, Plan!planVars, Done,
         Current, Stopped

\* The way is the same way after a step.
NoneFirst == \A fn \in Function : fn \notin Before(fn)

LEMMA WayNext == NeedsFirst' /\ NoneFirst'
<1>1. NoneFirst
  BY NotBefore DEF NoneFirst
<1> QED
  BY <1>1, NeedsBefore, PTL

LEMMA PlanStep ==
    ASSUME IInv, IInv', [Next]_vars
    PROVE  [Plan!PlanNext]_(Plan!planVars)
<1>1. TypeInv /\ TypeInv'
  BY DEF IInv
<1>2. CASE Lost
  <2>1. Lost'
    BY <1>1, <1>2, LostStays
  <2>2. /\ Done = {} /\ Done' = {} /\ Current = "none" /\ Current' = "none"
        /\ Stopped = TRUE /\ Stopped' = TRUE
    BY <1>2, <2>1 DEF Done, Current, Stopped
  <2> QED
    BY <2>2, PlanSeen
<1>3. CASE ~Lost /\ Lost'
  <2>1. Done' = {} /\ Current' = "none" /\ Stopped' = TRUE
    BY <1>3 DEF Done, Current, Stopped
  <2> QED
    BY <2>1, PlanSeen DEF Plan!PlanNext
<1>4. CASE ~Lost /\ ~Lost'
  <2>1. strays = 0 /\ strays' = 0
    BY <1>1, <1>4 DEF Lost, TypeInv, ThreadsOK
  <2>2. InTurn /\ InTurn'
    BY <2>1 DEF IInv
  <2>3. Done = cleared /\ Done' = cleared'
    BY <1>4 DEF Done
  <2>4. CASE \E i \in DOMAIN workers : WorkerEnds(i)
    <3>1. PICK i \in DOMAIN workers : WorkerEnds(i)
      BY <2>4
    <3>2. PICK fn : fn = Tid.fn
      OBVIOUS
    <3>3. workers # <<>> /\ Len(workers) = 1 /\ i = 1 /\ Tid = workers[1]
      <4>1. workers \in Seq(Thread) /\ workers # <<>>
        BY <1>1 DEF TypeInv, ThreadsOK
      <4> QED
        BY <1>1, <2>2, <4>1, LastThread
    <3>4. Tid.result = "running" /\ fn \in Function \cup {"sync_again"}
      BY <1>1, <2>2, <3>1, <3>2, <3>3, LastThread DEF WorkerEnds
    <3>5. Current = IF fn = "sync_again" THEN "sync_with_alpha" ELSE fn
      BY <1>4, <3>2, <3>3, <3>4 DEF Current, Running
    <3>6. ~Failed
      BY <3>4 DEF Failed
    <3>7. cleared = Before(fn)
      BY <2>2, <3>2, <3>3, <3>4 DEF InTurn, Ledger
    <3>8. PICK good \in BOOLEAN :
              /\ cleared' = IF good THEN cleared \cup {fn} ELSE cleared
              /\ disc' \in Effects(fn, good)
              /\ workers' = [workers EXCEPT ![1].result = IF fn \in cleared' THEN "ok" ELSE "error"]
      BY <3>1, <3>2, <3>3 DEF WorkerEnds
    <3>9. (fn \in cleared') = good /\ (fn = "sync_again" => ~good)
      <4>1. fn = "sync_again" => ~good
        BY <3>8 DEF Effects, sync_again, Syncs
      <4> QED
        BY <3>4, <3>7, <3>8, <4>1, NotBefore
    <3>10. workers' # <<>> /\ Tid' = [Tid EXCEPT !.result = IF fn \in cleared' THEN "ok" ELSE "error"]
      <4> DEFINE result == IF fn \in cleared' THEN "ok" ELSE "error"
      <4>1. workers' = [workers EXCEPT ![1].result = result] /\ workers \in Seq(Thread)
        BY <1>1, <3>8 DEF TypeInv, ThreadsOK
      <4> HIDE DEF result
      <4>2. workers' # <<>> /\ Len(workers') = 1 /\ workers'[1] = [workers[1] EXCEPT !.result = result]
        BY <3>3, <4>1
      <4> QED
        BY <3>3, <4>2 DEF Tid, Last, result
    <3>11. /\ (Tid.fn)' = fn
           /\ (Tid.result)' = IF good THEN "ok" ELSE "error"
      <4>1. Tid \in Thread
        BY <1>1, <3>3 DEF TypeInv, ThreadsOK
      <4> QED
        BY <3>2, <3>9, <3>10, <4>1 DEF Thread
    <3>12. Current' = "none"
      BY <3>11 DEF Current, Running
    <3>13. CASE good
      <4>1. Stopped' = FALSE /\ Stopped = FALSE
        BY <1>4, <3>6, <3>11, <3>13 DEF Stopped, Failed
      <4>2. Done' = Done \cup {Current} /\ Current # "none"
        BY <2>3, <3>4, <3>5, <3>8, <3>9, <3>13 DEF Function
      <4> QED
        BY <2>3, <3>12, <4>1, <4>2, PlanSeen DEF Plan!PlanNext
    <3>14. CASE ~good
      <4>1. Stopped' = (fn \notin {"sync_with_alpha", "sync_again", "find_connected_external"})
        BY <1>4, <3>10, <3>11, <3>14 DEF Stopped, Failed
      <4>2. Done' = Done /\ Current # "none"
        BY <2>3, <3>4, <3>5, <3>8, <3>14 DEF Function
      <4>3. Stopped' = (Current \notin Plan!Retried)
        BY <2>3, <3>5, <4>1 DEF Plan!Retried
      <4> QED
        BY <3>12, <4>2, <4>3, PlanSeen DEF Plan!PlanNext
    <3> QED
      BY <3>13, <3>14
  <2>5. CASE \E fn : \E collected \in BOOLEAN : StartThread(fn, collected) /\ cleared' = cleared
    <3>1. PICK fn : \E collected \in BOOLEAN : StartThread(fn, collected) /\ cleared' = cleared
      BY <2>5
    <3>2. /\ workers # <<>> => ~Running(Tid)
          /\ fn \notin cleared /\ ~Failed
          /\ Len(workers') = 1 /\ workers' # <<>>
          /\ (Tid.fn)' = fn /\ (Tid.result)' = "running" /\ ~joined'
      BY <1>1, <2>1, <2>2, <3>1, Started
    <3> DEFINE s == IF fn = "sync_again" THEN "sync_with_alpha" ELSE fn
    <3>3. s \in Function
      <4>1. workers' \in Seq(Thread) /\ Tid' = workers'[1]
        BY <1>1, <3>2 DEF TypeInv, ThreadsOK, Tid, Last
      <4>2. Tid' \in Thread
        BY <3>2, <4>1
      <4>3. fn \in Function \cup {"sync_again"}
        BY <3>2, <4>2 DEF Thread
      <4> QED
        BY <4>3 DEF Function
    <3>4. /\ cleared = Before(fn)'
          /\ s = "final_sync" => node_type' = 1
      <4>1. Ledger'
        BY <2>2, <3>2 DEF InTurn
      <4>2. Before(Tid.fn)' = Before(fn)'
        BY <3>2 DEF Before
      <4> QED
        BY <3>1, <3>2, <4>1, <4>2 DEF Ledger
    <3>5. Before(s)' = Before(fn)'
      BY DEF Before, Syncs
    <3>6. s \notin cleared /\ Plan!Needs(s) \subseteq cleared
      BY <3>3, <3>4, <3>5, WayNext DEF NeedsFirst, NoneFirst
    <3>7. Current = "none" /\ Current' = s
      BY <1>4, <3>2 DEF Current, Running
    <3>8. Stopped = FALSE /\ Stopped' = FALSE
      BY <1>4, <3>2 DEF Stopped, Failed
    <3> HIDE DEF s
    <3>9. Plan!Begin(s)
      BY <2>3, <3>1, <3>6, <3>7, <3>8, PlanSeen
    <3> QED
      BY <3>3, <3>9 DEF Plan!PlanNext, Plan!Step, Function
  <2>6. CASE workers' = workers /\ cleared' = cleared
    <3>1. Tid' = Tid
      BY <2>6 DEF Tid
    <3>2. Stopped' = Stopped /\ Current' = Current
      BY <1>4, <2>6, <3>1 DEF Stopped, Failed, Current
    <3> QED
      BY <2>3, <2>6, <3>2, PlanSeen
  <2>7. CASE \E i \in DOMAIN workers : MakeUserHangs(i)
    <3>1. PICK i \in DOMAIN workers : MakeUserHangs(i)
      BY <2>7
    <3>2. /\ workers # <<>> /\ Tid.fn = "make_user" /\ Tid.result = "running"
          /\ workers' # <<>> /\ (Tid.fn)' = "make_user" /\ (Tid.result)' = "hung"
      BY <1>1, <2>2, <3>1, HungThread
    <3>3. cleared' = cleared
      BY <3>1 DEF MakeUserHangs
    <3>4. Current = "make_user" /\ Current' = "make_user"
      BY <1>4, <3>2 DEF Current, Running
    <3>5. Stopped = FALSE /\ Stopped' = FALSE
      BY <1>4, <3>2 DEF Stopped, Failed
    <3> QED
      BY <2>3, <3>3, <3>4, <3>5, PlanSeen
  <2> QED
    BY <1>1, <2>4, <2>5, <2>6, <2>7, StepKinds
<1> QED
  BY <1>2, <1>3, <1>4

\* The installer works as the plan says, whatever is on the disc, whatever the user
\* does and whichever step fails, until it dies or starts a thread out of turn: one
\* step at a time, each after those it needs, none after one that failed for good.
THEOREM InstallerFollowsPlan == Spec => FollowsPlan
<1>1. Init => Plan!PlanInit
  <2>1. Init => Done = {} /\ Current = "none" /\ Stopped = FALSE
    BY DEF Init, Done, Current, Stopped, Lost, Failed
  <2> QED
    BY <2>1, PlanSeen
<1>2. IInv /\ IInv' /\ [Next]_vars => [Plan!PlanNext]_(Plan!planVars)
  BY PlanStep
<1> QED
  BY <1>1, <1>2, IInvHolds, PTL DEF Spec, FollowsPlan, Plan!PlanSpec

\* What the plan promises holds of the installer.
OfPlan == INSTANCE InstallPlanProofs WITH
    done    <- IF Lost THEN {} ELSE cleared,
    running <- IF Lost \/ workers = <<>> \/ ~Running(Tid) THEN "none"
               ELSE IF Tid.fn = "sync_again" THEN "sync_with_alpha" ELSE Tid.fn,
    stopped <- Lost \/ Failed

LEMMA ByThePlan == Spec => OfPlan!PlanSpec
<1>1. Plan!PlanInit <=> OfPlan!PlanInit
  BY DEF Plan!PlanInit, OfPlan!PlanInit
<1>2. [Plan!PlanNext]_(Plan!planVars) <=> [OfPlan!PlanNext]_(OfPlan!planVars)
  BY Zenon
  DEF Plan!PlanNext, Plan!planVars, Plan!Step, Plan!Begin, Plan!Succeed, Plan!Fail, Plan!Abandon,
      Plan!Needs, Plan!Retried, OfPlan!PlanNext, OfPlan!planVars, OfPlan!Step, OfPlan!Begin,
      OfPlan!Succeed, OfPlan!Fail, OfPlan!Abandon, OfPlan!Needs, OfPlan!Retried
<1> QED
  BY <1>1, <1>2, InstallerFollowsPlan, PTL DEF FollowsPlan, Plan!PlanSpec, OfPlan!PlanSpec

\* As long as the installer lives and keeps its order, whatever a finished or a
\* running thread needs is done: no package is unpacked before the partitions are
\* mounted, no boot loader is written before the configuration, and so on.
THEOREM InstallerKeepsNeeds == Spec => []Plan!NeedsMet
<1>1. OfPlan!PlanSpec => []OfPlan!NeedsMet
  BY OfPlan!PlanKeepsNeeds DEF OfPlan!PlanKeepsNeeds
<1>2. Plan!NeedsMet <=> OfPlan!NeedsMet
  BY DEF Plan!NeedsMet, OfPlan!NeedsMet, Plan!Needs, OfPlan!Needs
<1> QED
  BY <1>1, <1>2, ByThePlan, PTL

\* It unmounts the partitions for the reboot with no mandatory step left out.
THEOREM InstallerEndsComplete == Spec => []Plan!EndIsComplete
<1>1. OfPlan!PlanSpec => []OfPlan!EndIsComplete
  BY OfPlan!PlanEndsComplete DEF OfPlan!PlanEndsComplete
<1>2. Plan!EndIsComplete <=> OfPlan!EndIsComplete
  BY DEF Plan!EndIsComplete, OfPlan!EndIsComplete, Plan!Mandatory, OfPlan!Mandatory, Plan!Step,
         OfPlan!Step
<1> QED
  BY <1>1, <1>2, ByThePlan, PTL
=============================================================================
