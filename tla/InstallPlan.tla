----------------------------- MODULE InstallPlan -----------------------------
(***************************************************************************)
(* What the installer (src/unix-packages/GTK_INST.C) promises of the order *)
(* in which it works: one step at a time, a step only after the steps it   *)
(* needs, and no step after one that failed, save the two that may be      *)
(* tried again.  A step is named by the function that does it.             *)
(*                                                                         *)
(* This is the abstract specification that InstallerWizard implements; its *)
(* steps and their needs are those of the functions, not of the windows.   *)
(***************************************************************************)
VARIABLES
    done,     \* the steps that succeeded
    running,  \* the step at work, or "none"
    stopped   \* the installation has ended without being complete

planVars == <<done, running, stopped>>

Step == {"bad_block_scan", "detect_nic_cards", "create_partitions", "make_swap",
         "make_snapptix", "make_user", "mount_partitions", "install_base",
         "install_nic_modules", "sync_with_alpha", "find_connected_external",
         "setup_configs", "setup_kernel", "final_sync", "unmount_partitions"}

\* The steps that are tried again after a failure.
Retried == {"sync_with_alpha", "find_connected_external"}

\* What must have succeeded before a step may begin.
Needs(s) ==
    CASE s = "bad_block_scan"          -> {}
      [] s = "detect_nic_cards"        -> {"bad_block_scan"}
      [] s = "create_partitions"       -> {"bad_block_scan", "detect_nic_cards"}
      [] s = "make_swap"               -> {"create_partitions"}
      [] s = "make_snapptix"           -> {"create_partitions", "make_swap"}
      [] s = "make_user"               -> {"create_partitions", "make_snapptix"}
      [] s = "mount_partitions"        -> {"make_snapptix"}
      [] s = "install_base"            -> {"mount_partitions"}
      [] s = "install_nic_modules"     -> {"install_base"}
      [] s = "sync_with_alpha"         -> {"install_base", "install_nic_modules"}
      [] s = "find_connected_external" -> {"install_nic_modules"}
      [] s = "setup_configs"           -> {"install_base", "find_connected_external"}
      [] s = "setup_kernel"            -> {"install_base", "setup_configs"}
      [] s = "final_sync"              -> {"sync_with_alpha", "setup_kernel"}
      [] s = "unmount_partitions"      -> {"setup_kernel"}

PlanTypeOK ==
    /\ done \subseteq Step
    /\ running \in Step \cup {"none"}
    /\ stopped \in BOOLEAN

PlanInit ==
    /\ done = {}
    /\ running = "none"
    /\ stopped = FALSE

Begin(s) ==
    /\ ~stopped
    /\ running = "none"
    /\ s \notin done
    /\ Needs(s) \subseteq done
    /\ running' = s
    /\ UNCHANGED <<done, stopped>>

Succeed ==
    /\ running # "none"
    /\ done' = done \cup {running}
    /\ running' = "none"
    /\ UNCHANGED stopped

Fail ==
    /\ running # "none"
    /\ running' = "none"
    /\ stopped' = (running \notin Retried)
    /\ UNCHANGED done

\* The installer dies, or can no longer tell its steps apart: nothing that was
\* done counts any more.
Abandon ==
    /\ done' = {}
    /\ running' = "none"
    /\ stopped' = TRUE

PlanNext == (\E s \in Step : Begin(s)) \/ Succeed \/ Fail \/ Abandon

PlanSpec == PlanInit /\ [][PlanNext]_planVars

-----------------------------------------------------------------------------
\* What the plan gives whoever relies on it: everything a finished step needed
\* is done, and so is everything the running step needs.
NeedsMet == \A s \in done \cup ({running} \ {"none"}) : Needs(s) \subseteq done

\* The steps no installation does without: a user partition may be kept, and only a
\* beta synchronizes.
Mandatory == Step \ {"make_user", "sync_with_alpha", "final_sync", "unmount_partitions"}

\* The partitions are unmounted, and the reboot asked for, only when all is done.
EndIsComplete == "unmount_partitions" \in done => Mandatory \subseteq done

=============================================================================
