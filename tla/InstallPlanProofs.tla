-------------------------- MODULE InstallPlanProofs --------------------------
(***************************************************************************)
(* What every installation that follows the plan of InstallPlan has: no    *)
(* step is begun, and none counts as done, without the steps it needs.     *)
(* InstallerWizardProofs proves that the installer follows the plan.       *)
(***************************************************************************)
EXTENDS InstallPlan, TLAPS

\* The plan's state stays in its type.
THEOREM PlanTypeCorrect == PlanSpec => []PlanTypeOK
<1>1. PlanInit => PlanTypeOK
  BY DEF PlanInit, PlanTypeOK
<1>2. PlanTypeOK /\ [PlanNext]_planVars => PlanTypeOK'
  <2> SUFFICES ASSUME PlanTypeOK, [PlanNext]_planVars
               PROVE  PlanTypeOK'
    OBVIOUS
  <2>1. ASSUME NEW s \in Step, Begin(s) PROVE PlanTypeOK'
    BY <2>1 DEF PlanTypeOK, Begin
  <2>2. CASE Succeed
    BY <2>2 DEF PlanTypeOK, Succeed
  <2>3. CASE Fail
    BY <2>3 DEF PlanTypeOK, Fail
  <2>4. CASE Abandon
    BY <2>4 DEF PlanTypeOK, Abandon
  <2>5. CASE UNCHANGED planVars
    BY <2>5 DEF PlanTypeOK, planVars
  <2> QED
    BY <2>1, <2>2, <2>3, <2>4, <2>5 DEF PlanNext
<1> QED
  BY <1>1, <1>2, PTL DEF PlanSpec

\* What a finished or running step needs is done: the packages are never unpacked
\* before the partitions are mounted, the boot loader is never written before the
\* configuration, and so on.
THEOREM PlanKeepsNeeds == PlanSpec => []NeedsMet
<1>1. PlanInit => NeedsMet
  BY DEF PlanInit, NeedsMet
<1>2. PlanTypeOK /\ NeedsMet /\ [PlanNext]_planVars => NeedsMet'
  <2> SUFFICES ASSUME PlanTypeOK, NeedsMet, [PlanNext]_planVars
               PROVE  NeedsMet'
    OBVIOUS
  <2>1. ASSUME NEW s \in Step, Begin(s) PROVE NeedsMet'
    BY <2>1 DEF NeedsMet, Begin
  <2>2. CASE Succeed
    BY <2>2 DEF NeedsMet, Succeed
  <2>3. CASE Fail
    BY <2>3 DEF NeedsMet, Fail
  <2>4. CASE Abandon
    BY <2>4 DEF NeedsMet, Abandon
  <2>5. CASE UNCHANGED planVars
    BY <2>5 DEF NeedsMet, planVars
  <2> QED
    BY <2>1, <2>2, <2>3, <2>4, <2>5 DEF PlanNext
<1> QED
  BY <1>1, <1>2, PlanTypeCorrect, PTL DEF PlanSpec

\* The last step is done only when every step that is not optional is: the plan's
\* order has no way around one of them.
THEOREM PlanEndsComplete == PlanSpec => []EndIsComplete
<1>1. NeedsMet => EndIsComplete
  <2> SUFFICES ASSUME NeedsMet, "unmount_partitions" \in done
               PROVE  Mandatory \subseteq done
    BY DEF EndIsComplete
  <2>1. \A s \in done : Needs(s) \subseteq done
    BY DEF NeedsMet
  <2>2. "setup_kernel" \in done
    BY <2>1 DEF Needs
  <2>3. {"install_base", "setup_configs"} \subseteq done
    BY <2>1, <2>2 DEF Needs
  <2>4. {"mount_partitions", "find_connected_external"} \subseteq done
    BY <2>1, <2>3 DEF Needs
  <2>5. {"make_snapptix", "install_nic_modules"} \subseteq done
    BY <2>1, <2>4 DEF Needs
  <2>6. {"create_partitions", "make_swap"} \subseteq done
    BY <2>1, <2>5 DEF Needs
  <2>7. {"bad_block_scan", "detect_nic_cards"} \subseteq done
    BY <2>1, <2>6 DEF Needs
  <2> QED
    BY <2>2, <2>3, <2>4, <2>5, <2>6, <2>7 DEF Mandatory, Step
<1> QED
  BY <1>1, PlanKeepsNeeds, PTL
=============================================================================
