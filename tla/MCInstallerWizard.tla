------------------------- MODULE MCInstallerWizard -------------------------
(***************************************************************************)
(* Instances of InstallerWizard for TLC: every kind of machine, and three  *)
(* clicks on the button of the network page.                               *)
(***************************************************************************)
EXTENDS InstallerWizard

AnyLeftover == {"none", "good", "corrupt"}
MayMove == BOOLEAN
=============================================================================
