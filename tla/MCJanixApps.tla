----------------------------- MODULE MCJanixApps -----------------------------
(***************************************************************************)
(* JanixApps on three applications.  In AnyBytes the stack may leave       *)
(* anything in removeString()'s search[]; in NoBytes it happens to be      *)
(* empty, as the author assumed.                                           *)
(***************************************************************************)
EXTENDS JanixApps

AnyBytes == BOOLEAN
NoBytes  == {FALSE}
=============================================================================
