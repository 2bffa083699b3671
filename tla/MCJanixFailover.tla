--------------------------- MODULE MCJanixFailover ---------------------------
(***************************************************************************)
(* JanixFailover with a char of eight values, so that a count can wrap,    *)
(* and with a buffer that happens to hold '0', so that it cannot be blamed *)
(* for an early reboot.                                                    *)
(***************************************************************************)
EXTENDS JanixFailover

Lowest  == -2
AnyChar == Count
Zero    == {0}
=============================================================================
