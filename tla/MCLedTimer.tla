----------------------------- MODULE MCLedTimer -----------------------------
(* LedTimer with a period that never ends, one of no length and a longer one. *)
EXTENDS LedTimer

MCPeriods == {-5, 0, 2}
=============================================================================
