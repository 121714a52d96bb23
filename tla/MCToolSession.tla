--------------------------- MODULE MCToolSession ---------------------------
(* Two targets, one of them for another machine, one flag, and calls enough    *)
(* for a refusal or two failures besides a run that worked, in a directory an  *)
(* earlier run may have left.                                                  *)
EXTENDS ToolSession

CONSTANTS p1, p2, f1
MCTargets == {p1, p2}
MCFlags == {f1}
MCForeign == {p2}
=============================================================================
