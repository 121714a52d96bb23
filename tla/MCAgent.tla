------------------------------ MODULE MCAgent ------------------------------
(* Instances of Agent for TLC: what the tools may do is split over the runs    *)
(* so that each explores one concern over as many steps as possible.           *)
EXTENDS AgentSession

CONSTANTS a, b, m0, m1

OneSignature == {a}
TwoSignatures == {a, b}
OneMarker == {m0}
TwoMarkers == {m0, m1}
Never == {FALSE}
Perhaps == {TRUE, FALSE}
Always == {TRUE}

Plain == {"none"}
Losing == {"none", "delete case"}
Anything == AllEffects
=============================================================================
