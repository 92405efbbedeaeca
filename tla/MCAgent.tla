------------------------------ MODULE MCAgent ------------------------------
(* One program with a service, under its name or an id of its own, and one *)
(* with checks of the node that happen to have those for their ids.        *)
EXTENDS Agent

CONSTANTS web, monitor

Programs == {web, monitor}
WebServices ==
  [t \in Programs |-> IF t = web THEN {<<"web", Empty>>, <<"web", "web-1">>} ELSE {}]
NodeChecks ==
  [t \in Programs |-> IF t = monitor THEN {<<"web", Empty>>} ELSE {}]
ASSUME IdsApart
OwnAndRemote == {"TtlCheck", "HttpCheck"}
=============================================================================
