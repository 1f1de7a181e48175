--------------------------- MODULE MCSandboxSweep ---------------------------
(* Instances of SandboxSweep for TLC.                                      *)
EXTENDS SandboxSweep

(* A game-day with two drills (process 1), a process that may get its pid  *)
(* after it died (2) and a process on another host (3).                    *)
MCDrills == 1 .. 4
MCProcs == 1 .. 3
MCHosts == {"h1", "h2"}
MCPids == {100}
MCProcOf == <<1, 1, 2, 3>>
MCHostOf == <<"h1", "h1", "h2">>
MCPidOf == <<100, 100, 100>>

(* docker, where the drills of all three processes meet; and, with one     *)
(* drill in each process, k8s and a bare host, which reclaim by themselves;*)
(* and a bare host on which a removal may fail.                            *)
Docker == [drills |-> MCDrills, marked |-> TRUE, backstop |-> FALSE, rmFails |-> FALSE]
K8s == [drills |-> {1, 3, 4}, marked |-> TRUE, backstop |-> TRUE, rmFails |-> FALSE]
BareHost == [drills |-> {1, 3, 4}, marked |-> FALSE, backstop |-> TRUE, rmFails |-> FALSE]
StubbornHost == [BareHost EXCEPT !.rmFails = TRUE]
MCSites == {Docker, K8s, BareHost, StubbornHost}

(* A bare host on which two drills of one process meet.                    *)
MCSharedSites == {[BareHost EXCEPT !.drills = MCDrills, !.backstop = FALSE]}
=============================================================================
