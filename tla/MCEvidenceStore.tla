-------------------------- MODULE MCEvidenceStore --------------------------
(* Instances of EvidenceStore for TLC.                                     *)
EXTENDS EvidenceStore, TLC

CONSTANTS w1, w2, r1, r2, r3, r4, r5

MCWriters == {w1, w2}
MCIds == {r1, r2, r3, r4, r5}

(* r1 is exactly as long as the cap allows, r4 is over it; r5 is malformed.*)
MCSizes == [i \in MCIds |-> CASE i = r1 -> 3 [] i = r4 -> 4 [] OTHER -> 1]
MCMalformed == {r5}
MCSymmetry == Permutations({r2, r3}) \cup Permutations(MCWriters)
=============================================================================
