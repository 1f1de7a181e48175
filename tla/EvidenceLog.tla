---------------------------- MODULE EvidenceLog ----------------------------
(***************************************************************************)
(* What the evidence log promises a reader (docs/evidence-schema.md, 1, 2  *)
(* and 9): the records that verify form a sequence that grows at its end   *)
(* only, and the part of it that has been acknowledged is never lost, so   *)
(* a power loss may take back unacknowledged records from the end and      *)
(* nothing else.                                                           *)
(***************************************************************************)
EXTENDS Integers, Sequences

CONSTANT Ids

VARIABLES chain,      (* the records a verifier finds, in order            *)
          committed   (* how many of them are acknowledged for good        *)

Init == chain = <<>> /\ committed = 0

(* A record becomes readable.                                              *)
Extend(id) == /\ chain' = Append(chain, id)
              /\ UNCHANGED committed

(* Everything readable is acknowledged; there is something new.            *)
Commit == /\ committed < Len(chain)
          /\ committed' = Len(chain)
          /\ UNCHANGED chain

(* Unacknowledged records are lost from the end.                           *)
Lose == /\ \E n \in committed .. Len(chain) : chain' = SubSeq(chain, 1, n)
        /\ UNCHANGED committed

Next == (\E id \in Ids : Extend(id)) \/ Commit \/ Lose

Spec == Init /\ [][Next]_<<chain, committed>>
=============================================================================
