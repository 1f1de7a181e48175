-------------------------- MODULE MCAdapterSession --------------------------
(* An instance of AdapterSession for TLC: children that hold all pipes, the *)
(* two the core reads, or one of them.                                     *)
EXTENDS AdapterSession

MCHoldings == {{"stdin", "stdout", "stderr"}, {"stdout", "stderr"}, {"stderr"}}
=============================================================================
