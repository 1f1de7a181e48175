------------------------------ MODULE MCDrill ------------------------------
(* Instances of Drill for TLC.                                             *)
EXTENDS Drill

(* Codes of the adapter protocol's registry, one of each kind of outcome.  *)
MCRegistryCodes == {"restore_failed", "cancelled", "timeout", "engine_not_ready",
                    "unsupported_protocol"}

(* What an adapter, another program, may answer: these, the code that the  *)
(* evidence schema keeps for the core, and one outside every vocabulary.   *)
MCAdapterCodes == MCRegistryCodes \cup {"check_failed", "no_such_code"}
=============================================================================
