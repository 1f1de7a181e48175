----------------------------- MODULE MCGameDay -----------------------------
(* Instances of GameDay for TLC.                                           *)
EXTENDS GameDay

(* As many logs as members, so that they can be distinct.                  *)
MCLogs == 1 .. NumMembers
=============================================================================
