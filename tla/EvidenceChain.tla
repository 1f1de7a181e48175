--------------------------- MODULE EvidenceChain ---------------------------
(***************************************************************************)
(* The evidence log as its readers see it: a file is a sequence of lines,  *)
(* and the walk of internal/evidence/verify.go (with a nil keyring, as the *)
(* writer uses it) decides whether those lines are one hash chain and      *)
(* where the chain ends.                                                   *)
(*                                                                         *)
(* A line is abstracted to the record it was written for and to how much   *)
(* of it is in the file:                                                   *)
(*   id     the record's content; SHA-256 is collision free and every      *)
(*          record carries its own drill data, so the id of a line also    *)
(*          stands for its hash;                                           *)
(*   seq, prev   the chain fields the store filled in;                     *)
(*   whole  all bytes of the canonical line are there and nothing else: a  *)
(*          proper prefix of a JSON object, or two lines run together, is  *)
(*          not one JSON value and does not parse;                         *)
(*   nl     the line is terminated by a newline.                           *)
(***************************************************************************)
EXTENDS Integers, Sequences

CONSTANTS
  Ids,              (* the records that drills try to store               *)
  Genesis,          (* the hash that precedes the first record            *)
  SizeOf,           (* length of a record's signed canonical line         *)
  MaxRecordBytes    (* the 64 KiB ceiling on a canonical line             *)

ASSUME GenesisAssumption == Genesis \notin Ids
ASSUME SizeAssumption == /\ SizeOf \in [Ids -> Nat]
                         /\ MaxRecordBytes \in Nat

Line == [id : Ids, seq : Nat \ {0}, prev : Ids \cup {Genesis},
         whole : BOOLEAN, nl : BOOLEAN]

(* A line the walk parses as a record. An unterminated tail is damage even *)
(* when every byte of the record is there.                                 *)
Readable(ln) == ln.whole /\ ln.nl

(* Line j is the last record among the first n lines; 0 when there is none.*)
LastReadable(f, n, j) ==
  /\ j \in 0 .. n
  /\ j > 0 => Readable(f[j])
  /\ \A k \in (j + 1) .. n : ~ Readable(f[k])

(* The head the walk carries after record j.                               *)
Head0(f, j) == IF j = 0 THEN [seq |-> 0, hash |-> Genesis]
                        ELSE [seq |-> f[j].seq, hash |-> f[j].id]

(* The seq and prev_hash checks of one walk step.                          *)
Follows(f, i) ==
  \E j \in 0 .. (i - 1) : /\ LastReadable(f, i - 1, j)
                          /\ f[i].seq = Head0(f, j).seq + 1
                          /\ f[i].prev = Head0(f, j).hash

(* readLine counts the terminator against the cap: the chunk that          *)
(* ReadSlice returns includes it. A fragment is shorter than its record.   *)
TooLong(ln) == Readable(ln) /\ SizeOf[ln.id] + 1 > MaxRecordBytes

(* The lines at which a walk can stop as INVALID.                          *)
Broken(f, i) == TooLong(f[i]) \/ (Readable(f[i]) /\ ~ Follows(f, i))
WalkFailed(f) == \E i \in 1 .. Len(f) : Broken(f, i)
=============================================================================
