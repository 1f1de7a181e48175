--------------------------- MODULE EvidenceVerify ---------------------------
(***************************************************************************)
(* An evidence log that others than the drill can write to, and the two    *)
(* programs that check it: `probavi evidence verify`                       *)
(* (internal/evidence/verify.go, anchor.go, witness.go) and the            *)
(* independent verifier written from the specification alone               *)
(* (spec/evidence). The key holder signs records onto whatever chain the   *)
(* file holds; anybody else may remove, move, replay, tear and invent      *)
(* lines, without the key.                                                 *)
(*                                                                         *)
(* A line is what its reader can tell of it:                               *)
(*   "record"    the canonical bytes of the signed record `id`             *)
(*   "forged"    a canonical record with seq and prev of somebody's        *)
(*               choosing and no signature the keyring accepts             *)
(*   "foreign"   a JSON object of another schema or not in canonical form  *)
(*   "value"     JSON that is not an object                                *)
(*   "fragment"  not JSON                                                  *)
(* together with whether a newline ends it, and with its length: `excess`  *)
(* is 0 when it is shorter than a record may be, 1 when it is as long, and *)
(* 2 or 3 when it is one byte or more too long. SHA-256 is collision free, *)
(* so a number that tells lines apart stands for their hash; 0 is the      *)
(* genesis hash.                                                           *)
(***************************************************************************)
EXTENDS Integers, Sequences

CONSTANTS
  MaxSigned,   (* bound: records the key holder signs                       *)
  MaxLines,    (* bound: lines in the file                                  *)
  MaxEdits,    (* bound: changes somebody else makes                        *)
  Inventions,  (* the kinds of line somebody invents                        *)
  Excesses     (* and their lengths                                         *)

ASSUME VerifyAssumption ==
  /\ MaxSigned \in Nat /\ MaxLines \in Nat /\ MaxEdits \in Nat
  /\ Inventions \subseteq {"forged", "foreign", "value", "fragment"}
  /\ Excesses \subseteq 0 .. 3

VARIABLES
  file,     (* the lines of the log                                         *)
  signed,   (* what was signed, by id: chain fields, and the chain it ended *)
  anchor,   (* a head an earlier verification printed and somebody kept     *)
  edits     (* changes made so far                                          *)

vars == <<file, signed, anchor, edits>>

GenesisHead == [seq |-> 0, hash |-> 0]
None == [seq |-> -1, hash |-> 0]

LineOf(what, id, seq, prev, excess) ==
  [what |-> what, id |-> id, seq |-> seq, prev |-> prev, nl |-> TRUE, excess |-> excess]
RecordLine(id) == LineOf("record", id, signed[id].seq, signed[id].prev, signed[id].excess)

(* The bytes read for a line, its newline among them, beyond one less than *)
(* a record may have.                                                      *)
bytesOf(ln) == ln.excess + (IF ln.nl THEN 1 ELSE 0)

(* The hash of a record's line: positive for a signed record, negative for *)
(* a forged one, which follows a signed one or none.                       *)
lineHash(ln) == IF ln.what = "record" THEN ln.id ELSE -(ln.seq * (MaxSigned + 1) + ln.prev)

-----------------------------------------------------------------------------
(* `probavi evidence verify`, and, without a keyring, the writer's Open.   *)

head(w) == [seq |-> w.nextSeq - 1, hash |-> w.prevHash]

invalid(w, lineNo) == [w EXCEPT !.failed = TRUE, !.failedLine = lineNo]

damage(w, lineNo) == [w EXCEPT !.damaged = @ \cup {lineNo}]

checkAnchor(w, a, lineNo) ==
  IF a = None \/ w.anchorSeen \/ head(w).seq # a.seq THEN w
  ELSE LET seen == [w EXCEPT !.anchorSeen = TRUE]
       IN  IF head(w) = a THEN seen ELSE invalid(seen, lineNo)

(* mutant: a log that stops before the anchor is not looked at             *)
checkTruncatedNever(w, a) == w

checkTruncated(w, a) ==
  IF a = None \/ w.anchorSeen \/ w.failed THEN w ELSE invalid(w, 0)

(* readLine counts the newline against the length of a record.             *)
tooLong(ln) == bytesOf(ln) > 1

(* The lines parseCanonical refuses, and those it counts as damage.        *)
Refused(ln) == ln.what \in {"value", "foreign"}
Unparseable(ln) == ln.what = "fragment"

(* mutant: a torn tail that is complete but for its newline counts         *)
stepTornTail(w, ln, lineNo, keyed, a) ==
  IF tooLong(ln) \/ Refused(ln) THEN invalid(w, lineNo)
  ELSE IF Unparseable(ln) THEN damage(w, lineNo)
  ELSE IF \/ ln.seq # w.nextSeq \/ ln.prev # w.prevHash
          \/ keyed /\ ln.what = "forged" THEN invalid(w, lineNo)
  ELSE checkAnchor([w EXCEPT !.prevHash = lineHash(ln), !.nextSeq = @ + 1, !.records = @ + 1], a, lineNo)

(* readLine's verdict comes first, then the missing newline, then step.    *)
step(w, ln, lineNo, keyed, a) ==
  IF tooLong(ln) THEN invalid(w, lineNo)
  ELSE IF ~ ln.nl THEN damage(w, lineNo)
  ELSE IF Refused(ln) THEN invalid(w, lineNo)
  ELSE IF Unparseable(ln) THEN damage(w, lineNo)
  ELSE IF \/ ln.seq # w.nextSeq \/ ln.prev # w.prevHash
          \/ keyed /\ ln.what = "forged" THEN invalid(w, lineNo)
  ELSE checkAnchor([w EXCEPT !.prevHash = lineHash(ln), !.nextSeq = @ + 1, !.records = @ + 1], a, lineNo)

start == [nextSeq |-> 1, prevHash |-> 0, records |-> 0, damaged |-> {},
          failed |-> FALSE, failedLine |-> 0, anchorSeen |-> FALSE]

(* The walk after each line; it stays where it failed.                     *)
advance(w, ln, lineNo, keyed, a) == IF w.failed THEN w ELSE step(w, ln, lineNo, keyed, a)

walked(f, keyed, a) ==
  LET after[n \in 0 .. Len(f)] ==
        IF n = 0 THEN checkAnchor(start, a, 0) ELSE advance(after[n - 1], f[n], n, keyed, a)
  IN  after

walk(f, keyed, a) == checkTruncated(walked(f, keyed, a)[Len(f)], a)

Status(failed, damaged) ==
  IF failed THEN "INVALID" ELSE IF damaged # {} THEN "VALID_WITH_DAMAGE" ELSE "VALID"

Verify(f, a) ==
  LET w == walk(f, TRUE, a)
  IN  [status |-> Status(w.failed, w.damaged), records |-> w.records, damaged |-> w.damaged,
       line |-> w.failedLine, head |-> head(w)]

-----------------------------------------------------------------------------
(* The independent verifier: one loop, with the head as its only state of  *)
(* the chain and the anchor looked at from outside it.                     *)

(* readCappedLine does not count the newline.                              *)
oversized(ln) == bytesOf(ln) > 2

(* parseRecord: an object, or damage.                                      *)
parseRecord(ln) == ln.what \notin {"fragment", "value"}

verifyRecord(ln, h) ==
  /\ ln.what # "foreign"
  /\ ln.seq = h.seq + 1
  /\ ln.prev = h.hash
  /\ ln.what # "forged"

(* A line that is read as a record.                                        *)
Parsed(ln) == ln.nl /\ parseRecord(ln) /\ ~ oversized(ln)

(* The heads the walk carries, line by line.                               *)
follow(h, ln) == IF Parsed(ln) /\ verifyRecord(ln, h) THEN [seq |-> h.seq + 1, hash |-> lineHash(ln)] ELSE h

Heads(f) ==
  LET at[n \in 0 .. Len(f)] == IF n = 0 THEN GenesisHead ELSE follow(at[n - 1], f[n])
  IN  at

(* The lines at which it stops, 0 for the head before the first: a line    *)
(* that is too long, a record that does not follow, a head the anchor      *)
(* denies.                                                                 *)
Stops(f, a) ==
  {n \in DOMAIN f : oversized(f[n])}
  \cup {n \in DOMAIN f : Parsed(f[n]) /\ ~ verifyRecord(f[n], Heads(f)[n - 1])}
  \cup {n \in 0 .. Len(f) : a # None /\ Heads(f)[n].seq = a.seq /\ Heads(f)[n] # a}

VerifyAnchored(f, a) ==
  LET Bad == Stops(f, a)
      stop == IF Bad = {} THEN Len(f) ELSE CHOOSE n \in Bad : \A k \in Bad : n <= k
      missed == a # None /\ Bad = {} /\ \A n \in 0 .. Len(f) : Heads(f)[n].seq # a.seq
      damagedLines == {n \in DOMAIN f : n <= stop /\ ~ Parsed(f[n]) /\ ~ oversized(f[n])}
  IN  [status |-> Status(Bad # {} \/ missed, damagedLines), records |-> Heads(f)[stop].seq,
       damaged |-> damagedLines, line |-> IF Bad = {} THEN 0 ELSE stop, head |-> Heads(f)[stop]]

-----------------------------------------------------------------------------
Init == file = <<>> /\ signed = <<>> /\ anchor = None /\ edits = 0

(* Open closes a torn tail.                                                *)
Closed(f) == IF f = <<>> THEN f ELSE [f EXCEPT ![Len(f)].nl = TRUE]

(* The records Open's walk reads.                                          *)
IsRecord(ln) == ln.nl /\ ln.what \in {"record", "forged"}
extend(chain, ln) == IF IsRecord(ln) THEN Append(chain, lineHash(ln)) ELSE chain
Chains(f) ==
  LET upto[n \in 0 .. Len(f)] == IF n = 0 THEN <<>> ELSE extend(upto[n - 1], f[n])
  IN  upto
Chain(f) == Chains(f)[Len(f)]

(* A drill opens the log and appends a record, as long as one may be or    *)
(* shorter; the append may be cut short, inside the record or before its   *)
(* newline.                                                                *)
Sign(left, excess) ==
  LET f == Closed(file)
      w == walk(f, FALSE, None)
      id == Len(signed) + 1
      ln == LineOf("record", id, w.nextSeq, w.prevHash, excess)
  IN  /\ id <= MaxSigned /\ Len(file) < MaxLines
      /\ ~ w.failed
      /\ signed' = Append(signed, [seq |-> w.nextSeq, prev |-> w.prevHash, excess |-> excess,
                                   lineage |-> Append(Chain(f), id)])
      /\ file' = Append(f, CASE left = "all" -> ln
                             [] left = "unterminated" -> [ln EXCEPT !.nl = FALSE]
                             [] left = "fragment" -> [ln EXCEPT !.what = "fragment", !.nl = FALSE, !.excess = 0])
      /\ UNCHANGED <<anchor, edits>>

(* Open refuses a chain that is broken, after it closed the tail.          *)
OpenRefused ==
  /\ walk(Closed(file), FALSE, None).failed
  /\ file' = Closed(file)
  /\ UNCHANGED <<signed, anchor, edits>>

(* Somebody else with access to the file. A torn tail takes whatever is    *)
(* put behind it, so lines are put before it.                              *)
Invented ==
  {LineOf(what, 0, 0, 0, e) : what \in Inventions \ {"forged"}, e \in Excesses}
  \cup (IF "forged" \notin Inventions THEN {}
        ELSE {LineOf("forged", 0, s, h, 0) : s \in 1 .. MaxSigned, h \in 0 .. Len(signed)})

Removed(f, i) == [n \in 1 .. Len(f) - 1 |-> IF n < i THEN f[n] ELSE f[n + 1]]
Inserted(f, i, ln) == [n \in 1 .. Len(f) + 1 |-> IF n < i THEN f[n] ELSE IF n = i THEN ln ELSE f[n - 1]]

Edit ==
  /\ edits < MaxEdits
  /\ edits' = edits + 1
  /\ \/ \E i \in DOMAIN file : file' = Removed(file, i)
     \/ \E i \in 1 .. Len(file) - 1 :
          /\ file[Len(file)].nl
          /\ file' = [file EXCEPT ![i] = file[i + 1], ![i + 1] = file[i]]
     \/ \E i \in 1 .. Len(file) + 1, ln \in Invented \cup {RecordLine(id) : id \in DOMAIN signed} :
          /\ Len(file) < MaxLines
          /\ i = Len(file) + 1 => file = Closed(file)
          /\ file' = Inserted(file, i, ln)
     \/ /\ file # <<>>
        /\ file' = [file EXCEPT ![Len(file)].nl = FALSE]
  /\ UNCHANGED <<signed, anchor>>

(* A verification that is not INVALID prints the anchor for the next one.  *)
KeepAnchor ==
  /\ Verify(file, anchor).status # "INVALID"
  /\ anchor' = Verify(file, anchor).head
  /\ UNCHANGED <<file, signed, edits>>

Next ==
  \/ \E left \in {"all", "unterminated", "fragment"}, excess \in {0, 1} : Sign(left, excess)
  \/ OpenRefused
  \/ Edit
  \/ KeepAnchor

Spec == Init /\ [][Next]_vars

-----------------------------------------------------------------------------
(* Type correctness.                                                       *)
Kinds == {"record", "forged", "foreign", "value", "fragment"}
Line == [what : Kinds, id : Nat, seq : Nat, prev : Int, nl : BOOLEAN, excess : 0 .. 3]
Signature == [seq : Nat, prev : Int, excess : {0, 1}, lineage : Seq(Int)]
TypeOK ==
  /\ file \in Seq(Line) /\ signed \in Seq(Signature)
  /\ anchor \in [seq : Int, hash : Int] /\ edits \in 0 .. MaxEdits

(* A record's line is of a record that was signed, and says what was       *)
(* signed.                                                                 *)
Sound(ln, sg) ==
  /\ ln.what = "record" =>
       /\ ln.id \in DOMAIN sg
       /\ ln.seq = sg[ln.id].seq /\ ln.prev = sg[ln.id].prev
  /\ ln.what = "forged" => ln.seq > 0 /\ ln.prev >= 0
LinesInv == \A n \in DOMAIN file : Sound(file[n], signed)

(* The last of a chain of hashes, as prev_hash of what follows them.       *)
Last0(chain) == IF chain = <<>> THEN 0 ELSE chain[Len(chain)]

(* Each signed record of a chain has the place its seq says and follows    *)
(* the one its prev_hash says.                                             *)
Linked(chain, sg) ==
  \A k \in DOMAIN chain : chain[k] > 0 =>
    /\ chain[k] \in DOMAIN sg
    /\ sg[chain[k]].seq = k
    /\ sg[chain[k]].prev = IF k = 1 THEN 0 ELSE chain[k - 1]

(* What was signed is the end of the chain it was signed onto.             *)
LineageInv ==
  \A id \in DOMAIN signed :
    LET s == signed[id]
    IN  /\ Len(s.lineage) = s.seq /\ s.seq > 0 /\ s.lineage[s.seq] = id
        /\ Linked(s.lineage, signed)

AnchorInv == anchor = None \/ anchor = GenesisHead \/ anchor.seq > 0

VerifyInv == TypeOK /\ LinesInv /\ LineageInv /\ AnchorInv

(* What a log may be said to be: everything in it that is a record was     *)
(* signed, and the records are those the log held when the last of them    *)
(* was signed, in that order, with nothing taken out, put in or moved.     *)
Genuine(f) ==
  LET Objects == {n \in DOMAIN f : f[n].nl /\ f[n].what \in {"record", "forged", "foreign"}}
      chain == Chain(f)
  IN  /\ \A n \in DOMAIN f : ~ oversized(f[n])
      /\ \A n \in Objects : f[n].what = "record"
      /\ chain # <<>> => chain = signed[chain[Len(chain)]].lineage

(* And it still holds the record the anchor was taken of, at its place.    *)
Reaches(f, a) ==
  a.seq > 0 => Len(Chain(f)) >= a.seq /\ Chain(f)[a.seq] = a.hash

(* The lines `probavi evidence verify` does not read as                    *)
(* docs/evidence-schema.md section 9 has them read: JSON that is not an    *)
(* object, which is damage there, and a line as long as a record may be,   *)
(* or an unterminated one of a byte more, which is not too long there.     *)
Misread(ln) == (tooLong(ln) /\ ~ oversized(ln)) \/ (ln.what = "value" /\ ln.nl /\ ~ oversized(ln))

(* The verdict of the specification's verifier, with the anchor and        *)
(* without: INVALID exactly for a log that was tampered with, and never    *)
(* because of the damage a crash leaves behind or because the log has      *)
(* grown. That of `probavi evidence verify` is the same, but that a        *)
(* misread line is always tampering to it.                                 *)
VerdictIsRight ==
  \A a \in {None, GenesisHead, anchor} :
    LET untouched == Genuine(file) /\ Reaches(file, a)
    IN  /\ VerifyAnchored(file, a).status # "INVALID" <=> untouched
        /\ Verify(file, a).status # "INVALID" <=>
             untouched /\ \A n \in DOMAIN file : ~ Misread(file[n])

(* The log as `probavi evidence verify` takes it: an object of no schema   *)
(* in the place of every misread line.                                     *)
Taken(ln) == IF Misread(ln) THEN [ln EXCEPT !.what = "foreign", !.nl = TRUE, !.excess = 0] ELSE ln
TakenFile(f) == [n \in DOMAIN f |-> Taken(f[n])]

(* The two verifiers come to the same result on the same bytes, in every   *)
(* field that carries a verdict: counts, damaged lines, the line at fault  *)
(* and the head; but for the misread lines, at the first of which          *)
(* `probavi evidence verify` stops as the other does at a foreign object.  *)
VerifiersAgree ==
  \A a \in {None, GenesisHead, anchor} : Verify(file, a) = VerifyAnchored(TakenFile(file), a)
=============================================================================
