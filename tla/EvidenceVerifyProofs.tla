------------------------- MODULE EvidenceVerifyProofs -------------------------
(***************************************************************************)
(* Proofs about EvidenceVerify for logs of any length and any history of   *)
(* signatures, crashes and changes by somebody without the key.            *)
(*                                                                         *)
(* Induction over the lines of a log is a least counterexample: a set of   *)
(* line numbers at which a claim fails has a least element (NatLeast), and *)
(* the claim is shown for it from the line before.                         *)
(***************************************************************************)
EXTENDS EvidenceVerify, NaturalsInduction, WellFoundedInduction, TLAPS

LEMMA NatLeast ==
  ASSUME NEW T, T \subseteq Nat, T # {}
  PROVE  \E x \in T : \A y \in T : x <= y
<1>1. IsWellFoundedOn(OpToRel(<, Nat), Nat)
  BY NatLessThanWellFounded
<1>2. PICK x \in T : \A y \in T : ~ (<<y, x>> \in OpToRel(<, Nat))
  BY <1>1, WFMin, Zenon
<1>3. \A y \in T : <<y, x>> \in OpToRel(<, Nat) <=> y < x
  BY DEF OpToRel
<1>4. \A y \in T : x \in Nat /\ y \in Nat /\ ~ (y < x)
  BY <1>2, <1>3
<1>5. \A y \in T : x <= y
  BY <1>4
<1> QED  BY <1>5

(* A set of numbers that holds 0, and n + 1 whenever it holds n, holds     *)
(* every number up to N.                                                   *)
LEMMA Upwards ==
  ASSUME NEW N \in Nat, NEW G,
         0 \in G, \A n \in 1 .. N : n - 1 \in G => n \in G
  PROVE  \A n \in 0 .. N : n \in G
<1> DEFINE T == {n \in 0 .. N : n \notin G}
<1> SUFFICES ASSUME T # {} PROVE FALSE
  OBVIOUS
<1>1. T \subseteq Nat
  OBVIOUS
<1>2. PICK x \in T : \A y \in T : x <= y
  BY <1>1, NatLeast
<1>3. x \in 0 .. N /\ x \notin G /\ x # 0
  BY <1>2
<1>4. x \in 1 .. N /\ x - 1 \in 0 .. N /\ ~ (x <= x - 1)
  BY <1>3
<1>5. x - 1 \notin T
  BY <1>2, <1>4
<1> QED  BY <1>3, <1>4, <1>5

-----------------------------------------------------------------------------
(* The walks are the functions their equations describe: for every number  *)
(* of lines there is a function that satisfies the equations that far.     *)
LEMMA WalkedDef ==
  ASSUME NEW f, NEW keyed, NEW a, Len(f) \in Nat
  PROVE  /\ walked(f, keyed, a)[0] = checkAnchor(start, a, 0)
         /\ \A n \in 1 .. Len(f) :
              walked(f, keyed, a)[n] = advance(walked(f, keyed, a)[n - 1], f[n], n, keyed, a)
<1> DEFINE Eq(g, N) == g = [n \in 0 .. N |-> IF n = 0 THEN checkAnchor(start, a, 0)
                                              ELSE advance(g[n - 1], f[n], n, keyed, a)]
           G == {N \in Nat : \E g : Eq(g, N)}
<1>1. 0 \in G
  <2> DEFINE g == [n \in 0 .. 0 |-> checkAnchor(start, a, 0)]
  <2>1. Eq(g, 0)
    OBVIOUS
  <2> QED  BY <2>1
<1>2. ASSUME NEW N \in 1 .. Len(f), N - 1 \in G
      PROVE  N \in G
  <2>1. PICK g : Eq(g, N - 1)
    BY <1>2
  <2> DEFINE h == [n \in 0 .. N |-> IF n < N THEN g[n] ELSE advance(g[N - 1], f[N], N, keyed, a)]
  <2>2. \A n \in 0 .. N - 1 : h[n] = g[n]
    OBVIOUS
  <2>3. ASSUME NEW n \in 0 .. N
        PROVE  h[n] = IF n = 0 THEN checkAnchor(start, a, 0) ELSE advance(h[n - 1], f[n], n, keyed, a)
    <3>1. CASE n < N
      <4>1. h[n] = g[n] /\ n \in 0 .. N - 1 /\ (n # 0 => n - 1 \in 0 .. N - 1)
        BY <3>1
      <4>2. g[n] = IF n = 0 THEN checkAnchor(start, a, 0) ELSE advance(g[n - 1], f[n], n, keyed, a)
        BY <2>1, <4>1
      <4> QED  BY <2>2, <4>1, <4>2
    <3>2. CASE n = N
      <4>1. n # 0 /\ N - 1 \in 0 .. N - 1 /\ h[N] = advance(g[N - 1], f[N], N, keyed, a)
        BY <3>2
      <4> QED  BY <2>2, <3>2, <4>1
    <3> QED  BY <3>1, <3>2
  <2>4. \E k : Eq(k, N)
    BY <2>3
  <2> HIDE DEF Eq
  <2> QED  BY <2>4
<1>3. Len(f) \in G
  <2> HIDE DEF G
  <2>1. \A n \in 0 .. Len(f) : n \in G
    BY <1>1, <1>2, Upwards
  <2> QED  BY <2>1
<1>4. PICK g : Eq(g, Len(f))
  BY <1>3
<1> DEFINE P(h) == Eq(h, Len(f))
<1>5. walked(f, keyed, a) = CHOOSE h : P(h)
  BY DEF walked
<1>6. P(walked(f, keyed, a))
  <2> HIDE DEF Eq
  <2> QED  BY <1>4, <1>5
<1> QED  BY <1>6

LEMMA HeadsDef ==
  ASSUME NEW f, Len(f) \in Nat
  PROVE  /\ Heads(f)[0] = GenesisHead
         /\ \A n \in 1 .. Len(f) :
              Heads(f)[n] = follow(Heads(f)[n - 1], f[n])
<1> DEFINE Eq(g, N) == g = [n \in 0 .. N |-> IF n = 0 THEN GenesisHead
                                              ELSE follow(g[n - 1], f[n])]
           G == {N \in Nat : \E g : Eq(g, N)}
<1>1. 0 \in G
  <2> DEFINE g == [n \in 0 .. 0 |-> GenesisHead]
  <2>1. Eq(g, 0)
    OBVIOUS
  <2> QED  BY <2>1
<1>2. ASSUME NEW N \in 1 .. Len(f), N - 1 \in G
      PROVE  N \in G
  <2>1. PICK g : Eq(g, N - 1)
    BY <1>2
  <2> DEFINE h == [n \in 0 .. N |-> IF n < N THEN g[n] ELSE follow(g[N - 1], f[N])]
  <2>2. \A n \in 0 .. N - 1 : h[n] = g[n]
    OBVIOUS
  <2>3. ASSUME NEW n \in 0 .. N
        PROVE  h[n] = IF n = 0 THEN GenesisHead ELSE follow(h[n - 1], f[n])
    <3>1. CASE n < N
      <4>1. h[n] = g[n] /\ n \in 0 .. N - 1 /\ (n # 0 => n - 1 \in 0 .. N - 1)
        BY <3>1
      <4>2. g[n] = IF n = 0 THEN GenesisHead ELSE follow(g[n - 1], f[n])
        BY <2>1, <4>1
      <4> QED  BY <2>2, <4>1, <4>2
    <3>2. CASE n = N
      <4>1. n # 0 /\ N - 1 \in 0 .. N - 1 /\ h[N] = follow(g[N - 1], f[N])
        BY <3>2
      <4> QED  BY <2>2, <3>2, <4>1
    <3> QED  BY <3>1, <3>2
  <2>4. \E k : Eq(k, N)
    BY <2>3
  <2> HIDE DEF Eq
  <2> QED  BY <2>4
<1>3. Len(f) \in G
  <2> HIDE DEF G
  <2>1. \A n \in 0 .. Len(f) : n \in G
    BY <1>1, <1>2, Upwards
  <2> QED  BY <2>1
<1>4. PICK g : Eq(g, Len(f))
  BY <1>3
<1> DEFINE P(h) == Eq(h, Len(f))
<1>5. Heads(f) = CHOOSE h : P(h)
  BY DEF Heads
<1>6. P(Heads(f))
  <2> HIDE DEF Eq
  <2> QED  BY <1>4, <1>5
<1> QED  BY <1>6

LEMMA ChainsDef ==
  ASSUME NEW f, Len(f) \in Nat
  PROVE  /\ Chains(f)[0] = <<>>
         /\ \A n \in 1 .. Len(f) :
              Chains(f)[n] = extend(Chains(f)[n - 1], f[n])
<1> DEFINE Eq(g, N) == g = [n \in 0 .. N |-> IF n = 0 THEN <<>>
                                              ELSE extend(g[n - 1], f[n])]
           G == {N \in Nat : \E g : Eq(g, N)}
<1>1. 0 \in G
  <2> DEFINE g == [n \in 0 .. 0 |-> <<>>]
  <2>1. Eq(g, 0)
    OBVIOUS
  <2> QED  BY <2>1
<1>2. ASSUME NEW N \in 1 .. Len(f), N - 1 \in G
      PROVE  N \in G
  <2>1. PICK g : Eq(g, N - 1)
    BY <1>2
  <2> DEFINE h == [n \in 0 .. N |-> IF n < N THEN g[n] ELSE extend(g[N - 1], f[N])]
  <2>2. \A n \in 0 .. N - 1 : h[n] = g[n]
    OBVIOUS
  <2>3. ASSUME NEW n \in 0 .. N
        PROVE  h[n] = IF n = 0 THEN <<>> ELSE extend(h[n - 1], f[n])
    <3>1. CASE n < N
      <4>1. h[n] = g[n] /\ n \in 0 .. N - 1 /\ (n # 0 => n - 1 \in 0 .. N - 1)
        BY <3>1
      <4>2. g[n] = IF n = 0 THEN <<>> ELSE extend(g[n - 1], f[n])
        BY <2>1, <4>1
      <4> QED  BY <2>2, <4>1, <4>2
    <3>2. CASE n = N
      <4>1. n # 0 /\ N - 1 \in 0 .. N - 1 /\ h[N] = extend(g[N - 1], f[N])
        BY <3>2
      <4> QED  BY <2>2, <3>2, <4>1
    <3> QED  BY <3>1, <3>2
  <2>4. \E k : Eq(k, N)
    BY <2>3
  <2> HIDE DEF Eq
  <2> QED  BY <2>4
<1>3. Len(f) \in G
  <2> HIDE DEF G
  <2>1. \A n \in 0 .. Len(f) : n \in G
    BY <1>1, <1>2, Upwards
  <2> QED  BY <2>1
<1>4. PICK g : Eq(g, Len(f))
  BY <1>3
<1> DEFINE P(h) == Eq(h, Len(f))
<1>5. Chains(f) = CHOOSE h : P(h)
  BY DEF Chains
<1>6. P(Chains(f))
  <2> HIDE DEF Eq
  <2> QED  BY <1>4, <1>5
<1> QED  BY <1>6

-----------------------------------------------------------------------------
ChainHead == [seq : Nat, hash : Int]
Walks == [nextSeq : Nat, prevHash : Int, records : Nat, damaged : SUBSET Nat,
          failed : BOOLEAN, failedLine : Nat, anchorSeen : BOOLEAN]

(* Hashes are numbers; those of forged records are negative.               *)
LEMMA HashOfLine ==
  ASSUME NEW ln \in Line
  PROVE  /\ lineHash(ln) \in Int
         /\ ln.what = "record" => lineHash(ln) = ln.id
         /\ ln.what = "forged" /\ ln.seq > 0 /\ ln.prev >= 0 => lineHash(ln) < 0
<1>1. MaxSigned + 1 \in Nat \ {0} /\ ln.seq \in Nat /\ ln.prev \in Int /\ ln.id \in Nat
  BY VerifyAssumption DEF Line
<1>2. \A s \in Nat, m \in Nat \ {0} : s * m \in Nat /\ (s > 0 => s * m > 0)
  BY SMT
<1>3. ln.seq * (MaxSigned + 1) \in Nat /\ (ln.seq > 0 => ln.seq * (MaxSigned + 1) > 0)
  BY <1>1, <1>2
<1> DEFINE p == ln.seq * (MaxSigned + 1)
<1>4. lineHash(ln) = IF ln.what = "record" THEN ln.id ELSE -(p + ln.prev)
  BY DEF lineHash
<1> HIDE DEF p
<1>5. p \in Nat /\ (ln.seq > 0 => p > 0)
  BY <1>3 DEF p
<1> QED  BY <1>1, <1>4, <1>5

LEMMA FollowHead ==
  ASSUME NEW h \in ChainHead, NEW ln \in Line
  PROVE  /\ follow(h, ln) \in ChainHead
         /\ follow(h, ln) = h \/ follow(h, ln).seq = h.seq + 1
         /\ Parsed(ln) /\ verifyRecord(ln, h) =>
              follow(h, ln).seq = h.seq + 1 /\ follow(h, ln).hash = lineHash(ln)
         /\ ~ (Parsed(ln) /\ verifyRecord(ln, h)) => follow(h, ln) = h
<1>1. lineHash(ln) \in Int
  BY HashOfLine
<1>2. CASE Parsed(ln) /\ verifyRecord(ln, h)
  BY <1>1, <1>2 DEF follow, ChainHead
<1>3. CASE ~ (Parsed(ln) /\ verifyRecord(ln, h))
  BY <1>3 DEF follow
<1> QED  BY <1>2, <1>3

(* A log's heads are numbered from 0 without a gap, and go up or stay.     *)
LEMMA HeadsType ==
  ASSUME NEW f \in Seq(Line)
  PROVE  \A n \in 0 .. Len(f) : Heads(f)[n] \in ChainHead
<1>1. Len(f) \in Nat
  OBVIOUS
<1> DEFINE G == {n \in 0 .. Len(f) : Heads(f)[n] \in ChainHead}
<1>2. 0 \in G
  BY <1>1, HeadsDef DEF GenesisHead, ChainHead
<1>3. ASSUME NEW n \in 1 .. Len(f), n - 1 \in G
      PROVE  n \in G
  <2>1. f[n] \in Line
    OBVIOUS
  <2>2. Heads(f)[n] = follow(Heads(f)[n - 1], f[n])
    BY <1>1, HeadsDef
  <2> QED  BY <1>3, <2>1, <2>2, FollowHead
<1> HIDE DEF G
<1>4. \A n \in 0 .. Len(f) : n \in G
  BY <1>1, <1>2, <1>3, Upwards
<1> QED  BY <1>4 DEF G

LEMMA HeadsStep ==
  ASSUME NEW f \in Seq(Line), NEW n \in 1 .. Len(f)
  PROVE  /\ n - 1 \in 0 .. Len(f) /\ n \in 0 .. Len(f) /\ f[n] \in Line
         /\ Heads(f)[n] \in ChainHead /\ Heads(f)[n - 1] \in ChainHead
         /\ Heads(f)[n] = follow(Heads(f)[n - 1], f[n])
         /\ Heads(f)[n] = Heads(f)[n - 1] \/ Heads(f)[n].seq = Heads(f)[n - 1].seq + 1
<1>1. Len(f) \in Nat /\ n - 1 \in 0 .. Len(f) /\ n \in 0 .. Len(f) /\ f[n] \in Line
  OBVIOUS
<1>2. Heads(f)[n] = follow(Heads(f)[n - 1], f[n])
  BY <1>1, HeadsDef
<1>3. Heads(f)[n] \in ChainHead /\ Heads(f)[n - 1] \in ChainHead
  BY <1>1, HeadsType
<1> QED  BY <1>1, <1>2, <1>3, FollowHead

(* Two heads of a log with the same number are the same head, and between  *)
(* the first head and one with a higher number is one with each number.    *)
LEMMA HeadsContiguous ==
  ASSUME NEW f \in Seq(Line)
  PROVE  \A n \in 0 .. Len(f) :
           /\ \A m \in 0 .. n : Heads(f)[m].seq <= Heads(f)[n].seq
           /\ \A m \in 0 .. n : Heads(f)[m].seq = Heads(f)[n].seq => Heads(f)[m] = Heads(f)[n]
           /\ \A s \in 0 .. Heads(f)[n].seq : \E m \in 0 .. n : Heads(f)[m].seq = s
<1> DEFINE H(n) == Heads(f)[n]
           P(n) == /\ \A m \in 0 .. n : H(m).seq <= H(n).seq
                   /\ \A m \in 0 .. n : H(m).seq = H(n).seq => H(m) = H(n)
                   /\ \A s \in 0 .. H(n).seq : \E m \in 0 .. n : H(m).seq = s
           G == {n \in 0 .. Len(f) : P(n)}
<1>1. Len(f) \in Nat /\ H(0) = GenesisHead
  BY HeadsDef
<1>2. \A n \in 0 .. Len(f) : H(n) \in ChainHead /\ H(n).seq \in Nat
  BY HeadsType DEF ChainHead
<1>3. 0 \in G
  <2>1. H(0).seq = 0 /\ 0 .. 0 = {0} /\ 0 \in 0 .. Len(f)
    BY <1>1 DEF GenesisHead
  <2> HIDE DEF H
  <2>2. P(0)
    BY <2>1
  <2> QED  BY <2>1, <2>2
<1>4. ASSUME NEW n \in 1 .. Len(f), n - 1 \in G
      PROVE  n \in G
  <2>1. n - 1 \in 0 .. Len(f) /\ n \in 0 .. Len(f)
        /\ (H(n) = H(n - 1) \/ H(n).seq = H(n - 1).seq + 1)
    BY HeadsStep
  <2>2. P(n - 1)
    BY <1>4
  <2>3. 0 .. n = (0 .. n - 1) \cup {n} /\ 0 .. n \subseteq 0 .. Len(f)
    OBVIOUS
  <2>4. \A m \in 0 .. n : H(m).seq \in Nat
    BY <1>2, <2>3
  <2> HIDE DEF H
  <2>5. \A m \in 0 .. n : H(m).seq <= H(n).seq
    BY <2>1, <2>2, <2>3, <2>4
  <2>6. \A m \in 0 .. n : H(m).seq = H(n).seq => H(m) = H(n)
    BY <2>1, <2>2, <2>3, <2>4
  <2>7. \A s \in 0 .. H(n).seq : \E m \in 0 .. n : H(m).seq = s
    <3> SUFFICES ASSUME NEW s \in 0 .. H(n).seq PROVE \E m \in 0 .. n : H(m).seq = s
      OBVIOUS
    <3>1. CASE s = H(n).seq
      BY <3>1
    <3>2. CASE s # H(n).seq
      <4>1. s \in 0 .. H(n - 1).seq
        BY <2>1, <2>3, <2>4, <3>2
      <4> QED  BY <2>2, <2>3, <4>1
    <3> QED  BY <3>1, <3>2
  <2> QED  BY <2>1, <2>5, <2>6, <2>7
<1> HIDE DEF G
<1>5. \A n \in 0 .. Len(f) : n \in G
  BY <1>1, <1>3, <1>4, Upwards
<1> QED  BY <1>5 DEF G

-----------------------------------------------------------------------------
(* The two walks, line by line.                                            *)
Dam(f, n) == {k \in DOMAIN f : k <= n /\ ~ Parsed(f[k]) /\ ~ oversized(f[k])}

(* `probavi evidence verify` after line n of a log on which the            *)
(* independent verifier does not stop before.                              *)
Running(f, a, n) ==
  [nextSeq |-> Heads(f)[n].seq + 1, prevHash |-> Heads(f)[n].hash, records |-> Heads(f)[n].seq,
   damaged |-> Dam(f, n), failed |-> FALSE, failedLine |-> 0,
   anchorSeen |-> (a # None /\ a.seq <= Heads(f)[n].seq)]

(* And after a line m on which it stops.                                   *)
Stopped(w, f, m) ==
  /\ w \in Walks /\ w.failed /\ w.failedLine = m
  /\ w.records = Heads(f)[m].seq /\ w.damaged = Dam(f, m) /\ head(w) = Heads(f)[m]

LEMMA WalkFields ==
  ASSUME NEW u \in Walks
  PROVE  /\ u = [nextSeq |-> u.nextSeq, prevHash |-> u.prevHash, records |-> u.records,
                 damaged |-> u.damaged, failed |-> u.failed, failedLine |-> u.failedLine,
                 anchorSeen |-> u.anchorSeen]
         /\ u.nextSeq \in Nat /\ u.records \in Nat /\ u.failed \in BOOLEAN /\ u.anchorSeen \in BOOLEAN
BY DEF Walks

LEMMA WalkInvalid ==
  ASSUME NEW u \in Walks, NEW k \in Nat
  PROVE  /\ invalid(u, k) \in Walks /\ invalid(u, k).failed /\ invalid(u, k).failedLine = k
         /\ invalid(u, k).nextSeq = u.nextSeq /\ invalid(u, k).prevHash = u.prevHash
         /\ invalid(u, k).records = u.records /\ invalid(u, k).damaged = u.damaged
BY DEF Walks, invalid

LEMMA WalkSeen ==
  ASSUME NEW u \in Walks
  PROVE  LET v == [u EXCEPT !.anchorSeen = TRUE]
         IN  /\ v \in Walks /\ v.nextSeq = u.nextSeq /\ v.prevHash = u.prevHash
             /\ v.records = u.records /\ v.damaged = u.damaged /\ v.failed = u.failed
             /\ v.failedLine = u.failedLine /\ v.anchorSeen = TRUE
BY DEF Walks

LEMMA WalkRecord ==
  ASSUME NEW w \in Walks, NEW x \in Int
  PROVE  LET v == [w EXCEPT !.prevHash = x, !.nextSeq = @ + 1, !.records = @ + 1]
         IN  /\ v \in Walks
             /\ v.nextSeq = w.nextSeq + 1 /\ v.prevHash = x /\ v.records = w.records + 1
             /\ v.damaged = w.damaged /\ v.failed = w.failed /\ v.failedLine = w.failedLine
             /\ v.anchorSeen = w.anchorSeen
<1> DEFINE u == [w EXCEPT !.prevHash = x]
           t == [u EXCEPT !.nextSeq = @ + 1]
           v == [t EXCEPT !.records = @ + 1]
<1>1. u \in Walks /\ u.nextSeq = w.nextSeq /\ u.prevHash = x /\ u.records = w.records
      /\ u.damaged = w.damaged /\ u.failed = w.failed /\ u.failedLine = w.failedLine
      /\ u.anchorSeen = w.anchorSeen
  BY DEF Walks
<1> HIDE DEF u
<1>2. t \in Walks /\ t.nextSeq = u.nextSeq + 1 /\ t.prevHash = u.prevHash /\ t.records = u.records
      /\ t.damaged = u.damaged /\ t.failed = u.failed /\ t.failedLine = u.failedLine
      /\ t.anchorSeen = u.anchorSeen
  <2>1. u.nextSeq + 1 \in Nat
    BY <1>1, WalkFields
  <2> QED  BY <1>1, <2>1 DEF Walks
<1> HIDE DEF t
<1>3. v \in Walks /\ v.nextSeq = t.nextSeq /\ v.prevHash = t.prevHash /\ v.records = t.records + 1
      /\ v.damaged = t.damaged /\ v.failed = t.failed /\ v.failedLine = t.failedLine
      /\ v.anchorSeen = t.anchorSeen
  <2>1. t.records + 1 \in Nat
    BY <1>2, WalkFields
  <2> QED  BY <1>2, <2>1 DEF Walks
<1> HIDE DEF v
<1>4. [w EXCEPT !.prevHash = x, !.nextSeq = @ + 1, !.records = @ + 1] = v
  BY DEF v, t, u
<1> QED  BY <1>1, <1>2, <1>3, <1>4

LEMMA LineLengths ==
  ASSUME NEW ln \in Line
  PROVE  /\ bytesOf(ln) \in Nat
         /\ oversized(ln) => tooLong(ln)
<1>1. ln.excess \in 0 .. 3
  BY DEF Line
<1> QED  BY <1>1 DEF bytesOf, oversized, tooLong

(* On a line that is not misread the step is what the specification says.  *)
LEMMA StepCases ==
  ASSUME NEW w \in Walks, NEW ln \in Line, ~ Misread(ln), NEW k \in Nat, NEW a,
         NEW h \in ChainHead, w.nextSeq = h.seq + 1, w.prevHash = h.hash
  PROVE  /\ oversized(ln) => step(w, ln, k, TRUE, a) = invalid(w, k)
         /\ ~ Parsed(ln) /\ ~ oversized(ln) => step(w, ln, k, TRUE, a) = damage(w, k)
         /\ Parsed(ln) /\ ~ verifyRecord(ln, h) => step(w, ln, k, TRUE, a) = invalid(w, k)
         /\ Parsed(ln) /\ verifyRecord(ln, h) =>
              step(w, ln, k, TRUE, a)
              = checkAnchor([w EXCEPT !.prevHash = lineHash(ln), !.nextSeq = @ + 1, !.records = @ + 1], a, k)
<1>1. ln.what \in Kinds /\ ln.nl \in BOOLEAN /\ (tooLong(ln) <=> oversized(ln))
  BY LineLengths DEF Line, Misread
<1>2. Parsed(ln) <=> ln.nl /\ ln.what \in {"record", "forged", "foreign"} /\ ~ oversized(ln)
  BY <1>1 DEF Parsed, parseRecord, Kinds
<1>3. CASE oversized(ln)
  BY <1>1, <1>2, <1>3 DEF step
<1>4. CASE ~ Parsed(ln) /\ ~ oversized(ln)
  <2>1. ~ ln.nl \/ ln.what = "fragment"
    BY <1>1, <1>2, <1>4 DEF Misread, Kinds
  <2> QED  BY <1>1, <1>2, <1>4, <2>1 DEF step, Refused, Unparseable, Kinds
<1>5. CASE Parsed(ln) /\ ~ verifyRecord(ln, h)
  BY <1>1, <1>2, <1>5 DEF step, Refused, Unparseable, verifyRecord
<1>6. CASE Parsed(ln) /\ verifyRecord(ln, h)
  BY <1>1, <1>2, <1>6 DEF step, Refused, Unparseable, verifyRecord
<1> QED  BY <1>2, <1>3, <1>4, <1>5, <1>6

LEMMA AnchorCases ==
  ASSUME NEW v \in Walks, NEW a, a = None \/ a \in ChainHead, NEW k \in Nat,
         NEW g \in ChainHead, v.nextSeq = g.seq + 1, v.prevHash = g.hash
  PROVE  /\ head(v) = g
         /\ a = None \/ v.anchorSeen \/ a.seq # g.seq => checkAnchor(v, a, k) = v
         /\ a # None /\ ~ v.anchorSeen /\ a = g =>
              checkAnchor(v, a, k) = [v EXCEPT !.anchorSeen = TRUE]
         /\ a # None /\ ~ v.anchorSeen /\ a.seq = g.seq /\ a # g =>
              checkAnchor(v, a, k) = invalid([v EXCEPT !.anchorSeen = TRUE], k)
<1>1. head(v) = g
  BY DEF head, ChainHead, Walks
<1> QED  BY <1>1 DEF checkAnchor

LEMMA StopsAt ==
  ASSUME NEW f \in Seq(Line), NEW a
  PROVE  /\ Stops(f, a) \subseteq 0 .. Len(f)
         /\ 0 \in Stops(f, a) <=> a # None /\ a.seq = 0 /\ a # GenesisHead
         /\ \A n \in 1 .. Len(f) :
              n \in Stops(f, a) <=>
                \/ oversized(f[n])
                \/ Parsed(f[n]) /\ ~ verifyRecord(f[n], Heads(f)[n - 1])
                \/ a # None /\ Heads(f)[n].seq = a.seq /\ Heads(f)[n] # a
<1>1. Len(f) \in Nat /\ DOMAIN f = 1 .. Len(f)
  OBVIOUS
<1>2. Heads(f)[0] = GenesisHead
  BY <1>1, HeadsDef
<1>3. 0 \in Stops(f, a) <=> a # None /\ GenesisHead.seq = a.seq /\ GenesisHead # a
  BY <1>1, <1>2 DEF Stops
<1>4. GenesisHead.seq = 0
  BY DEF GenesisHead
<1>5. Stops(f, a) \subseteq 0 .. Len(f)
  BY <1>1 DEF Stops
<1>6. \A n \in 1 .. Len(f) : n \in 0 .. Len(f) /\ n \in DOMAIN f
  BY <1>1
<1>7. ASSUME NEW n \in 1 .. Len(f)
      PROVE  n \in Stops(f, a) <=>
                \/ oversized(f[n])
                \/ Parsed(f[n]) /\ ~ verifyRecord(f[n], Heads(f)[n - 1])
                \/ a # None /\ Heads(f)[n].seq = a.seq /\ Heads(f)[n] # a
  BY <1>6, Zenon DEF Stops
<1> QED  BY <1>3, <1>4, <1>5, <1>7

(* The walk of a log with no misread line is the independent verifier's,   *)
(* up to the first line on which that one stops.                           *)
LEMMA WalksAgree ==
  ASSUME NEW f \in Seq(Line), \A n \in DOMAIN f : ~ Misread(f[n]),
         NEW a, a = None \/ a \in ChainHead
  PROVE  \A n \in 0 .. Len(f) :
           /\ (\A k \in Stops(f, a) : n < k) => walked(f, TRUE, a)[n] = Running(f, a, n)
           /\ \A m \in Stops(f, a) :
                m <= n /\ (\A k \in Stops(f, a) : m <= k) => Stopped(walked(f, TRUE, a)[n], f, m)
<1> DEFINE B == Stops(f, a)
           W(n) == walked(f, TRUE, a)[n]
           P(n) == /\ (\A k \in B : n < k) => W(n) = Running(f, a, n)
                   /\ \A m \in B : m <= n /\ (\A k \in B : m <= k) => Stopped(W(n), f, m)
           G == {n \in 0 .. Len(f) : P(n)}
<1>1. Len(f) \in Nat /\ DOMAIN f = 1 .. Len(f) /\ 0 \in 0 .. Len(f)
  OBVIOUS
<1>2. B \subseteq 0 .. Len(f) /\ B \subseteq Int
  BY <1>1, StopsAt
<1>3. 0 \in G
  <2>1. Heads(f)[0] = GenesisHead /\ GenesisHead \in ChainHead /\ Dam(f, 0) = {}
    BY <1>1, HeadsDef DEF GenesisHead, ChainHead, Dam
  <2>2. W(0) = checkAnchor(start, a, 0)
    BY <1>1, WalkedDef
  <2>3. /\ start \in Walks /\ start.nextSeq = GenesisHead.seq + 1 /\ start.prevHash = GenesisHead.hash
        /\ ~ start.anchorSeen
    BY DEF start, Walks, GenesisHead
  <2>4. 0 \in B <=> a # None /\ a.seq = 0 /\ a # GenesisHead
    BY StopsAt
  <2> DEFINE seen == [start EXCEPT !.anchorSeen = TRUE]
  <2>7. /\ a = None \/ a.seq # 0 => W(0) = start
        /\ a # None /\ a = GenesisHead => W(0) = seen
        /\ a # None /\ a.seq = 0 /\ a # GenesisHead => W(0) = invalid(seen, 0)
    <3>1. GenesisHead.seq = 0
      BY DEF GenesisHead
    <3> HIDE DEF W, seen
    <3>2. head(start) = GenesisHead
      BY DEF head, start, GenesisHead
    <3>3. CASE a = None \/ a.seq # 0
      BY <2>2, <3>1, <3>2, <3>3 DEF checkAnchor
    <3>4. CASE a # None /\ a = GenesisHead
      BY <2>2, <2>3, <3>1, <3>2, <3>4 DEF checkAnchor, seen
    <3>5. CASE a # None /\ a.seq = 0 /\ a # GenesisHead
      BY <2>2, <2>3, <3>1, <3>2, <3>5 DEF checkAnchor, seen
    <3> QED  BY <3>1, <3>3, <3>4, <3>5
  <2>8. seen = [nextSeq |-> 1, prevHash |-> 0, records |-> 0, damaged |-> {},
                failed |-> FALSE, failedLine |-> 0, anchorSeen |-> TRUE]
    <3>1. /\ seen \in Walks /\ seen.nextSeq = 1 /\ seen.prevHash = 0 /\ seen.records = 0
          /\ seen.damaged = {} /\ seen.failed = FALSE /\ seen.failedLine = 0 /\ seen.anchorSeen = TRUE
      <4>1. /\ start.nextSeq = 1 /\ start.prevHash = 0 /\ start.records = 0
            /\ start.damaged = {} /\ start.failed = FALSE /\ start.failedLine = 0
        BY DEF start
      <4> QED  BY <2>3, <4>1, WalkSeen
    <3> HIDE DEF seen
    <3> QED  BY <3>1, WalkFields, Zenon
  <2>9. Running(f, a, 0) = [nextSeq |-> 1, prevHash |-> 0, records |-> 0, damaged |-> {},
                            failed |-> FALSE, failedLine |-> 0, anchorSeen |-> (a # None /\ a.seq <= 0)]
    <3>1. Running(f, a, 0) = [nextSeq |-> 0 + 1, prevHash |-> 0, records |-> 0, damaged |-> {},
                            failed |-> FALSE, failedLine |-> 0, anchorSeen |-> (a # None /\ a.seq <= 0)]
      <4>1. Heads(f)[0].seq = 0 /\ Heads(f)[0].hash = 0
        BY <2>1 DEF GenesisHead
      <4> QED  BY <2>1, <4>1, Zenon DEF Running
    <3> QED  BY <3>1
  <2> HIDE DEF W, seen
  <2>5. CASE 0 \in B
    <3>1. W(0) = invalid(seen, 0)
      BY <2>4, <2>5, <2>7
    <3>2. /\ seen \in Walks /\ seen.nextSeq = 1 /\ seen.prevHash = 0 /\ seen.records = 0
          /\ seen.damaged = {}
      <4>1. seen \in Walks
        BY <2>3, WalkSeen DEF seen
      <4> QED  BY <2>8, <4>1
    <3>3. /\ W(0) \in Walks /\ W(0).failed /\ W(0).failedLine = 0 /\ W(0).nextSeq = 1
          /\ W(0).prevHash = 0 /\ W(0).records = 0 /\ W(0).damaged = {}
      BY <3>1, <3>2, WalkInvalid
    <3>4. head(W(0)) = GenesisHead /\ GenesisHead.seq = 0
      BY <3>3 DEF head, GenesisHead
    <3>5. Stopped(W(0), f, 0)
      BY <2>1, <3>3, <3>4 DEF Stopped
    <3> HIDE DEF B
    <3>6. ASSUME NEW m \in B, m <= 0 PROVE m = 0
      BY <1>2, <3>6
    <3> QED  BY <1>1, <2>5, <3>5, <3>6
  <2>6. CASE 0 \notin B
    <3>1. W(0) = Running(f, a, 0)
      <4>1. CASE a = None \/ a.seq # 0
        <5>1. W(0) = start
          BY <2>7, <4>1
        <5>2. (a # None /\ a.seq <= 0) = FALSE
          BY <4>1 DEF ChainHead
        <5> QED  BY <2>9, <5>1, <5>2, Zenon DEF start
      <4>2. CASE a # None /\ a = GenesisHead
        <5>1. W(0) = seen
          BY <2>7, <4>2
        <5>2. (a # None /\ a.seq <= 0) = TRUE
          BY <4>2 DEF GenesisHead
        <5> QED  BY <2>8, <2>9, <5>1, <5>2, Zenon
      <4> QED  BY <2>4, <2>6, <4>1, <4>2
    <3> HIDE DEF B
    <3>3. ASSUME NEW m \in B, m <= 0 PROVE FALSE
      BY <1>2, <2>6, <3>3
    <3> QED  BY <1>1, <3>1, <3>3
  <2> QED  BY <2>5, <2>6
<1>4. ASSUME NEW n \in 1 .. Len(f), n - 1 \in G
      PROVE  n \in G
  <2> DEFINE h == Heads(f)[n - 1]
             g == Heads(f)[n]
             ln == f[n]
             w == W(n - 1)
  <2>1. /\ n - 1 \in 0 .. Len(f) /\ n \in 0 .. Len(f) /\ ln \in Line /\ n \in Nat
        /\ g \in ChainHead /\ h \in ChainHead /\ g = follow(h, ln)
    BY HeadsStep
  <2>2. /\ Parsed(ln) /\ verifyRecord(ln, h) => g.seq = h.seq + 1 /\ g.hash = lineHash(ln)
        /\ ~ (Parsed(ln) /\ verifyRecord(ln, h)) => g = h
    BY <2>1, FollowHead
  <2>3. W(n) = advance(w, ln, n, TRUE, a)
    BY <1>1, WalkedDef
  <2>4. P(n - 1)
    BY <1>4
  <2>5. n \in B <=> \/ oversized(ln)
                    \/ Parsed(ln) /\ ~ verifyRecord(ln, h)
                    \/ a # None /\ g.seq = a.seq /\ g # a
    BY StopsAt
  <2>6. CASE \E m \in B : m <= n - 1
    <3>1. PICK m \in B : \A k \in B : m <= k
      <4>1. B \subseteq Nat /\ B # {}
        BY <1>2, <2>6
      <4> QED  BY <4>1, NatLeast
    <3>2. m <= n - 1 /\ m <= n /\ m \in Int
      BY <1>2, <2>6, <3>1
    <3>3. Stopped(w, f, m)
      BY <2>4, <3>1, <3>2
    <3>4. W(n) = w
      BY <2>3, <3>3 DEF advance, Stopped
    <3>5. \A i \in B : (\A k \in B : i <= k) => i = m
      BY <1>2, <3>1
    <3> HIDE DEF B, W, w
    <3> QED  BY <1>2, <2>1, <3>1, <3>2, <3>3, <3>4, <3>5
  <2>7. CASE \A k \in B : n - 1 < k
    <3>1. w = Running(f, a, n - 1)
      BY <2>4, <2>7
    <3>2. h.seq \in Nat /\ h.hash \in Int /\ Dam(f, n - 1) \subseteq Nat
      BY <1>1, <2>1 DEF ChainHead, Dam
    <3>3. /\ w \in Walks /\ ~ w.failed /\ w.nextSeq = h.seq + 1 /\ w.prevHash = h.hash
          /\ w.records = h.seq /\ w.damaged = Dam(f, n - 1) /\ w.failedLine = 0
          /\ w.anchorSeen = (a # None /\ a.seq <= h.seq)
      <4> HIDE DEF W, h
      <4>1. /\ ~ w.failed /\ w.nextSeq = h.seq + 1 /\ w.prevHash = h.hash
            /\ w.records = h.seq /\ w.damaged = Dam(f, n - 1) /\ w.failedLine = 0
            /\ w.anchorSeen = (a # None /\ a.seq <= h.seq)
        BY <3>1 DEF Running, h
      <4>2. w \in Walks
        <5> DEFINE b == (a # None /\ a.seq <= h.seq)
        <5>1. b \in BOOLEAN
          OBVIOUS
        <5>2. w = [nextSeq |-> h.seq + 1, prevHash |-> h.hash, records |-> h.seq,
                   damaged |-> Dam(f, n - 1), failed |-> FALSE, failedLine |-> 0, anchorSeen |-> b]
          BY <3>1, Zenon DEF Running, h
        <5> HIDE DEF b, w
        <5> QED  BY <3>2, <5>1, <5>2 DEF Walks
      <4> QED  BY <4>1, <4>2
    <3>4. W(n) = step(w, ln, n, TRUE, a)
      BY <2>3, <3>3 DEF advance
    <3>5. ~ Misread(ln)
      BY <1>1
    <3>6. /\ Dam(f, n) = IF ~ Parsed(ln) /\ ~ oversized(ln) THEN Dam(f, n - 1) \cup {n} ELSE Dam(f, n - 1)
      BY <1>1 DEF Dam
    <3>7. /\ n \in B => \A m \in B : m <= n /\ (\A k \in B : m <= k) => m = n
          /\ n \notin B => (\A k \in B : n < k) /\ \A m \in B : ~ (m <= n)
          /\ n \in B => ~ (\A k \in B : n < k)
      <4> HIDE DEF B
      <4> QED  BY <1>2, <2>7
    <3>8. /\ n \in B => Stopped(W(n), f, n)
          /\ n \notin B => W(n) = Running(f, a, n)
      <4>1. CASE oversized(ln) \/ (Parsed(ln) /\ ~ verifyRecord(ln, h))
        <5>1. W(n) = invalid(w, n) /\ n \in B /\ g = h /\ Dam(f, n) = Dam(f, n - 1)
          BY <2>1, <2>2, <2>5, <3>3, <3>4, <3>5, <3>6, <4>1, StepCases DEF Parsed
        <5> HIDE DEF W, w, h, g, B
        <5>2. head(w) = h
          BY <2>1, <3>3 DEF head, ChainHead
        <5>3. Stopped(W(n), f, n)
          BY <2>1, <3>3, <5>1, <5>2 DEF Stopped, invalid, head, g, Walks
        <5> QED  BY <5>1, <5>3
      <4>2. CASE ~ Parsed(ln) /\ ~ oversized(ln)
        <5>1. W(n) = damage(w, n) /\ g = h /\ Dam(f, n) = Dam(f, n - 1) \cup {n}
          BY <2>1, <2>2, <3>3, <3>4, <3>5, <3>6, <4>2, StepCases
        <5>2. n \notin B
          <6> SUFFICES ASSUME n \in B PROVE FALSE
            OBVIOUS
          <6>1. a # None /\ h.seq = a.seq /\ h # a
            BY <2>5, <4>2, <5>1
          <6>2. n - 1 \in B
            <7>1. CASE n = 1
              <8>1. h = GenesisHead
                BY <1>1, <7>1, HeadsDef
              <8> QED  BY <6>1, <7>1, <8>1, StopsAt DEF GenesisHead
            <7>2. CASE n # 1
              <8>1. n - 1 \in 1 .. Len(f)
                BY <7>2
              <8> QED  BY <6>1, <8>1, StopsAt
            <7> QED  BY <7>1, <7>2
          <6> QED  BY <2>1, <2>7, <6>2
        <5> HIDE DEF W, w, h, g, B
        <5>3. W(n) = Running(f, a, n)
          <6>1. w = [nextSeq |-> h.seq + 1, prevHash |-> h.hash, records |-> h.seq,
                   damaged |-> Dam(f, n - 1), failed |-> FALSE, failedLine |-> 0,
                   anchorSeen |-> (a # None /\ a.seq <= h.seq)]
            BY <3>1, Zenon DEF Running, h
          <6>2. Running(f, a, n) = [nextSeq |-> g.seq + 1, prevHash |-> g.hash, records |-> g.seq,
                   damaged |-> Dam(f, n), failed |-> FALSE, failedLine |-> 0,
                   anchorSeen |-> (a # None /\ a.seq <= g.seq)]
            BY Zenon DEF Running, g
          <6> DEFINE b == (a # None /\ a.seq <= h.seq)
          <6>3. w = [nextSeq |-> h.seq + 1, prevHash |-> h.hash, records |-> h.seq,
                   damaged |-> Dam(f, n - 1), failed |-> FALSE, failedLine |-> 0, anchorSeen |-> b]
            BY <6>1
          <6>4. Running(f, a, n) = [nextSeq |-> h.seq + 1, prevHash |-> h.hash, records |-> h.seq,
                   damaged |-> Dam(f, n), failed |-> FALSE, failedLine |-> 0, anchorSeen |-> b]
            BY <6>2, <5>1
          <6> HIDE DEF b
          <6> QED  BY <5>1, <6>3, <6>4 DEF damage
        <5> QED  BY <5>2, <5>3
      <4>3. CASE Parsed(ln) /\ verifyRecord(ln, h)
        <5> DEFINE v == [w EXCEPT !.prevHash = lineHash(ln), !.nextSeq = @ + 1, !.records = @ + 1]
        <5>1. /\ W(n) = checkAnchor(v, a, n) /\ g.seq = h.seq + 1 /\ g.hash = lineHash(ln)
              /\ Dam(f, n) = Dam(f, n - 1) /\ ~ oversized(ln)
          BY <2>1, <2>2, <3>3, <3>4, <3>5, <3>6, <4>3, StepCases DEF Parsed
        <5>2. n \in B <=> a # None /\ g.seq = a.seq /\ g # a
          BY <2>5, <4>3, <5>1
        <5> HIDE DEF W, w, h, g, B
        <5>3. lineHash(ln) \in Int
          BY <2>1, HashOfLine
        <5>4. /\ v \in Walks /\ v.nextSeq = g.seq + 1 /\ v.prevHash = g.hash /\ v.records = g.seq
              /\ v.damaged = Dam(f, n) /\ v.failed = FALSE /\ v.failedLine = 0
              /\ v.anchorSeen = w.anchorSeen
          <6>2. /\ v \in Walks
                /\ v.nextSeq = w.nextSeq + 1 /\ v.prevHash = lineHash(ln) /\ v.records = w.records + 1
                /\ v.damaged = w.damaged /\ v.failed = w.failed /\ v.failedLine = w.failedLine
                /\ v.anchorSeen = w.anchorSeen
            BY <3>3, <5>3, WalkRecord
          <6>4. w.failed = FALSE
            BY <3>3 DEF Walks
          <6> HIDE DEF v
          <6> QED  BY <3>3, <5>1, <6>2, <6>4
        <5> HIDE DEF v
        <5>5. ASSUME NEW u \in Walks, u.nextSeq = g.seq + 1, u.prevHash = g.hash, u.records = g.seq,
                     u.damaged = Dam(f, n), u.failed = FALSE, u.failedLine = 0,
                     u.anchorSeen <=> a # None /\ a.seq <= g.seq
              PROVE  u = Running(f, a, n)
          <6>1. u.anchorSeen \in BOOLEAN /\ (a # None /\ a.seq <= g.seq) \in BOOLEAN
            BY DEF Walks
          <6>2. u.anchorSeen = (a # None /\ a.seq <= g.seq)
            BY <5>5, <6>1
          <6>3. u = [nextSeq |-> u.nextSeq, prevHash |-> u.prevHash, records |-> u.records,
                     damaged |-> u.damaged, failed |-> u.failed, failedLine |-> u.failedLine,
                     anchorSeen |-> u.anchorSeen]
            BY DEF Walks
          <6>4. Running(f, a, n) = [nextSeq |-> g.seq + 1, prevHash |-> g.hash, records |-> g.seq,
                   damaged |-> Dam(f, n), failed |-> FALSE, failedLine |-> 0,
                   anchorSeen |-> (a # None /\ a.seq <= g.seq)]
            BY Zenon DEF Running, g
          <6> QED  BY <5>5, <6>2, <6>3, <6>4, Zenon
        <5>10. /\ a = None \/ a.seq # g.seq => checkAnchor(v, a, n) = v
               /\ a # None /\ ~ v.anchorSeen /\ a = g =>
                    checkAnchor(v, a, n) = [v EXCEPT !.anchorSeen = TRUE]
               /\ a # None /\ ~ v.anchorSeen /\ a.seq = g.seq /\ a # g =>
                    checkAnchor(v, a, n) = invalid([v EXCEPT !.anchorSeen = TRUE], n)
          <6>1. n \in Nat /\ g \in ChainHead /\ v \in Walks /\ v.nextSeq = g.seq + 1 /\ v.prevHash = g.hash
            BY <2>1, <5>4
          <6> QED  BY <6>1, AnchorCases
        <5>6. a # None => a.seq \in Nat
          BY DEF ChainHead
        <5>7. w.anchorSeen <=> a # None /\ a.seq <= h.seq
          BY <3>3
        <5>8. CASE a = None \/ a.seq # g.seq
          <6>2. W(n) = v /\ n \notin B
            BY <5>1, <5>2, <5>8, <5>10
          <6>3. v.anchorSeen <=> a # None /\ a.seq <= g.seq
            <7>1. a # None => (a.seq <= h.seq <=> a.seq <= g.seq)
              BY <3>2, <5>1, <5>6, <5>8
            <7> QED  BY <5>4, <5>7, <7>1
          <6> QED  BY <5>4, <5>5, <6>2, <6>3
        <5>9. CASE a # None /\ a.seq = g.seq
          <6>1. ~ v.anchorSeen
            <7>1. ~ (a.seq <= h.seq)
              BY <3>2, <5>1, <5>9
            <7> QED  BY <5>4, <5>7, <7>1
          <6> DEFINE u == [v EXCEPT !.anchorSeen = TRUE]
          <6>2. /\ u \in Walks /\ u.nextSeq = g.seq + 1 /\ u.prevHash = g.hash /\ u.records = g.seq
                /\ u.damaged = Dam(f, n) /\ u.failed = FALSE /\ u.failedLine = 0 /\ u.anchorSeen
            BY <5>4 DEF Walks
          <6>3. CASE a = g
            <7>1. W(n) = u /\ n \notin B
              BY <5>1, <5>2, <5>9, <5>10, <6>1, <6>3
            <7>2. a.seq <= g.seq
              BY <2>1, <6>3 DEF ChainHead
            <7> HIDE DEF u
            <7> QED  BY <5>5, <5>9, <6>2, <7>1, <7>2
          <6>4. CASE a # g
            <7>1. W(n) = invalid(u, n) /\ n \in B
              BY <5>1, <5>2, <5>9, <5>10, <6>1, <6>4
            <7> HIDE DEF u
            <7>2. Stopped(W(n), f, n)
              <8>1. /\ W(n) \in Walks /\ W(n).failed /\ W(n).failedLine = n /\ W(n).nextSeq = u.nextSeq
                    /\ W(n).prevHash = u.prevHash /\ W(n).records = u.records /\ W(n).damaged = u.damaged
                BY <2>1, <6>2, <7>1 DEF invalid, Walks
              <8>2. head(W(n)) = g
                BY <2>1, <6>2, <8>1 DEF head, ChainHead
              <8> QED  BY <6>2, <8>1, <8>2 DEF Stopped, g
            <7> QED  BY <7>1, <7>2
          <6> QED  BY <6>3, <6>4
        <5> QED  BY <5>8, <5>9
      <4>4. \/ oversized(ln) \/ (Parsed(ln) /\ ~ verifyRecord(ln, h))
            \/ ~ Parsed(ln) /\ ~ oversized(ln)
            \/ Parsed(ln) /\ verifyRecord(ln, h)
        OBVIOUS
      <4> HIDE DEF W, h, ln, B
      <4> QED  BY <4>1, <4>2, <4>3, <4>4, Zenon
    <3> HIDE DEF B, W
    <3> QED  BY <2>1, <3>7, <3>8
  <2> HIDE DEF W
  <2>8. (\E m \in B : m <= n - 1) \/ (\A k \in B : n - 1 < k)
    BY <1>2, <2>1
  <2> QED  BY <2>6, <2>7, <2>8
<1> HIDE DEF G
<1>5. \A n \in 0 .. Len(f) : n \in G
  BY <1>1, <1>3, <1>4, Upwards
<1> QED  BY <1>5 DEF G

LEMMA TruncatedCases ==
  ASSUME NEW w \in Walks, NEW a
  PROVE  /\ a = None \/ w.anchorSeen \/ w.failed => checkTruncated(w, a) = w
         /\ a # None /\ ~ w.anchorSeen /\ ~ w.failed => checkTruncated(w, a) = invalid(w, 0)
BY DEF checkTruncated

(* The specification's verifier, in terms of the heads.                    *)
LEMMA SpecReported ==
  ASSUME NEW f \in Seq(Line), NEW a, a = None \/ a \in ChainHead
  PROVE  VerifyAnchored(f, a).status # "INVALID" <=>
           Stops(f, a) = {} /\ (a = None \/ a.seq <= Heads(f)[Len(f)].seq)
<1> DEFINE B == Stops(f, a)
           L == Len(f)
           missed == a # None /\ B = {} /\ \A n \in 0 .. L : Heads(f)[n].seq # a.seq
           stop == IF B = {} THEN L ELSE CHOOSE n \in B : \A k \in B : n <= k
           D == {n \in DOMAIN f : n <= stop /\ ~ Parsed(f[n]) /\ ~ oversized(f[n])}
<1>1. L \in Nat /\ L \in 0 .. L /\ Heads(f)[L].seq \in Nat /\ (a # None => a.seq \in Nat)
  BY HeadsType DEF ChainHead
<1>2. VerifyAnchored(f, a).status = Status(B # {} \/ missed, D)
  BY DEF VerifyAnchored
<1> HIDE DEF B, missed, D
<1>3. VerifyAnchored(f, a).status = "INVALID" <=> B # {} \/ missed
  BY <1>2 DEF Status
<1>4. a # None /\ a.seq <= Heads(f)[L].seq => \E n \in 0 .. L : Heads(f)[n].seq = a.seq
  BY <1>1, HeadsContiguous
<1>5. a # None /\ (\E n \in 0 .. L : Heads(f)[n].seq = a.seq) => a.seq <= Heads(f)[L].seq
  BY <1>1, HeadsContiguous
<1>6. B = {} => (missed <=> a # None /\ ~ (a.seq <= Heads(f)[L].seq))
  BY <1>4, <1>5 DEF missed
<1> QED  BY <1>3, <1>6 DEF B

(* `probavi evidence verify` takes a misread line for a foreign object.    *)
LEMMA TakenLine ==
  ASSUME NEW ln \in Line
  PROVE  /\ Taken(ln) \in Line /\ ~ Misread(Taken(ln))
         /\ Misread(ln) => /\ Taken(ln).what = "foreign" /\ Taken(ln).nl /\ ~ tooLong(Taken(ln))
                           /\ Parsed(Taken(ln)) /\ \A h : ~ verifyRecord(Taken(ln), h)
         /\ ~ Misread(ln) => Taken(ln) = ln
<1>1. CASE Misread(ln)
  <2> DEFINE t == [ln EXCEPT !.what = "foreign", !.nl = TRUE, !.excess = 0]
  <2>1. Taken(ln) = t
    BY <1>1 DEF Taken
  <2>2. t \in Line /\ t.what = "foreign" /\ t.nl /\ t.excess = 0
    <3> DEFINE u == [ln EXCEPT !.what = "foreign", !.nl = TRUE]
    <3>1. u \in Line /\ u.what = "foreign" /\ u.nl = TRUE
      BY DEF Line, Kinds
    <3>2. t = [u EXCEPT !.excess = 0]
      OBVIOUS
    <3> HIDE DEF u, t
    <3> QED  BY <3>1, <3>2 DEF Line
  <2> HIDE DEF t
  <2>3. ~ tooLong(t) /\ ~ oversized(t)
    BY <2>2 DEF tooLong, oversized, bytesOf
  <2>4. ~ Misread(t) /\ Parsed(t) /\ \A h : ~ verifyRecord(t, h)
    BY <2>2, <2>3 DEF Misread, Parsed, parseRecord, verifyRecord
  <2> QED  BY <1>1, <2>1, <2>2, <2>3, <2>4
<1>2. CASE ~ Misread(ln)
  <2>1. Taken(ln) = ln
    BY <1>2 DEF Taken
  <2> QED  BY <1>2, <2>1
<1> QED  BY <1>1, <1>2

LEMMA TakenStep ==
  ASSUME NEW w, NEW ln \in Line, NEW k, NEW keyed, NEW a
  PROVE  step(w, Taken(ln), k, keyed, a) = step(w, ln, k, keyed, a)
<1>1. CASE Misread(ln)
  <2>1. step(w, Taken(ln), k, keyed, a) = invalid(w, k)
    BY <1>1, TakenLine DEF step, Refused
  <2>2. tooLong(ln) \/ (ln.what = "value" /\ ln.nl)
    BY <1>1 DEF Misread
  <2>3. step(w, ln, k, keyed, a) = invalid(w, k)
    BY <2>2 DEF step, Refused
  <2> QED  BY <2>1, <2>3
<1>2. CASE ~ Misread(ln)
  <2>1. Taken(ln) = ln
    BY <1>2, TakenLine
  <2> QED  BY <2>1
<1> QED  BY <1>1, <1>2

LEMMA TakenLines ==
  ASSUME NEW f \in Seq(Line)
  PROVE  /\ TakenFile(f) \in Seq(Line) /\ Len(TakenFile(f)) = Len(f) /\ Len(f) \in Nat
         /\ \A n \in DOMAIN f : f[n] \in Line /\ TakenFile(f)[n] = Taken(f[n])
         /\ DOMAIN TakenFile(f) = DOMAIN f /\ DOMAIN f = 1 .. Len(f)
         /\ \A n \in DOMAIN TakenFile(f) : ~ Misread(TakenFile(f)[n])
<1>1. Len(f) \in Nat /\ DOMAIN f = 1 .. Len(f) /\ \A n \in DOMAIN f : f[n] \in Line
  OBVIOUS
<1>2. \A n \in DOMAIN f : Taken(f[n]) \in Line /\ ~ Misread(Taken(f[n]))
  BY <1>1, TakenLine
<1>3. TakenFile(f) = [n \in 1 .. Len(f) |-> Taken(f[n])]
  BY <1>1 DEF TakenFile
<1>4. TakenFile(f) \in Seq(Line) /\ Len(TakenFile(f)) = Len(f)
  BY <1>1, <1>2, <1>3
<1> QED  BY <1>1, <1>2, <1>3, <1>4

LEMMA TakenVerify ==
  ASSUME NEW f \in Seq(Line), NEW a
  PROVE  Verify(f, a) = Verify(TakenFile(f), a)
<1> DEFINE t == TakenFile(f)
           V == walked(f, TRUE, a)
           W == walked(t, TRUE, a)
           G == {n \in 0 .. Len(f) : V[n] = W[n]}
<1>1. /\ Len(f) \in Nat /\ Len(t) \in Nat /\ Len(t) = Len(f) /\ 0 \in 0 .. Len(f)
      /\ \A n \in 1 .. Len(f) : f[n] \in Line /\ t[n] = Taken(f[n])
  BY TakenLines
<1> HIDE DEF t
<1>2. V[0] = checkAnchor(start, a, 0) /\ \A n \in 1 .. Len(f) : V[n] = advance(V[n - 1], f[n], n, TRUE, a)
  BY <1>1, WalkedDef
<1>3. W[0] = checkAnchor(start, a, 0) /\ \A n \in 1 .. Len(t) : W[n] = advance(W[n - 1], t[n], n, TRUE, a)
  BY <1>1, WalkedDef
<1> HIDE DEF V, W
<1>4. 0 \in G
  BY <1>1, <1>2, <1>3
<1>5. ASSUME NEW n \in 1 .. Len(f), n - 1 \in G
      PROVE  n \in G
  <2>1. V[n - 1] = W[n - 1] /\ n \in 0 .. Len(f)
    BY <1>5
  <2> DEFINE w == V[n - 1]
  <2>2. V[n] = advance(w, f[n], n, TRUE, a) /\ W[n] = advance(w, t[n], n, TRUE, a)
    BY <1>1, <1>2, <1>3, <2>1
  <2> HIDE DEF w
  <2>3. f[n] \in Line /\ t[n] = Taken(f[n])
    BY <1>1
  <2>4. step(w, Taken(f[n]), n, TRUE, a) = step(w, f[n], n, TRUE, a)
    <3> DEFINE ln == f[n]
    <3>1. ln \in Line
      BY <2>3
    <3> HIDE DEF ln
    <3>2. step(w, Taken(ln), n, TRUE, a) = step(w, ln, n, TRUE, a)
      BY <3>1, TakenStep, Zenon
    <3> QED  BY <3>2 DEF ln
  <2>5. V[n] = W[n]
    BY <2>2, <2>3, <2>4, Zenon DEF advance
  <2> QED  BY <2>1, <2>5
<1> HIDE DEF G
<1>6. \A n \in 0 .. Len(f) : n \in G
  BY <1>1, <1>4, <1>5, Upwards
<1>7. V[Len(f)] = W[Len(t)]
  <2>1. Len(f) \in G
    BY <1>1, <1>6
  <2> QED  BY <1>1, <2>1 DEF G
<1>8. walk(f, TRUE, a) = walk(t, TRUE, a)
  BY <1>7, Zenon DEF walk, V, W
<1> QED  BY <1>8, Zenon DEF Verify, t

(* What both verifiers report, in terms of the heads.                      *)
LEMMA Reported ==
  ASSUME NEW f \in Seq(Line), \A n \in DOMAIN f : ~ Misread(f[n]),
         NEW a, a = None \/ a \in ChainHead
  PROVE  /\ Verify(f, a) = VerifyAnchored(f, a)
         /\ Verify(f, a).status # "INVALID" <=>
              Stops(f, a) = {} /\ (a = None \/ a.seq <= Heads(f)[Len(f)].seq)
         /\ \E n \in 0 .. Len(f) : Verify(f, a).head = Heads(f)[n]
<1> DEFINE B == Stops(f, a)
           L == Len(f)
           w == walked(f, TRUE, a)[L]
           u == checkTruncated(w, a)
           missed == a # None /\ B = {} /\ \A n \in 0 .. L : Heads(f)[n].seq # a.seq
<1>1. L \in Nat /\ L \in 0 .. L /\ B \subseteq 0 .. L /\ B \subseteq Int
  BY StopsAt
<1>2. Heads(f)[L] \in ChainHead /\ Heads(f)[L].seq \in Nat /\ Heads(f)[L].hash \in Int
  BY <1>1, HeadsType DEF ChainHead
<1>3. Verify(f, a) = [status |-> Status(u.failed, u.damaged), records |-> u.records,
                      damaged |-> u.damaged, line |-> u.failedLine, head |-> head(u)]
  BY Zenon DEF Verify, walk
<1>4. ASSUME NEW failed \in BOOLEAN, NEW D
      PROVE  Status(failed, D) = "INVALID" <=> failed
  BY DEF Status
<1>5. CASE B = {}
  <2>1. w = Running(f, a, L)
    BY <1>1, <1>5, WalksAgree
  <2> DEFINE g == Heads(f)[L]
             b == (a # None /\ a.seq <= g.seq)
  <2>2. w = [nextSeq |-> g.seq + 1, prevHash |-> g.hash, records |-> g.seq,
             damaged |-> Dam(f, L), failed |-> FALSE, failedLine |-> 0, anchorSeen |-> b]
    BY <2>1, Zenon DEF Running
  <2>3. b \in BOOLEAN /\ Dam(f, L) \subseteq Nat
    BY DEF Dam
  <2> HIDE DEF w, g, b
  <2>4. /\ w \in Walks /\ ~ w.failed /\ w.nextSeq = g.seq + 1 /\ w.prevHash = g.hash
        /\ w.records = g.seq /\ w.damaged = Dam(f, L) /\ w.failedLine = 0 /\ w.anchorSeen = b
    BY <1>2, <2>2, <2>3 DEF Walks, g
  <2>5. missed <=> a # None /\ ~ b
    <3>1. a # None => a.seq \in Nat
      BY DEF ChainHead
    <3>2. a # None /\ a.seq <= g.seq => \E n \in 0 .. L : Heads(f)[n].seq = a.seq
      BY <1>1, <1>2, <3>1, HeadsContiguous DEF g
    <3>3. a # None /\ (\E n \in 0 .. L : Heads(f)[n].seq = a.seq) => a.seq <= g.seq
      BY <1>1, HeadsContiguous DEF g
    <3> HIDE DEF B, L
    <3>4. a # None => (b <=> \E n \in 0 .. L : Heads(f)[n].seq = a.seq)
      BY <3>2, <3>3 DEF b
    <3> QED  BY <1>5, <3>4
  <2>6. /\ u \in Walks /\ u.nextSeq = g.seq + 1 /\ u.prevHash = g.hash /\ u.records = g.seq
        /\ u.damaged = Dam(f, L) /\ u.failedLine = 0 /\ (u.failed <=> missed)
    <3> HIDE DEF missed, B, L
    <3>1. CASE missed
      <4>1. u = invalid(w, 0)
        BY <2>4, <2>5, <3>1, TruncatedCases
      <4> HIDE DEF u
      <4> QED  BY <2>4, <3>1, <4>1, WalkInvalid
    <3>2. CASE ~ missed
      <4>1. u = w
        BY <2>4, <2>5, <3>2, TruncatedCases
      <4> HIDE DEF u
      <4> QED  BY <2>4, <3>2, <4>1
    <3> QED  BY <3>1, <3>2
  <2> HIDE DEF u, missed
  <2>7. head(u) = g
    BY <1>2, <2>6 DEF head, ChainHead, g
  <2>8. u.failed = (B # {} \/ missed)
    BY <1>5, <2>6, WalkFields
  <2>9. Dam(f, L) = {n \in DOMAIN f : n <= L /\ ~ Parsed(f[n]) /\ ~ oversized(f[n])}
    BY DEF Dam
  <2>10. VerifyAnchored(f, a) =
           [status |-> Status(B # {} \/ missed, Dam(f, L)), records |-> g.seq,
            damaged |-> Dam(f, L), line |-> 0, head |-> g]
    BY <1>5, <2>9, Zenon DEF VerifyAnchored, missed, g
  <2>11. Verify(f, a) = VerifyAnchored(f, a)
    BY <1>3, <2>6, <2>7, <2>8, <2>10, Zenon
  <2>12. Verify(f, a).status = Status(u.failed, u.damaged) /\ Verify(f, a).head = g
    BY <1>3, <2>7
  <2>13. Verify(f, a).status # "INVALID" <=> a = None \/ a.seq <= g.seq
    <3>1. u.failed \in BOOLEAN
      BY <2>6, WalkFields
    <3>2. Verify(f, a).status = "INVALID" <=> missed
      BY <1>4, <2>6, <2>12, <3>1
    <3> QED  BY <2>5, <3>2 DEF b
  <2> QED  BY <1>1, <1>5, <2>11, <2>12, <2>13 DEF g
<1>6. CASE B # {}
  <2>1. PICK m \in B : \A k \in B : m <= k
    <3>1. B \subseteq Nat
      BY <1>1
    <3> QED  BY <1>6, <3>1, NatLeast
  <2>2. m \in 0 .. L /\ m <= L /\ m \in Int
    BY <1>1, <2>1
  <2>3. Stopped(w, f, m)
    BY <1>1, <2>1, <2>2, WalksAgree
  <2> HIDE DEF w
  <2>4. /\ w \in Walks /\ w.failed /\ w.failedLine = m /\ w.records = Heads(f)[m].seq
        /\ w.damaged = Dam(f, m) /\ head(w) = Heads(f)[m]
    BY <2>3 DEF Stopped
  <2>5. u = w
    BY <2>4, TruncatedCases
  <2> HIDE DEF u
  <2> DEFINE Least(n) == n \in B /\ \A k \in B : n <= k
  <2>6. (CHOOSE n \in B : \A k \in B : n <= k) = m
    <3> DEFINE c == CHOOSE n \in B : \A k \in B : n <= k
    <3>1. c \in B /\ \A k \in B : c <= k
      <4> HIDE DEF B
      <4> QED  BY <2>1
    <3> HIDE DEF c, B
    <3>2. c <= m /\ m <= c /\ c \in Int
      BY <1>1, <2>1, <3>1
    <3>3. c = m
      BY <2>2, <3>2
    <3> QED  BY <3>3 DEF c
  <2>7. Dam(f, m) = {n \in DOMAIN f : n <= m /\ ~ Parsed(f[n]) /\ ~ oversized(f[n])}
    BY DEF Dam
  <2>8. w.failed = TRUE /\ (B # {} \/ missed) = TRUE
    BY <1>6, <2>4, WalkFields
  <2>9. VerifyAnchored(f, a) =
           [status |-> Status(TRUE, Dam(f, m)), records |-> Heads(f)[m].seq,
            damaged |-> Dam(f, m), line |-> m, head |-> Heads(f)[m]]
    <3> DEFINE c == CHOOSE n \in B : \A k \in B : n <= k
               D == {n \in DOMAIN f : n <= c /\ ~ Parsed(f[n]) /\ ~ oversized(f[n])}
    <3>1. VerifyAnchored(f, a) =
           [status |-> Status(B # {} \/ missed, D), records |-> Heads(f)[c].seq,
            damaged |-> D, line |-> c, head |-> Heads(f)[c]]
      BY <1>6, Zenon DEF VerifyAnchored
    <3>2. c = m
      BY <2>6
    <3>3. D = Dam(f, m)
      BY <2>7, <3>2
    <3> HIDE DEF c, D, missed, B
    <3> QED  BY <2>8, <3>1, <3>2, <3>3, Zenon
  <2>10. Verify(f, a) = VerifyAnchored(f, a)
    BY <1>3, <2>4, <2>5, <2>8, <2>9, Zenon
  <2>11. Verify(f, a).status = "INVALID" /\ Verify(f, a).head = Heads(f)[m]
    BY <2>9, <2>10 DEF Status
  <2> QED  BY <1>6, <2>2, <2>10, <2>11
<1> QED  BY <1>5, <1>6

-----------------------------------------------------------------------------
(* The chain of the records of a log.                                      *)
LEMMA ChainsType ==
  ASSUME NEW f \in Seq(Line)
  PROVE  /\ Chains(f)[0] = <<>>
         /\ \A n \in 0 .. Len(f) : Chains(f)[n] \in Seq(Int)
         /\ \A n \in 1 .. Len(f) :
              /\ IsRecord(f[n]) => Chains(f)[n] = Append(Chains(f)[n - 1], lineHash(f[n]))
              /\ ~ IsRecord(f[n]) => Chains(f)[n] = Chains(f)[n - 1]
<1>1. Len(f) \in Nat
  OBVIOUS
<1>2. /\ Chains(f)[0] = <<>>
      /\ \A n \in 1 .. Len(f) : Chains(f)[n] = extend(Chains(f)[n - 1], f[n])
  BY <1>1, ChainsDef
<1> DEFINE G == {n \in 0 .. Len(f) : Chains(f)[n] \in Seq(Int)}
<1>3. 0 \in G
  <2>1. <<>> \in Seq(Int) /\ 0 \in 0 .. Len(f)
    BY <1>1
  <2> QED  BY <1>2, <2>1, Zenon
<1>4. ASSUME NEW n \in 1 .. Len(f), n - 1 \in G
      PROVE  n \in G
  <2>1. Chains(f)[n - 1] \in Seq(Int) /\ n \in 0 .. Len(f)
    BY <1>4
  <2>2. lineHash(f[n]) \in Int
    BY HashOfLine
  <2>3. Chains(f)[n] = extend(Chains(f)[n - 1], f[n])
    BY <1>2
  <2>4. Chains(f)[n] \in Seq(Int)
    <3> DEFINE c == Chains(f)[n - 1]
    <3> HIDE DEF c
    <3>1. Append(c, lineHash(f[n])) \in Seq(Int)
      BY <2>1, <2>2 DEF c
    <3> QED  BY <2>1, <2>3, <3>1 DEF extend, c
  <2> QED  BY <2>1, <2>4
<1> HIDE DEF G
<1>5. \A n \in 0 .. Len(f) : n \in G
  BY <1>1, <1>3, <1>4, Upwards
<1>6. \A n \in 0 .. Len(f) : Chains(f)[n] \in Seq(Int)
  BY <1>5 DEF G
<1> QED  BY <1>2, <1>6 DEF extend

(* A log on which the independent verifier stops nowhere for its lines:    *)
(* nothing too long, and every record follows the one before.              *)
Follows(f) ==
  \A n \in 1 .. Len(f) :
    ~ oversized(f[n]) /\ (Parsed(f[n]) => verifyRecord(f[n], Heads(f)[n - 1]))

LEMMA ParsedLine ==
  ASSUME NEW ln \in Line, ~ oversized(ln)
  PROVE  /\ Parsed(ln) <=> ln.nl /\ ln.what \in {"record", "forged", "foreign"}
         /\ IsRecord(ln) => Parsed(ln)
         /\ ln.nl /\ ln.what = "record" => IsRecord(ln) /\ Parsed(ln)
<1>1. ln.what \in Kinds /\ ln.nl \in BOOLEAN
  BY DEF Line
<1> QED  BY <1>1 DEF Parsed, parseRecord, Kinds, IsRecord

(* In such a log the heads are the ends of the chains, so each record has  *)
(* the place of the chain that its seq says.                               *)
HeadEnds(f, n) ==
  /\ Len(Chains(f)[n]) = Heads(f)[n].seq
  /\ Last0(Chains(f)[n]) = Heads(f)[n].hash

LEMMA LastOfAppend ==
  ASSUME NEW c \in Seq(Int), NEW x \in Int
  PROVE  /\ Append(c, x) \in Seq(Int)
         /\ Len(Append(c, x)) = Len(c) + 1 /\ Len(c) \in Nat
         /\ Append(c, x)[Len(c) + 1] = x
         /\ \A k \in 1 .. Len(c) : Append(c, x)[k] = c[k]
         /\ Last0(Append(c, x)) = x
         /\ Last0(c) = IF Len(c) = 0 THEN 0 ELSE c[Len(c)]
<1>1. /\ Append(c, x) \in Seq(Int) /\ Len(Append(c, x)) = Len(c) + 1 /\ Len(c) \in Nat
      /\ Append(c, x)[Len(c) + 1] = x /\ \A k \in 1 .. Len(c) : Append(c, x)[k] = c[k]
  OBVIOUS
<1>2. \A s \in Seq(Int) : s = <<>> <=> Len(s) = 0
  OBVIOUS
<1>3. Append(c, x) # <<>>
  BY <1>1, <1>2
<1> QED  BY <1>1, <1>2, <1>3 DEF Last0

(* The chain of a log's records grows: what a shorter part of the log      *)
(* chains, the whole of it chains too.                                     *)
LEMMA ChainsGrow ==
  ASSUME NEW f \in Seq(Line)
  PROVE  \A n \in 0 .. Len(f) : \A m \in 0 .. n :
           /\ Len(Chains(f)[m]) <= Len(Chains(f)[n])
           /\ \A k \in 1 .. Len(Chains(f)[m]) : Chains(f)[n][k] = Chains(f)[m][k]
<1> DEFINE C(n) == Chains(f)[n]
           P(n) == \A m \in 0 .. n :
                     /\ Len(C(m)) <= Len(C(n))
                     /\ \A k \in 1 .. Len(C(m)) : C(n)[k] = C(m)[k]
           G == {n \in 0 .. Len(f) : P(n)}
<1>1. Len(f) \in Nat /\ \A n \in 0 .. Len(f) : C(n) \in Seq(Int) /\ Len(C(n)) \in Nat
  BY ChainsType
<1>2. 0 \in G
  BY <1>1
<1>3. ASSUME NEW n \in 1 .. Len(f), n - 1 \in G
      PROVE  n \in G
  <2>1. P(n - 1) /\ n \in 0 .. Len(f) /\ n - 1 \in 0 .. Len(f) /\ 0 .. n = (0 .. n - 1) \cup {n}
        /\ 0 .. n \subseteq 0 .. Len(f)
    BY <1>3
  <2>2. lineHash(f[n]) \in Int
    BY HashOfLine
  <2>3. C(n) = Append(C(n - 1), lineHash(f[n])) \/ C(n) = C(n - 1)
    BY ChainsType
  <2> HIDE DEF C
  <2>4. /\ Len(C(n - 1)) <= Len(C(n))
        /\ \A k \in 1 .. Len(C(n - 1)) : C(n)[k] = C(n - 1)[k]
    <3>1. C(n - 1) \in Seq(Int) /\ Len(C(n - 1)) \in Nat
      BY <1>1, <2>1
    <3>2. CASE C(n) = Append(C(n - 1), lineHash(f[n]))
      <4>1. /\ Len(Append(C(n - 1), lineHash(f[n]))) = Len(C(n - 1)) + 1
            /\ \A k \in 1 .. Len(C(n - 1)) : Append(C(n - 1), lineHash(f[n]))[k] = C(n - 1)[k]
        BY <2>2, <3>1, LastOfAppend
      <4> QED  BY <3>1, <3>2, <4>1
    <3>3. CASE C(n) = C(n - 1)
      BY <3>1, <3>3
    <3> QED  BY <2>3, <3>2, <3>3
  <2>5. ASSUME NEW m \in 0 .. n - 1
        PROVE  /\ Len(C(m)) <= Len(C(n))
               /\ \A k \in 1 .. Len(C(m)) : C(n)[k] = C(m)[k]
    <3>1. Len(C(m)) \in Nat /\ Len(C(n - 1)) \in Nat /\ Len(C(n)) \in Nat
      BY <1>1, <2>1
    <3>2. Len(C(m)) <= Len(C(n - 1)) /\ \A k \in 1 .. Len(C(m)) : C(n - 1)[k] = C(m)[k]
      BY <2>1
    <3> QED  BY <2>4, <3>1, <3>2
  <2>6. P(n)
    <3>1. Len(C(n)) <= Len(C(n))
      BY <1>1, <2>1
    <3> QED  BY <2>1, <2>5, <3>1, Zenon
  <2> QED  BY <2>1, <2>6
<1> HIDE DEF G
<1>4. \A n \in 0 .. Len(f) : n \in G
  BY <1>1, <1>2, <1>3, Upwards
<1> QED  BY <1>4 DEF G

-----------------------------------------------------------------------------
(* Chains of signed records.                                               *)
LEMMA LinkedAppend ==
  ASSUME NEW sg, NEW c \in Seq(Int), NEW x \in Int, Linked(c, sg),
         x > 0 => /\ x \in DOMAIN sg
                  /\ sg[x].seq = Len(c) + 1 /\ sg[x].prev = Last0(c)
  PROVE  Linked(Append(c, x), sg)
<1> DEFINE d == Append(c, x)
<1>1. /\ d \in Seq(Int) /\ Len(d) = Len(c) + 1 /\ Len(c) \in Nat /\ d[Len(c) + 1] = x
      /\ \A k \in 1 .. Len(c) : d[k] = c[k]
      /\ Last0(c) = IF Len(c) = 0 THEN 0 ELSE c[Len(c)]
  BY LastOfAppend
<1> HIDE DEF d
<1>2. DOMAIN d = 1 .. Len(c) + 1 /\ DOMAIN c = 1 .. Len(c)
  BY <1>1
<1>3. ASSUME NEW k \in DOMAIN d, d[k] > 0
      PROVE  /\ d[k] \in DOMAIN sg
             /\ sg[d[k]].seq = k
             /\ sg[d[k]].prev = IF k = 1 THEN 0 ELSE d[k - 1]
  <2>1. CASE k \in 1 .. Len(c)
    <3>1. d[k] = c[k] /\ k \in DOMAIN c /\ (k # 1 => d[k - 1] = c[k - 1])
      BY <1>1, <1>2, <2>1
    <3>2. c[k] > 0
      BY <1>3, <3>1
    <3> QED  BY <3>1, <3>2 DEF Linked
  <2>2. CASE k = Len(c) + 1
    <3>1. d[k] = x /\ x > 0
      BY <1>1, <1>3, <2>2
    <3>2. Last0(c) = IF k = 1 THEN 0 ELSE d[k - 1]
      BY <1>1, <2>2
    <3> QED  BY <2>2, <3>1, <3>2
  <2> QED  BY <1>1, <1>2, <2>1, <2>2
<1> QED  BY <1>3 DEF Linked, d

LEMMA LinkedEmpty == Linked(<<>>, signed)
<1>1. DOMAIN (<<>>) = {}
  OBVIOUS
<1> QED  BY <1>1 DEF Linked

(* A chain of signed records is the chain its last record was signed onto: *)
(* from the end down, each prev_hash names the record before.              *)
LEMMA LineageIsChain ==
  ASSUME signed \in Seq(Signature), LineageInv, NEW c \in Seq(Int), c # <<>>, Linked(c, signed),
         \A k \in 1 .. Len(c) : c[k] > 0
  PROVE  c = signed[c[Len(c)]].lineage
<1> DEFINE L == Len(c)
           id == c[L]
           l == signed[id].lineage
<1>1. L \in Nat /\ L >= 1 /\ L \in 1 .. L /\ DOMAIN c = 1 .. L
  OBVIOUS
<1>2. id \in DOMAIN signed /\ signed[id].seq = L
  BY <1>1 DEF Linked
<1>3. signed[id] \in Signature
  BY <1>2
<1>4. l \in Seq(Int)
  BY <1>3 DEF Signature
<1>5. Len(l) = L /\ l[L] = c[L] /\ Linked(l, signed)
  BY <1>2 DEF LineageInv
<1> HIDE DEF l
<1>6. DOMAIN l = 1 .. L
  BY <1>4, <1>5
<1> DEFINE G == {j \in 0 .. L - 1 : l[L - j] = c[L - j]}
<1>7. 0 \in G
  BY <1>1, <1>5
<1>8. ASSUME NEW j \in 1 .. L - 1, j - 1 \in G
      PROVE  j \in G
  <2> DEFINE k == L - (j - 1)
  <2>1. k \in 1 .. L /\ k # 1 /\ k - 1 = L - j /\ j \in 0 .. L - 1
    BY <1>1
  <2>2. l[k] = c[k]
    BY <1>8
  <2> HIDE DEF k, L
  <2>3. c[k] > 0 /\ l[k] > 0
    BY <2>1, <2>2 DEF L
  <2>4. signed[c[k]].prev = c[k - 1]
    BY <1>1, <2>1, <2>3 DEF Linked
  <2>5. signed[l[k]].prev = l[k - 1]
    BY <1>5, <1>6, <2>1, <2>3 DEF Linked
  <2>6. l[k - 1] = c[k - 1]
    BY <2>2, <2>4, <2>5
  <2> QED  BY <2>1, <2>6
<1> HIDE DEF G
<1>9. \A j \in 0 .. L - 1 : j \in G
  <2>1. L - 1 \in Nat
    BY <1>1
  <2> HIDE DEF L
  <2> QED  BY <1>7, <1>8, <2>1, Upwards
<1>10. ASSUME NEW k \in 1 .. L PROVE l[k] = c[k]
  <2>1. L - k \in 0 .. L - 1 /\ L - (L - k) = k
    BY <1>1
  <2>2. L - k \in G
    BY <1>9, <2>1
  <2> HIDE DEF L
  <2> QED  BY <2>1, <2>2 DEF G
<1>11. l = c
  BY <1>1, <1>4, <1>5, <1>10
<1> QED  BY <1>11 DEF l

(* When every record of a log is a signed one, so is every link of its     *)
(* chain.                                                                  *)
LEMMA ChainIds ==
  ASSUME signed \in Seq(Signature), NEW f \in Seq(Line), \A n \in DOMAIN f : Sound(f[n], signed),
         \A n \in DOMAIN f : IsRecord(f[n]) => f[n].what = "record"
  PROVE  \A n \in 0 .. Len(f) : \A k \in 1 .. Len(Chains(f)[n]) :
           Chains(f)[n][k] \in DOMAIN signed /\ Chains(f)[n][k] > 0
<1> DEFINE C(n) == Chains(f)[n]
           P(n) == \A k \in 1 .. Len(C(n)) : C(n)[k] \in DOMAIN signed /\ C(n)[k] > 0
           G == {n \in 0 .. Len(f) : P(n)}
<1>1. Len(f) \in Nat /\ DOMAIN f = 1 .. Len(f) /\ 0 \in 0 .. Len(f)
  OBVIOUS
<1>2. 0 \in G
  <2>1. C(0) = <<>>
    BY ChainsType
  <2>2. Len(<<>>) = 0
    OBVIOUS
  <2> HIDE DEF C
  <2>3. P(0)
    BY <2>1, <2>2
  <2> QED  BY <1>1, <2>3
<1>3. ASSUME NEW n \in 1 .. Len(f), n - 1 \in G
      PROVE  n \in G
  <2>1. P(n - 1) /\ n \in 0 .. Len(f) /\ n - 1 \in 0 .. Len(f) /\ f[n] \in Line /\ n \in DOMAIN f
    BY <1>1, <1>3
  <2>2. /\ C(n - 1) \in Seq(Int)
        /\ IsRecord(f[n]) => C(n) = Append(C(n - 1), lineHash(f[n]))
        /\ ~ IsRecord(f[n]) => C(n) = C(n - 1)
    BY <2>1, ChainsType
  <2> HIDE DEF C
  <2>3. CASE IsRecord(f[n])
    <3> DEFINE x == lineHash(f[n])
    <3>1. x \in Int /\ x = f[n].id /\ f[n].id \in DOMAIN signed
      BY <2>1, <2>3, HashOfLine DEF Sound
    <3>2. x > 0 /\ x \in DOMAIN signed
      BY <3>1
    <3> HIDE DEF x
    <3>3. /\ Len(C(n)) = Len(C(n - 1)) + 1 /\ Len(C(n - 1)) \in Nat
          /\ C(n)[Len(C(n - 1)) + 1] = x
          /\ \A k \in 1 .. Len(C(n - 1)) : C(n)[k] = C(n - 1)[k]
      <4> DEFINE c == C(n - 1)
                 d == C(n)
      <4>1. c \in Seq(Int) /\ d = Append(c, x)
        BY <2>2, <2>3 DEF x
      <4> HIDE DEF c, d
      <4>2. /\ Len(d) = Len(c) + 1 /\ Len(c) \in Nat /\ d[Len(c) + 1] = x
            /\ \A k \in 1 .. Len(c) : d[k] = c[k]
        BY <3>1, <4>1, LastOfAppend
      <4> QED  BY <4>2 DEF c, d
    <3>4. P(n)
      <4> SUFFICES ASSUME NEW k \in 1 .. Len(C(n)) PROVE C(n)[k] \in DOMAIN signed /\ C(n)[k] > 0
        OBVIOUS
      <4>1. k \in 1 .. Len(C(n - 1)) \/ k = Len(C(n - 1)) + 1
        BY <3>3
      <4> QED  BY <2>1, <3>2, <3>3, <4>1
    <3> QED  BY <2>1, <3>4
  <2>4. CASE ~ IsRecord(f[n])
    <3>1. P(n)
      BY <2>1, <2>2, <2>4
    <3> QED  BY <2>1, <3>1
  <2> QED  BY <2>3, <2>4
<1> HIDE DEF G
<1>4. \A n \in 0 .. Len(f) : n \in G
  BY <1>1, <1>2, <1>3, Upwards
<1> QED  BY <1>4 DEF G

LEMMA ChainsStep ==
  ASSUME NEW f \in Seq(Line), NEW n \in 1 .. Len(f), IsRecord(f[n])
  PROVE  /\ Chains(f)[n - 1] \in Seq(Int) /\ Len(Chains(f)[n - 1]) \in Nat
         /\ lineHash(f[n]) \in Int /\ Chains(f)[n] = Append(Chains(f)[n - 1], lineHash(f[n]))
         /\ Len(Chains(f)[n]) = Len(Chains(f)[n - 1]) + 1
         /\ Chains(f)[n][Len(Chains(f)[n - 1]) + 1] = lineHash(f[n])
         /\ \A k \in 1 .. Len(Chains(f)[n - 1]) : Chains(f)[n][k] = Chains(f)[n - 1][k]
         /\ Last0(Chains(f)[n]) = lineHash(f[n])
         /\ Last0(Chains(f)[n - 1]) = IF Len(Chains(f)[n - 1]) = 0 THEN 0
                                      ELSE Chains(f)[n - 1][Len(Chains(f)[n - 1])]
<1> DEFINE c == Chains(f)[n - 1]
           d == Chains(f)[n]
           x == lineHash(f[n])
<1>1. n - 1 \in 0 .. Len(f) /\ f[n] \in Line
  OBVIOUS
<1>2. c \in Seq(Int) /\ x \in Int /\ d = Append(c, x)
  BY <1>1, ChainsType, HashOfLine
<1> HIDE DEF c, d, x
<1>3. /\ Len(d) = Len(c) + 1 /\ Len(c) \in Nat /\ d[Len(c) + 1] = x
      /\ \A k \in 1 .. Len(c) : d[k] = c[k]
      /\ Last0(d) = x /\ Last0(c) = IF Len(c) = 0 THEN 0 ELSE c[Len(c)]
  BY <1>2, LastOfAppend
<1> QED  BY <1>2, <1>3 DEF c, d, x

(* In a log that follows, heads are ends of chains and chains are linked.  *)
LEMMA FollowsChain ==
  ASSUME signed \in Seq(Signature), NEW f \in Seq(Line),
         \A n \in DOMAIN f : Sound(f[n], signed), Follows(f)
  PROVE  \A n \in 0 .. Len(f) : HeadEnds(f, n) /\ Linked(Chains(f)[n], signed)
<1> DEFINE P(n) == HeadEnds(f, n) /\ Linked(Chains(f)[n], signed)
           G == {n \in 0 .. Len(f) : P(n)}
<1>1. Len(f) \in Nat /\ DOMAIN f = 1 .. Len(f) /\ 0 \in 0 .. Len(f)
  OBVIOUS
<1>2. 0 \in G
  <2>1. Chains(f)[0] = <<>> /\ Heads(f)[0] = GenesisHead /\ Len(<<>>) = 0
    BY <1>1, ChainsType, HeadsDef
  <2>2. HeadEnds(f, 0)
    BY <2>1 DEF HeadEnds, Last0, GenesisHead
  <2>3. Linked(Chains(f)[0], signed)
    BY <2>1, LinkedEmpty
  <2> QED  BY <1>1, <2>2, <2>3
<1>3. ASSUME NEW n \in 1 .. Len(f), n - 1 \in G
      PROVE  n \in G
  <2> DEFINE c == Chains(f)[n - 1]
             h == Heads(f)[n - 1]
             ln == f[n]
             x == lineHash(ln)
  <2>1. HeadEnds(f, n - 1) /\ Linked(c, signed)
    BY <1>3
  <2>2. /\ n \in 0 .. Len(f) /\ ln \in Line /\ Heads(f)[n] \in ChainHead /\ h \in ChainHead
        /\ Heads(f)[n] = follow(h, ln)
    BY HeadsStep
  <2>3. Sound(ln, signed) /\ ~ oversized(ln)
    BY <1>1 DEF Follows
  <2>4. CASE Parsed(ln)
    <3>1. verifyRecord(ln, h)
      BY <2>4 DEF Follows
    <3>2. ln.what = "record" /\ IsRecord(ln) /\ x = ln.id
      BY <2>2, <2>3, <2>4, <3>1, ParsedLine, HashOfLine DEF verifyRecord
    <3>3. /\ ln.id \in DOMAIN signed /\ signed[ln.id].seq = h.seq + 1 /\ signed[ln.id].prev = h.hash
      BY <2>3, <3>1, <3>2 DEF Sound, verifyRecord
    <3>4. /\ c \in Seq(Int) /\ x \in Int /\ Chains(f)[n] = Append(c, x)
          /\ Len(Chains(f)[n]) = Len(c) + 1 /\ Last0(Chains(f)[n]) = x
      BY <3>2, ChainsStep
    <3>5. Heads(f)[n].seq = h.seq + 1 /\ Heads(f)[n].hash = x
      BY <2>2, <2>4, <3>1, FollowHead
    <3>6. Len(c) = h.seq /\ Last0(c) = h.hash
      BY <2>1 DEF HeadEnds
    <3> HIDE DEF c, h, ln, x
    <3>7. HeadEnds(f, n)
      BY <3>4, <3>5, <3>6 DEF HeadEnds
    <3>8. Linked(Append(c, x), signed)
      BY <2>1, <3>2, <3>3, <3>4, <3>6, LinkedAppend
    <3> QED  BY <2>2, <3>4, <3>7, <3>8
  <2>5. CASE ~ Parsed(ln)
    <3>1. ~ IsRecord(ln)
      BY <2>2, <2>3, <2>5, ParsedLine
    <3>2. Chains(f)[n] = c /\ Heads(f)[n] = h
      BY <2>2, <2>5, <3>1, ChainsType, FollowHead
    <3>3. HeadEnds(f, n) /\ Linked(Chains(f)[n], signed)
      BY <2>1, <3>2 DEF HeadEnds
    <3> QED  BY <2>2, <3>3
  <2> QED  BY <2>4, <2>5
<1> HIDE DEF G
<1>4. \A n \in 0 .. Len(f) : n \in G
  BY <1>1, <1>2, <1>3, Upwards
<1> QED  BY <1>4 DEF G

(* A log whose records are signed ones and linked follows.                 *)
LEMMA LinkedFollows ==
  ASSUME signed \in Seq(Signature), NEW f \in Seq(Line),
         \A n \in DOMAIN f : Sound(f[n], signed) /\ ~ oversized(f[n]),
         \A n \in DOMAIN f : Parsed(f[n]) => f[n].what = "record",
         Linked(Chain(f), signed)
  PROVE  Follows(f)
<1> DEFINE Fine(n) == Parsed(f[n]) => verifyRecord(f[n], Heads(f)[n - 1])
           P(n) == HeadEnds(f, n) /\ (n # 0 => Fine(n))
           G == {n \in 0 .. Len(f) : P(n)}
           L == Len(f)
           e == Chains(f)[L]
<1>1. L \in Nat /\ DOMAIN f = 1 .. L /\ 0 \in 0 .. L /\ L \in 0 .. L
  OBVIOUS
<1>2. 0 \in G
  <2>1. Chains(f)[0] = <<>> /\ Heads(f)[0] = GenesisHead /\ Len(<<>>) = 0
    BY <1>1, ChainsType, HeadsDef
  <2>2. HeadEnds(f, 0)
    BY <2>1 DEF HeadEnds, Last0, GenesisHead
  <2> QED  BY <1>1, <2>2
<1>3. e \in Seq(Int) /\ Len(e) \in Nat /\ Linked(e, signed)
  BY <1>1, ChainsType DEF Chain
<1>4. ASSUME NEW n \in 1 .. Len(f), n - 1 \in G
      PROVE  n \in G
  <2> DEFINE c == Chains(f)[n - 1]
             d == Chains(f)[n]
             h == Heads(f)[n - 1]
             ln == f[n]
             x == lineHash(ln)
  <2>1. Len(c) = h.seq /\ Last0(c) = h.hash
    BY <1>4 DEF HeadEnds
  <2>2. /\ n \in 0 .. Len(f) /\ ln \in Line /\ Heads(f)[n] \in ChainHead /\ h \in ChainHead
        /\ Heads(f)[n] = follow(h, ln) /\ n \in 0 .. L
    BY HeadsStep
  <2>3. Sound(ln, signed) /\ ~ oversized(ln)
    BY <1>1
  <2>4. CASE Parsed(ln)
    <3>1. ln.what = "record" /\ ln.nl
      BY <1>1, <2>4 DEF Parsed
    <3>2. IsRecord(ln) /\ x = ln.id
      BY <2>2, <2>3, <3>1, ParsedLine, HashOfLine
    <3>3. /\ ln.id \in DOMAIN signed /\ ln.seq = signed[x].seq /\ ln.prev = signed[x].prev /\ x > 0
      BY <2>3, <3>1, <3>2 DEF Sound
    <3>4. /\ Len(c) \in Nat /\ x \in Int
          /\ Len(d) = Len(c) + 1 /\ Last0(d) = x /\ d[Len(c) + 1] = x
          /\ \A k \in 1 .. Len(c) : d[k] = c[k]
          /\ Last0(c) = IF Len(c) = 0 THEN 0 ELSE c[Len(c)]
      BY <3>2, ChainsStep
    <3>5. Len(d) <= Len(e) /\ \A k \in 1 .. Len(d) : e[k] = d[k]
      <4>1. n \in 0 .. L /\ L \in 0 .. Len(f)
        BY <1>1
      <4> QED  BY <4>1, ChainsGrow
    <3> DEFINE p == Len(c) + 1
    <3> HIDE DEF c, d, e, h, ln, x, L
    <3>6. /\ p \in DOMAIN e /\ e[p] = x /\ (p # 1 => e[p - 1] = c[Len(c)])
      BY <1>3, <3>4, <3>5
    <3>7. /\ signed[x].seq = p /\ signed[x].prev = IF p = 1 THEN 0 ELSE e[p - 1]
      BY <1>3, <3>3, <3>6 DEF Linked
    <3>8. ln.seq = h.seq + 1 /\ ln.prev = h.hash
      BY <2>1, <3>3, <3>4, <3>6, <3>7
    <3>9. verifyRecord(ln, h)
      BY <3>1, <3>8 DEF verifyRecord
    <3>10. Heads(f)[n].seq = h.seq + 1 /\ Heads(f)[n].hash = x
      BY <2>2, <2>4, <3>9, FollowHead DEF x
    <3>11. HeadEnds(f, n)
      BY <2>1, <3>4, <3>10 DEF HeadEnds, d
    <3>12. Fine(n)
      BY <3>9 DEF ln, h
    <3> QED  BY <2>2, <3>11, <3>12
  <2>5. CASE ~ Parsed(ln)
    <3>1. ~ IsRecord(ln)
      BY <2>2, <2>3, <2>5, ParsedLine
    <3>2. d = c /\ Heads(f)[n] = h
      BY <2>2, <2>5, <3>1, ChainsType, FollowHead
    <3>3. HeadEnds(f, n) /\ Fine(n)
      BY <2>1, <2>5, <3>2 DEF HeadEnds
    <3> QED  BY <2>2, <3>3
  <2> QED  BY <2>4, <2>5
<1> HIDE DEF G
<1>5. \A n \in 0 .. Len(f) : n \in G
  BY <1>1, <1>2, <1>4, Upwards
<1>6. ASSUME NEW n \in 1 .. Len(f)
      PROVE  ~ oversized(f[n]) /\ Fine(n)
  <2>1. n \in 0 .. Len(f) /\ n # 0 /\ n \in DOMAIN f
    BY <1>1
  <2>2. n \in G
    BY <1>5, <2>1
  <2> HIDE DEF Fine
  <2> QED  BY <2>1, <2>2 DEF G
<1> QED  BY <1>6 DEF Follows

-----------------------------------------------------------------------------
(* What the walk accepts of the lines is what is genuine.                  *)
LEMMA FollowsIsGenuine ==
  ASSUME signed \in Seq(Signature), LineageInv, NEW f \in Seq(Line),
         \A n \in DOMAIN f : Sound(f[n], signed)
  PROVE  Follows(f) <=> Genuine(f)
<1> DEFINE Objects == {n \in DOMAIN f : f[n].nl /\ f[n].what \in {"record", "forged", "foreign"}}
           c == Chain(f)
<1>1. Len(f) \in Nat /\ DOMAIN f = 1 .. Len(f) /\ Len(f) \in 0 .. Len(f)
  OBVIOUS
<1>2. c = Chains(f)[Len(f)] /\ c \in Seq(Int)
  BY <1>1, ChainsType DEF Chain
<1>3. Genuine(f) <=> /\ \A n \in DOMAIN f : ~ oversized(f[n])
                     /\ \A n \in Objects : f[n].what = "record"
                     /\ c # <<>> => c = signed[c[Len(c)]].lineage
  BY Zenon DEF Genuine
<1>4. \A n \in DOMAIN f : /\ f[n] \in Line
                          /\ ~ oversized(f[n]) => (Parsed(f[n]) <=> n \in Objects)
                          /\ IsRecord(f[n]) => n \in Objects
  BY <1>1, ParsedLine DEF IsRecord
<1> HIDE DEF Objects
<1>5. ASSUME \A n \in Objects : f[n].what = "record"
      PROVE  \A k \in 1 .. Len(c) : c[k] \in DOMAIN signed /\ c[k] > 0
  <2>1. \A n \in DOMAIN f : IsRecord(f[n]) => f[n].what = "record"
    BY <1>4, <1>5
  <2> HIDE DEF c
  <2> QED  BY <1>1, <1>2, <2>1, ChainIds
<1>6. ASSUME Follows(f) PROVE Genuine(f)
  <2>1. \A n \in DOMAIN f : ~ oversized(f[n])
    BY <1>1, <1>6 DEF Follows
  <2>2. ASSUME NEW n \in Objects PROVE f[n].what = "record"
    <3>1. n \in DOMAIN f /\ f[n].what \in {"record", "forged", "foreign"} /\ Parsed(f[n])
      BY <1>4, <2>1 DEF Objects
    <3>2. verifyRecord(f[n], Heads(f)[n - 1])
      BY <1>1, <1>6, <3>1 DEF Follows
    <3> QED  BY <3>1, <3>2 DEF verifyRecord
  <2>3. ASSUME c # <<>> PROVE c = signed[c[Len(c)]].lineage
    <3>1. Linked(c, signed)
      BY <1>1, <1>2, <1>6, FollowsChain
    <3>2. \A k \in 1 .. Len(c) : c[k] > 0
      BY <1>5, <2>2
    <3> HIDE DEF c
    <3> QED  BY <1>2, <2>3, <3>1, <3>2, LineageIsChain
  <2> QED  BY <1>3, <2>1, <2>2, <2>3
<1>7. ASSUME Genuine(f) PROVE Follows(f)
  <2>1. /\ \A n \in DOMAIN f : ~ oversized(f[n])
        /\ \A n \in Objects : f[n].what = "record"
        /\ c # <<>> => c = signed[c[Len(c)]].lineage
    BY <1>3, <1>7
  <2>2. Linked(c, signed)
    <3>1. CASE c = <<>>
      BY <3>1, LinkedEmpty
    <3>2. CASE c # <<>>
      <4> HIDE DEF c
      <4>1. Len(c) \in 1 .. Len(c)
        BY <1>2, <3>2
      <4>2. c[Len(c)] \in DOMAIN signed
        BY <1>5, <2>1, <4>1
      <4>3. Linked(signed[c[Len(c)]].lineage, signed)
        BY <4>2 DEF LineageInv
      <4> QED  BY <2>1, <3>2, <4>3
    <3> QED  BY <3>1, <3>2
  <2>3. \A n \in DOMAIN f : Parsed(f[n]) => f[n].what = "record"
    BY <1>4, <2>1
  <2> QED  BY <2>1, <2>2, <2>3, LinkedFollows
<1> QED  BY <1>6, <1>7

(* In a log that follows, the anchor is denied by no head and is reached   *)
(* exactly when the chain holds it at its place.                           *)
LEMMA AnchorIsReached ==
  ASSUME signed \in Seq(Signature), NEW f \in Seq(Line),
         \A n \in DOMAIN f : Sound(f[n], signed), Follows(f),
         NEW a, a = None \/ (a \in ChainHead /\ (a.seq = 0 => a = GenesisHead))
  PROVE  Stops(f, a) = {} /\ (a = None \/ a.seq <= Heads(f)[Len(f)].seq) <=> Reaches(f, a)
<1> DEFINE L == Len(f)
           H(n) == Heads(f)[n]
           c == Chain(f)
           Denied(n) == a # None /\ H(n).seq = a.seq /\ H(n) # a
<1>1. L \in Nat /\ L \in 0 .. L /\ DOMAIN f = 1 .. L /\ H(0) = GenesisHead /\ 0 \in 0 .. L
  BY HeadsDef
<1>2. \A n \in 0 .. L : H(n) \in ChainHead /\ H(n).seq \in Nat
  BY HeadsType DEF ChainHead
<1>3. c \in Seq(Int) /\ Len(c) \in Nat /\ c = Chains(f)[L]
  BY <1>1, ChainsType DEF Chain
<1>4. Len(c) = H(L).seq
  BY <1>1, <1>3, FollowsChain DEF HeadEnds
<1>5. ASSUME NEW n \in 0 .. L, H(n).seq > 0
      PROVE  c[H(n).seq] = H(n).hash
  <2> DEFINE d == Chains(f)[n]
  <2>1. d \in Seq(Int) /\ Len(d) = H(n).seq /\ Last0(d) = H(n).hash
    BY ChainsType, FollowsChain DEF HeadEnds
  <2>2. \A k \in 1 .. Len(d) : c[k] = d[k]
    BY <1>1, <1>3, ChainsGrow
  <2> HIDE DEF d, H, c
  <2>3. Len(d) \in 1 .. Len(d) /\ d # <<>>
    BY <1>5, <2>1
  <2>4. Last0(d) = d[Len(d)]
    BY <2>3 DEF Last0
  <2> QED  BY <2>1, <2>2, <2>3, <2>4
<1>6. Stops(f, a) = {} <=> \A n \in 0 .. L : ~ Denied(n)
  <2>1. 0 \in Stops(f, a) <=> Denied(0)
    <3>1. 0 \in Stops(f, a) <=> a # None /\ a.seq = 0 /\ a # GenesisHead
      BY StopsAt
    <3>2. GenesisHead.seq = 0
      BY DEF GenesisHead
    <3> QED  BY <1>1, <3>1, <3>2
  <2>2. ASSUME NEW n \in 1 .. L PROVE n \in Stops(f, a) <=> Denied(n)
    <3>1. n \in Stops(f, a) <=>
                \/ oversized(f[n])
                \/ Parsed(f[n]) /\ ~ verifyRecord(f[n], Heads(f)[n - 1])
                \/ a # None /\ Heads(f)[n].seq = a.seq /\ Heads(f)[n] # a
      BY StopsAt
    <3>2. ~ oversized(f[n]) /\ (Parsed(f[n]) => verifyRecord(f[n], Heads(f)[n - 1]))
      BY DEF Follows
    <3> QED  BY <3>1, <3>2, Zenon
  <2>3. Stops(f, a) \subseteq 0 .. L
    BY StopsAt
  <2> HIDE DEF Denied, L
  <2>4. \A n \in 0 .. L : n = 0 \/ n \in 1 .. L
    BY <1>1
  <2>5. \A n \in 0 .. L : n \in Stops(f, a) <=> Denied(n)
    BY <2>1, <2>2, <2>4
  <2> QED  BY <2>3, <2>5
<1>7. CASE a = None
  <2>1. ~ (a.seq > 0)
    BY <1>7 DEF None
  <2> QED  BY <1>6, <1>7, <2>1 DEF Reaches
<1>8. CASE a # None /\ a = GenesisHead
  <2>1. a.seq = 0 /\ ~ (a.seq > 0)
    BY <1>8 DEF GenesisHead
  <2>2. ASSUME NEW n \in 0 .. L, H(n).seq = 0 PROVE H(n) = a
    <3>1. 0 \in 0 .. n /\ H(0).seq = 0
      BY <1>1, <1>8, <2>1
    <3> QED  BY <1>1, <1>8, <2>2, <3>1, HeadsContiguous
  <2>3. a.seq <= H(L).seq
    BY <1>1, <1>2, <2>1
  <2>4. \A n \in 0 .. L : ~ Denied(n)
    BY <2>1, <2>2
  <2> HIDE DEF Denied, L
  <2> QED  BY <1>6, <2>1, <2>3, <2>4 DEF Reaches, L
<1>9. CASE a # None /\ a.seq > 0 /\ a \in ChainHead
  <2>1. a.seq \in Nat /\ a = [seq |-> a.seq, hash |-> a.hash]
    BY <1>9 DEF ChainHead
  <2>2. Reaches(f, a) <=> a.seq <= H(L).seq /\ c[a.seq] = a.hash
    BY <1>2, <1>3, <1>4, <1>9, <2>1 DEF Reaches
  <2>3. ASSUME a.seq <= H(L).seq, \A n \in 0 .. L : ~ Denied(n)
        PROVE  c[a.seq] = a.hash
    <3>1. a.seq \in 0 .. H(L).seq
      BY <1>1, <1>2, <2>1, <2>3
    <3>2. PICK n \in 0 .. L : H(n).seq = a.seq
      BY <1>1, <3>1, HeadsContiguous
    <3>3. H(n) = a
      BY <1>9, <2>3, <3>2
    <3> HIDE DEF H, c
    <3> QED  BY <1>5, <1>9, <3>2, <3>3
  <2>4. ASSUME c[a.seq] = a.hash, NEW n \in 0 .. L PROVE ~ Denied(n)
    <3> SUFFICES ASSUME H(n).seq = a.seq PROVE H(n) = a
      OBVIOUS
    <3> HIDE DEF H, c
    <3>1. H(n).hash = a.hash
      BY <1>5, <1>9, <2>4
    <3>2. H(n) \in ChainHead
      BY <1>2
    <3>3. H(n) = [seq |-> H(n).seq, hash |-> H(n).hash]
      BY <3>2 DEF ChainHead
    <3> QED  BY <2>1, <3>1, <3>3
  <2> HIDE DEF Denied, c
  <2> QED  BY <1>6, <1>9, <2>2, <2>3, <2>4
<1>10. a # None => a \in ChainHead /\ (a = GenesisHead \/ a.seq > 0)
  BY DEF ChainHead
<1> QED  BY <1>7, <1>8, <1>9, <1>10

(* The three anchors a verification is started with.                       *)
LEMMA AnchorOfRun ==
  ASSUME TypeOK, AnchorInv, NEW a \in {None, GenesisHead, anchor}
  PROVE  a = None \/ (a \in ChainHead /\ (a.seq = 0 => a = GenesisHead))
<1>1. GenesisHead \in ChainHead
  BY DEF GenesisHead, ChainHead
<1>2. anchor.seq > 0 => anchor \in ChainHead /\ anchor.seq # 0
  BY DEF TypeOK, ChainHead
<1> QED  BY <1>1, <1>2 DEF AnchorInv

(* What the specification's verifier accepts is what is genuine and        *)
(* reaches the anchor.                                                     *)
LEMMA SpecVerdict ==
  ASSUME VerifyInv, NEW a \in {None, GenesisHead, anchor}
  PROVE  VerifyAnchored(file, a).status # "INVALID" <=> Genuine(file) /\ Reaches(file, a)
<1>1. /\ TypeOK /\ LineageInv /\ AnchorInv /\ signed \in Seq(Signature) /\ file \in Seq(Line)
      /\ \A n \in DOMAIN file : Sound(file[n], signed)
  BY DEF VerifyInv, TypeOK, LinesInv
<1>2. a = None \/ (a \in ChainHead /\ (a.seq = 0 => a = GenesisHead))
  BY <1>1, AnchorOfRun
<1>3. VerifyAnchored(file, a).status # "INVALID" <=>
        Stops(file, a) = {} /\ (a = None \/ a.seq <= Heads(file)[Len(file)].seq)
  BY <1>1, <1>2, SpecReported
<1>4. Stops(file, a) = {} => Follows(file)
  BY <1>1, StopsAt DEF Follows
<1>5. Follows(file) <=> Genuine(file)
  BY <1>1, FollowsIsGenuine
<1>6. Follows(file) =>
        (Stops(file, a) = {} /\ (a = None \/ a.seq <= Heads(file)[Len(file)].seq) <=> Reaches(file, a))
  BY <1>1, <1>2, AnchorIsReached
<1> QED  BY <1>3, <1>4, <1>5, <1>6

LEMMA VerdictOfInv ==
  ASSUME VerifyInv
  PROVE  VerdictIsRight /\ VerifiersAgree
<1> DEFINE t == TakenFile(file)
           Plain == \A n \in DOMAIN file : ~ Misread(file[n])
<1>1. TypeOK /\ AnchorInv /\ file \in Seq(Line)
  BY DEF VerifyInv, TypeOK
<1>2. /\ t \in Seq(Line) /\ Len(t) = Len(file) /\ Len(file) \in Nat /\ DOMAIN t = DOMAIN file
      /\ DOMAIN file = 1 .. Len(file) /\ \A n \in DOMAIN file : file[n] \in Line
      /\ \A n \in DOMAIN file : t[n] = Taken(file[n])
      /\ \A n \in DOMAIN t : ~ Misread(t[n])
  BY <1>1, TakenLines
<1>3. ASSUME NEW a \in {None, GenesisHead, anchor}
      PROVE  /\ Verify(file, a) = VerifyAnchored(t, a)
             /\ Verify(file, a).status # "INVALID" <=>
                  VerifyAnchored(file, a).status # "INVALID" /\ Plain
  <2>1. a = None \/ a \in ChainHead
    BY <1>1, AnchorOfRun
  <2>2. Verify(file, a) = VerifyAnchored(t, a)
    BY <1>1, <1>2, <2>1, Reported, TakenVerify
  <2>3. CASE Plain
    <3>1. t = file
      <4>1. \A n \in DOMAIN file : t[n] = file[n]
        BY <1>2, <2>3, TakenLine
      <4> QED  BY <1>1, <1>2, <4>1
    <3> QED  BY <2>2, <2>3, <3>1
  <2>4. CASE ~ Plain
    <3>1. PICK n \in DOMAIN file : Misread(file[n])
      BY <2>4
    <3>2. n \in 1 .. Len(t) /\ Parsed(t[n]) /\ ~ verifyRecord(t[n], Heads(t)[n - 1])
      BY <1>2, <3>1, TakenLine
    <3>3. n \in Stops(t, a)
      BY <1>2, <3>2, StopsAt
    <3>4. VerifyAnchored(t, a).status = "INVALID"
      BY <1>2, <2>1, <3>3, SpecReported
    <3> QED  BY <2>2, <2>4, <3>4
  <2> QED  BY <2>2, <2>3, <2>4
<1>4. VerifiersAgree
  BY <1>3 DEF VerifiersAgree
<1>5. VerdictIsRight
  BY <1>3, SpecVerdict DEF VerdictIsRight
<1> QED  BY <1>4, <1>5

-----------------------------------------------------------------------------
(* The walk of the writer's Open, without a keyring and without an anchor. *)
LEMMA OpenStep ==
  ASSUME NEW w \in Walks, NEW ln \in Line, NEW k \in Nat
  PROVE  /\ IsRecord(ln) /\ ln.seq = w.nextSeq /\ ln.prev = w.prevHash /\ ~ tooLong(ln) =>
              step(w, ln, k, FALSE, None)
              = [w EXCEPT !.prevHash = lineHash(ln), !.nextSeq = @ + 1, !.records = @ + 1]
         /\ IsRecord(ln) /\ ~ (ln.seq = w.nextSeq /\ ln.prev = w.prevHash /\ ~ tooLong(ln)) =>
              step(w, ln, k, FALSE, None) = invalid(w, k)
         /\ ~ IsRecord(ln) => step(w, ln, k, FALSE, None) \in {invalid(w, k), damage(w, k)}
<1>1. ln.what \in Kinds /\ ln.nl \in BOOLEAN
  BY DEF Line
<1>2. \A v : checkAnchor(v, None, k) = v
  BY DEF checkAnchor
<1>3. CASE IsRecord(ln) /\ ln.seq = w.nextSeq /\ ln.prev = w.prevHash /\ ~ tooLong(ln)
  BY <1>2, <1>3 DEF step, IsRecord, Refused, Unparseable
<1>4. CASE IsRecord(ln) /\ ~ (ln.seq = w.nextSeq /\ ln.prev = w.prevHash /\ ~ tooLong(ln))
  BY <1>4 DEF step, IsRecord, Refused, Unparseable
<1>5. CASE ~ IsRecord(ln)
  <2>1. ~ ln.nl \/ ln.what \in {"foreign", "value", "fragment"}
    BY <1>1, <1>5 DEF IsRecord, Kinds
  <2> QED  BY <1>5, <2>1 DEF step, Refused, Unparseable
<1> QED  BY <1>3, <1>4, <1>5, Zenon

LEMMA WalkDamage ==
  ASSUME NEW u \in Walks, NEW k \in Nat
  PROVE  /\ damage(u, k) \in Walks /\ damage(u, k).failed = u.failed
         /\ damage(u, k).nextSeq = u.nextSeq /\ damage(u, k).prevHash = u.prevHash
<1>1. u.damaged \cup {k} \in SUBSET Nat
  BY DEF Walks
<1> QED  BY <1>1 DEF Walks, damage

(* A log that Open accepts has a linked chain, and what is signed next is  *)
(* signed onto its end.                                                    *)
LEMMA OpenWalk ==
  ASSUME signed \in Seq(Signature), NEW f \in Seq(Line), \A n \in DOMAIN f : Sound(f[n], signed)
  PROVE  LET w == walk(f, FALSE, None)
         IN  /\ w \in Walks
             /\ ~ w.failed => /\ w.nextSeq = Len(Chain(f)) + 1 /\ w.prevHash = Last0(Chain(f))
                              /\ Linked(Chain(f), signed) /\ Chain(f) \in Seq(Int)
<1> DEFINE W(n) == walked(f, FALSE, None)[n]
           C(n) == Chains(f)[n]
           P(n) == /\ W(n) \in Walks
                   /\ ~ W(n).failed => /\ W(n).nextSeq = Len(C(n)) + 1 /\ W(n).prevHash = Last0(C(n))
                                       /\ Linked(C(n), signed)
           G == {n \in 0 .. Len(f) : P(n)}
<1>1. Len(f) \in Nat /\ DOMAIN f = 1 .. Len(f) /\ 0 \in 0 .. Len(f) /\ Len(f) \in 0 .. Len(f)
  OBVIOUS
<1>2. 0 \in G
  <2>1. W(0) = start /\ C(0) = <<>> /\ Len(<<>>) = 0
    <3>1. checkAnchor(start, None, 0) = start
      BY DEF checkAnchor
    <3> QED  BY <1>1, <3>1, WalkedDef, ChainsType
  <2>2. start \in Walks /\ start.nextSeq = 1 /\ start.prevHash = 0
    BY DEF start, Walks
  <2>3. Last0(<<>>) = 0
    BY DEF Last0
  <2> HIDE DEF W, C
  <2>4. P(0)
    BY <2>1, <2>2, <2>3, LinkedEmpty
  <2> QED  BY <1>1, <2>4
<1>3. ASSUME NEW n \in 1 .. Len(f), n - 1 \in G
      PROVE  n \in G
  <2> DEFINE w == W(n - 1)
             c == C(n - 1)
             ln == f[n]
             x == lineHash(ln)
  <2>1. w \in Walks /\ (~ w.failed => /\ w.nextSeq = Len(c) + 1 /\ w.prevHash = Last0(c)
                                      /\ Linked(c, signed))
    BY <1>3
  <2>2. W(n) = IF w.failed THEN w ELSE step(w, ln, n, FALSE, None)
    BY <1>1, WalkedDef DEF advance
  <2>3. ln \in Line /\ Sound(ln, signed) /\ n \in Nat /\ n \in 0 .. Len(f)
    BY <1>1
  <2>4. CASE w.failed
    <3> HIDE DEF W, C, w
    <3> QED  BY <2>1, <2>2, <2>3, <2>4
  <2>5. CASE ~ w.failed /\ IsRecord(ln) /\ ln.seq = w.nextSeq /\ ln.prev = w.prevHash /\ ~ tooLong(ln)
    <3>1. W(n) = [w EXCEPT !.prevHash = x, !.nextSeq = @ + 1, !.records = @ + 1]
      BY <2>1, <2>2, <2>3, <2>5, OpenStep
    <3>2. /\ c \in Seq(Int) /\ Len(c) \in Nat /\ x \in Int /\ C(n) = Append(c, x)
          /\ Len(C(n)) = Len(c) + 1 /\ Last0(C(n)) = x
      BY <2>5, ChainsStep
    <3>3. x > 0 => x \in DOMAIN signed /\ signed[x].seq = Len(c) + 1 /\ signed[x].prev = Last0(c)
      <4> SUFFICES ASSUME x > 0 PROVE x \in DOMAIN signed /\ signed[x].seq = Len(c) + 1 /\ signed[x].prev = Last0(c)
        OBVIOUS
      <4>1. ln.what = "record" \/ ln.what = "forged"
        BY <2>5 DEF IsRecord
      <4>2. ln.what # "forged"
        <5> SUFFICES ASSUME ln.what = "forged" PROVE FALSE
          OBVIOUS
        <5>1. x < 0
          BY <2>3, HashOfLine DEF Sound
        <5> HIDE DEF x
        <5> QED  BY <3>2, <5>1
      <4>3. x = ln.id /\ ln.what = "record"
        BY <2>3, <4>1, <4>2, HashOfLine
      <4>4. ln.id \in DOMAIN signed /\ ln.seq = signed[ln.id].seq /\ ln.prev = signed[ln.id].prev
        BY <2>3, <4>3 DEF Sound
      <4> HIDE DEF W, C, w, c, ln, x
      <4> QED  BY <2>1, <2>5, <4>3, <4>4
    <3> HIDE DEF W, C, w, c, ln, x
    <3>4. Linked(C(n), signed)
      BY <2>1, <2>5, <3>2, <3>3, LinkedAppend
    <3>5. W(n) \in Walks /\ W(n).nextSeq = w.nextSeq + 1 /\ W(n).prevHash = x
      <4> DEFINE v == [w EXCEPT !.prevHash = x, !.nextSeq = @ + 1, !.records = @ + 1]
      <4>1. v \in Walks /\ v.nextSeq = w.nextSeq + 1 /\ v.prevHash = x
        BY <2>1, <3>2, WalkRecord
      <4>2. W(n) = v
        BY <3>1
      <4> HIDE DEF v
      <4> QED  BY <4>1, <4>2
    <3>6. P(n)
      BY <2>1, <2>5, <3>2, <3>4, <3>5
    <3> QED  BY <2>3, <3>6
  <2>6. CASE ~ w.failed /\ IsRecord(ln) /\ ~ (ln.seq = w.nextSeq /\ ln.prev = w.prevHash /\ ~ tooLong(ln))
    <3>1. W(n) = invalid(w, n)
      BY <2>1, <2>2, <2>3, <2>6, OpenStep
    <3> HIDE DEF W, C, w
    <3>2. W(n) \in Walks /\ W(n).failed
      BY <2>1, <2>3, <3>1, WalkInvalid
    <3> QED  BY <2>3, <3>2
  <2>7. CASE ~ w.failed /\ ~ IsRecord(ln)
    <3>1. W(n) = invalid(w, n) \/ W(n) = damage(w, n)
      BY <2>1, <2>2, <2>3, <2>7, OpenStep
    <3>2. C(n) = c
      BY <2>7, ChainsType
    <3> HIDE DEF W, C, w, c
    <3>3. CASE W(n) = invalid(w, n)
      <4>1. W(n) \in Walks /\ W(n).failed
        BY <2>1, <2>3, <3>3, WalkInvalid
      <4> QED  BY <2>3, <4>1
    <3>4. CASE W(n) = damage(w, n)
      <4>1. W(n) \in Walks /\ W(n).nextSeq = w.nextSeq /\ W(n).prevHash = w.prevHash
        BY <2>1, <2>3, <3>4, WalkDamage
      <4> QED  BY <2>1, <2>3, <2>7, <3>2, <4>1
    <3> QED  BY <3>1, <3>3, <3>4
  <2> HIDE DEF G, w, ln
  <2> QED  BY <2>4, <2>5, <2>6, <2>7
<1> HIDE DEF G
<1>4. \A n \in 0 .. Len(f) : n \in G
  BY <1>1, <1>2, <1>3, Upwards
<1>5. P(Len(f))
  BY <1>1, <1>4 DEF G
<1>6. walk(f, FALSE, None) = W(Len(f))
  BY DEF walk, checkTruncated
<1>7. Chain(f) = C(Len(f)) /\ C(Len(f)) \in Seq(Int)
  BY <1>1, ChainsType DEF Chain
<1> HIDE DEF W, C
<1> QED  BY <1>5, <1>6, <1>7

-----------------------------------------------------------------------------
(* Steps of the log.                                                       *)
LEMMA ClosedLines ==
  ASSUME NEW f \in Seq(Line), NEW sg, \A n \in DOMAIN f : Sound(f[n], sg)
  PROVE  /\ Closed(f) \in Seq(Line) /\ Len(Closed(f)) = Len(f)
         /\ \A n \in DOMAIN Closed(f) : Sound(Closed(f)[n], sg)
<1>1. CASE f = <<>>
  BY <1>1 DEF Closed
<1>2. CASE f # <<>>
  <2> DEFINE L == Len(f)
             ln == [f[L] EXCEPT !.nl = TRUE]
             g == [f EXCEPT ![L] = ln]
  <2>1. L \in Nat /\ L \in 1 .. L /\ DOMAIN f = 1 .. L /\ f[L] \in Line
    BY <1>2
  <2>2. ln \in Line
    BY <2>1 DEF Line
  <2>3. ln.what = f[L].what /\ ln.id = f[L].id /\ ln.seq = f[L].seq /\ ln.prev = f[L].prev
    BY <2>1 DEF Line
  <2>4. Closed(f) = g
    BY <1>2 DEF Closed
  <2> HIDE DEF ln
  <2>5. Sound(ln, sg)
    BY <2>1, <2>3 DEF Sound
  <2>6. g \in Seq(Line) /\ Len(g) = L /\ DOMAIN g = 1 .. L
    BY <2>1, <2>2
  <2>7. ASSUME NEW n \in 1 .. L PROVE Sound(g[n], sg)
    <3>1. g[n] = IF n = L THEN ln ELSE f[n]
      BY <2>1
    <3> QED  BY <2>1, <2>5, <3>1
  <2> QED  BY <2>4, <2>6, <2>7
<1> QED  BY <1>1, <1>2

LEMMA Grown ==
  ASSUME NEW S, NEW s \in Seq(S), NEW x \in S
  PROVE  /\ Append(s, x) \in Seq(S) /\ DOMAIN s = 1 .. Len(s) /\ Len(s) \in Nat
         /\ DOMAIN Append(s, x) = 1 .. Len(s) + 1
         /\ \A n \in 1 .. Len(s) : Append(s, x)[n] = s[n]
         /\ Append(s, x)[Len(s) + 1] = x
OBVIOUS

(* What was said of the signed records stays true as more are signed.      *)
LEMMA SignedGrows ==
  ASSUME NEW sg \in Seq(Signature), NEW s \in Signature
  PROVE  /\ \A ln : Sound(ln, sg) => Sound(ln, Append(sg, s))
         /\ \A c : Linked(c, sg) => Linked(c, Append(sg, s))
<1> DEFINE t == Append(sg, s)
<1>1. DOMAIN sg \subseteq DOMAIN t /\ \A n \in DOMAIN sg : t[n] = sg[n]
  BY Grown
<1> HIDE DEF t
<1>2. ASSUME NEW ln, Sound(ln, sg) PROVE Sound(ln, t)
  BY <1>1, <1>2 DEF Sound
<1>3. ASSUME NEW c, Linked(c, sg) PROVE Linked(c, t)
  BY <1>1, <1>3 DEF Linked
<1> QED  BY <1>2, <1>3 DEF t

LEMMA InitInv == Init => VerifyInv
<1> SUFFICES ASSUME Init PROVE VerifyInv
  OBVIOUS
<1>1. <<>> \in Seq(Line) /\ <<>> \in Seq(Signature) /\ DOMAIN (<<>>) = {}
  OBVIOUS
<1>2. None \in [seq : Int, hash : Int] /\ 0 \in 0 .. MaxEdits
  BY VerifyAssumption DEF None
<1>3. TypeOK
  BY <1>1, <1>2, Zenon DEF Init, TypeOK
<1>4. LinesInv /\ LineageInv /\ AnchorInv
  BY <1>1, Zenon DEF Init, LinesInv, LineageInv, AnchorInv
<1> QED  BY <1>3, <1>4 DEF VerifyInv

LEMMA SignInv ==
  ASSUME VerifyInv, NEW left \in {"all", "unterminated", "fragment"}, NEW excess \in {0, 1},
         Sign(left, excess)
  PROVE  VerifyInv'
<1> DEFINE f == Closed(file)
           w == walk(f, FALSE, None)
           id == Len(signed) + 1
           ln == LineOf("record", id, w.nextSeq, w.prevHash, excess)
           s == [seq |-> w.nextSeq, prev |-> w.prevHash, excess |-> excess,
                 lineage |-> Append(Chain(f), id)]
           put == CASE left = "all" -> ln
                    [] left = "unterminated" -> [ln EXCEPT !.nl = FALSE]
                    [] left = "fragment" -> [ln EXCEPT !.what = "fragment", !.nl = FALSE, !.excess = 0]
<1>1. /\ file \in Seq(Line) /\ signed \in Seq(Signature) /\ anchor \in [seq : Int, hash : Int]
      /\ edits \in 0 .. MaxEdits /\ LinesInv /\ LineageInv /\ AnchorInv
  BY DEF VerifyInv, TypeOK
<1>2. /\ ~ w.failed /\ signed' = Append(signed, s) /\ file' = Append(f, put)
      /\ anchor' = anchor /\ edits' = edits
  BY Zenon DEF Sign
<1>3. f \in Seq(Line) /\ \A n \in DOMAIN f : Sound(f[n], signed)
  BY <1>1, ClosedLines DEF LinesInv
<1>4. /\ w \in Walks /\ w.nextSeq = Len(Chain(f)) + 1 /\ w.prevHash = Last0(Chain(f))
      /\ Linked(Chain(f), signed) /\ Chain(f) \in Seq(Int)
  BY <1>1, <1>2, <1>3, OpenWalk
<1>5. w.nextSeq \in Nat /\ w.prevHash \in Int /\ id \in Nat
  <2> HIDE DEF w
  <2>1. w.nextSeq \in Nat /\ w.prevHash \in Int
    BY <1>4 DEF Walks
  <2> QED  BY <1>1, <2>1
<1> HIDE DEF f, w, put
<1>6. /\ Append(Chain(f), id) \in Seq(Int) /\ Len(Append(Chain(f), id)) = w.nextSeq
      /\ Append(Chain(f), id)[w.nextSeq] = id /\ w.nextSeq > 0
  BY <1>4, <1>5, LastOfAppend
<1>7. s \in Signature
  BY <1>5, <1>6 DEF Signature
<1>8. /\ signed' \in Seq(Signature) /\ DOMAIN signed' = 1 .. id /\ DOMAIN signed = 1 .. Len(signed)
      /\ \A n \in 1 .. Len(signed) : signed'[n] = signed[n]
      /\ signed'[id] = s /\ Len(signed) \in Nat
  BY <1>1, <1>2, <1>7, Grown
<1>9. /\ \A l : Sound(l, signed) => Sound(l, signed')
      /\ \A c : Linked(c, signed) => Linked(c, signed')
  BY <1>1, <1>2, <1>7, SignedGrows
<1>10. put \in Line /\ Sound(put, signed')
  <2>1. ln \in Line /\ ln.what = "record" /\ ln.id = id /\ ln.seq = w.nextSeq /\ ln.prev = w.prevHash
    BY <1>5 DEF Line, LineOf, Kinds
  <2> HIDE DEF ln, s
  <2>2. s.seq = w.nextSeq /\ s.prev = w.prevHash /\ id \in DOMAIN signed'
    BY <1>5, <1>8 DEF s
  <2>3. CASE left = "all"
    <3>1. put = ln
      BY <2>3 DEF put
    <3> QED  BY <1>8, <2>1, <2>2, <3>1 DEF Sound
  <2>4. CASE left = "unterminated"
    <3>1. put = [ln EXCEPT !.nl = FALSE]
      BY <2>4 DEF put
    <3>2. put \in Line /\ put.what = "record" /\ put.id = id /\ put.seq = w.nextSeq /\ put.prev = w.prevHash
      BY <2>1, <3>1 DEF Line
    <3> QED  BY <1>8, <2>2, <3>2 DEF Sound
  <2>5. CASE left = "fragment"
    <3>1. put = [ln EXCEPT !.what = "fragment", !.nl = FALSE, !.excess = 0]
      BY <2>5 DEF put
    <3>2. put \in Line /\ put.what = "fragment"
      <4> DEFINE u == [ln EXCEPT !.what = "fragment", !.nl = FALSE]
      <4>1. u \in Line /\ u.what = "fragment"
        BY <2>1 DEF Line, Kinds
      <4>2. put = [u EXCEPT !.excess = 0]
        BY <3>1
      <4> HIDE DEF u
      <4> QED  BY <4>1, <4>2 DEF Line
    <3> QED  BY <3>2 DEF Sound
  <2> QED  BY <2>3, <2>4, <2>5
<1>11. /\ file' \in Seq(Line) /\ DOMAIN file' = 1 .. Len(f) + 1 /\ DOMAIN f = 1 .. Len(f)
       /\ \A n \in 1 .. Len(f) : file'[n] = f[n]
       /\ file'[Len(f) + 1] = put /\ Len(f) \in Nat
  BY <1>2, <1>3, <1>10, Grown
<1>12. TypeOK'
  BY <1>1, <1>2, <1>8, <1>11 DEF TypeOK
<1>13. LinesInv'
  <2> SUFFICES ASSUME NEW n \in DOMAIN file' PROVE Sound(file'[n], signed')
    BY DEF LinesInv
  <2>1. n \in 1 .. Len(f) \/ n = Len(f) + 1
    BY <1>11
  <2>2. CASE n \in 1 .. Len(f)
    <3>1. Sound(f[n], signed) /\ file'[n] = f[n]
      BY <1>3, <1>11, <2>2
    <3> QED  BY <1>9, <3>1
  <2>3. CASE n = Len(f) + 1
    BY <1>10, <1>11, <2>3
  <2> QED  BY <2>1, <2>2, <2>3
<1>14. LineageInv'
  <2> SUFFICES ASSUME NEW i \in DOMAIN signed'
               PROVE  /\ Len(signed'[i].lineage) = signed'[i].seq /\ signed'[i].seq > 0
                      /\ signed'[i].lineage[signed'[i].seq] = i /\ Linked(signed'[i].lineage, signed')
    BY DEF LineageInv
  <2>1. i \in 1 .. Len(signed) \/ i = id
    BY <1>8
  <2>2. CASE i \in 1 .. Len(signed)
    <3>1. signed'[i] = signed[i] /\ i \in DOMAIN signed
      BY <1>8, <2>2
    <3>2. /\ Len(signed[i].lineage) = signed[i].seq /\ signed[i].seq > 0
          /\ signed[i].lineage[signed[i].seq] = i /\ Linked(signed[i].lineage, signed)
      BY <1>1, <3>1 DEF LineageInv
    <3> QED  BY <1>9, <3>1, <3>2
  <2>3. CASE i = id
    <3>1. /\ signed'[i] = s /\ s.seq = w.nextSeq /\ s.prev = w.prevHash
          /\ s.lineage = Append(Chain(f), id)
      BY <1>8, <2>3
    <3> HIDE DEF s
    <3>2. Linked(Chain(f), signed')
      BY <1>4, <1>9
    <3>3. /\ id \in DOMAIN signed' /\ signed'[id].seq = Len(Chain(f)) + 1
          /\ signed'[id].prev = Last0(Chain(f)) /\ id \in Int
      BY <1>4, <1>5, <1>8, <3>1
    <3> HIDE DEF id
    <3>4. Linked(Append(Chain(f), id), signed')
      BY <1>4, <3>2, <3>3, LinkedAppend
    <3> QED  BY <1>6, <2>3, <3>1, <3>4
  <2> QED  BY <2>1, <2>2, <2>3
<1>15. AnchorInv'
  BY <1>1, <1>2 DEF AnchorInv
<1> QED  BY <1>12, <1>13, <1>14, <1>15 DEF VerifyInv

(* A step that only changes lines, and puts none that is not sound.        *)
LEMMA LinesChange ==
  ASSUME VerifyInv, UNCHANGED <<signed, anchor>>, edits' \in 0 .. MaxEdits,
         file' \in Seq(Line), \A n \in DOMAIN file' : Sound(file'[n], signed)
  PROVE  VerifyInv'
<1>1. TypeOK' /\ AnchorInv'
  BY DEF VerifyInv, TypeOK, AnchorInv
<1>2. LinesInv' /\ LineageInv'
  BY DEF VerifyInv, LinesInv, LineageInv
<1> QED  BY <1>1, <1>2 DEF VerifyInv

LEMMA OpenRefusedInv ==
  ASSUME VerifyInv, OpenRefused
  PROVE  VerifyInv'
<1>1. file \in Seq(Line) /\ edits \in 0 .. MaxEdits /\ \A n \in DOMAIN file : Sound(file[n], signed)
  BY DEF VerifyInv, TypeOK, LinesInv
<1>2. file' = Closed(file) /\ UNCHANGED <<signed, anchor>> /\ edits' = edits
  BY DEF OpenRefused
<1>3. Closed(file) \in Seq(Line) /\ \A n \in DOMAIN Closed(file) : Sound(Closed(file)[n], signed)
  BY <1>1, ClosedLines
<1> QED  BY <1>1, <1>2, <1>3, LinesChange

LEMMA InventedLines ==
  ASSUME VerifyInv, NEW ln \in Invented \cup {RecordLine(id) : id \in DOMAIN signed}
  PROVE  ln \in Line /\ Sound(ln, signed)
<1>1. signed \in Seq(Signature)
  BY DEF VerifyInv, TypeOK
<1>2. CASE \E what \in Inventions \ {"forged"}, e \in Excesses : ln = LineOf(what, 0, 0, 0, e)
  <2>1. PICK what \in Inventions \ {"forged"}, e \in Excesses : ln = LineOf(what, 0, 0, 0, e)
    BY <1>2
  <2>2. what \in {"foreign", "value", "fragment"} /\ e \in 0 .. 3
    BY VerifyAssumption
  <2> QED  BY <2>1, <2>2 DEF LineOf, Line, Kinds, Sound
<1>3. CASE \E q \in 1 .. MaxSigned, h \in 0 .. Len(signed) : ln = LineOf("forged", 0, q, h, 0)
  <2>1. PICK q \in 1 .. MaxSigned, h \in 0 .. Len(signed) : ln = LineOf("forged", 0, q, h, 0)
    BY <1>3
  <2>2. Len(signed) \in Nat /\ q \in Nat /\ q > 0 /\ h \in Int /\ h >= 0
    BY <1>1, VerifyAssumption
  <2> QED  BY <2>1, <2>2 DEF LineOf, Line, Kinds, Sound
<1>4. CASE \E id \in DOMAIN signed : ln = RecordLine(id)
  <2>1. PICK id \in DOMAIN signed : ln = RecordLine(id)
    BY <1>4
  <2>2. signed[id] \in Signature /\ id \in Nat
    BY <1>1
  <2>3. signed[id].seq \in Nat /\ signed[id].prev \in Int /\ signed[id].excess \in 0 .. 3
    BY <2>2 DEF Signature
  <2>4. ln = [what |-> "record", id |-> id, seq |-> signed[id].seq, prev |-> signed[id].prev,
              nl |-> TRUE, excess |-> signed[id].excess]
    BY <2>1 DEF RecordLine, LineOf
  <2>5. ln \in Line
    BY <2>2, <2>3, <2>4 DEF Line, Kinds
  <2>6. Sound(ln, signed)
    BY <2>4 DEF Sound
  <2> QED  BY <2>5, <2>6
<1>5. ln \in Invented => \/ \E what \in Inventions \ {"forged"}, e \in Excesses : ln = LineOf(what, 0, 0, 0, e)
                        \/ \E q \in 1 .. MaxSigned, h \in 0 .. Len(signed) : ln = LineOf("forged", 0, q, h, 0)
  BY DEF Invented
<1> QED  BY <1>2, <1>3, <1>4, <1>5

LEMMA EditInv ==
  ASSUME VerifyInv, Edit
  PROVE  VerifyInv'
<1> DEFINE L == Len(file)
<1>1. /\ file \in Seq(Line) /\ edits \in 0 .. MaxEdits /\ \A n \in DOMAIN file : Sound(file[n], signed)
      /\ L \in Nat /\ DOMAIN file = 1 .. L
  BY DEF VerifyInv, TypeOK, LinesInv
<1>2. UNCHANGED <<signed, anchor>> /\ edits' \in 0 .. MaxEdits
  BY <1>1, VerifyAssumption DEF Edit
<1>3. ASSUME NEW N \in Nat, DOMAIN file' = 1 .. N, file' = [n \in 1 .. N |-> file'[n]],
             \A n \in 1 .. N : file'[n] \in Line /\ Sound(file'[n], signed)
      PROVE  VerifyInv'
  <2>1. file' \in Seq(Line)
    BY <1>3
  <2> QED  BY <1>2, <1>3, <2>1, LinesChange
<1>4. ASSUME NEW i \in DOMAIN file, file' = Removed(file, i)
      PROVE  VerifyInv'
  <2>1. L - 1 \in Nat
    BY <1>1, <1>4
  <2>2. file' = [n \in 1 .. L - 1 |-> IF n < i THEN file[n] ELSE file[n + 1]]
    BY <1>4 DEF Removed
  <2>3. ASSUME NEW n \in 1 .. L - 1 PROVE file'[n] \in Line /\ Sound(file'[n], signed)
    <3>1. n \in DOMAIN file /\ n + 1 \in DOMAIN file
      BY <1>1
    <3>2. file'[n] = file[n] \/ file'[n] = file[n + 1]
      BY <2>2
    <3> QED  BY <1>1, <3>1, <3>2
  <2> QED  BY <1>3, <2>1, <2>2, <2>3
<1>5. ASSUME NEW i \in 1 .. L - 1, file' = [file EXCEPT ![i] = file[i + 1], ![i + 1] = file[i]]
      PROVE  VerifyInv'
  <2>1. i \in 1 .. L /\ i + 1 \in 1 .. L
    BY <1>1
  <2>2. DOMAIN file' = 1 .. L /\ file' = [n \in 1 .. L |-> file'[n]]
    BY <1>1, <1>5
  <2>3. ASSUME NEW n \in 1 .. L PROVE file'[n] \in Line /\ Sound(file'[n], signed)
    <3>1. file'[n] \in {file[n], file[i], file[i + 1]}
      BY <1>1, <1>5, <2>1
    <3> QED  BY <1>1, <2>1, <3>1
  <2> QED  BY <1>1, <1>3, <2>2, <2>3
<1>6. ASSUME NEW i \in 1 .. L + 1, NEW ln \in Invented \cup {RecordLine(id) : id \in DOMAIN signed},
             file' = Inserted(file, i, ln)
      PROVE  VerifyInv'
  <2>1. L + 1 \in Nat /\ ln \in Line /\ Sound(ln, signed)
    BY <1>1, InventedLines
  <2>2. file' = [n \in 1 .. L + 1 |-> IF n < i THEN file[n] ELSE IF n = i THEN ln ELSE file[n - 1]]
    BY <1>6 DEF Inserted
  <2>3. ASSUME NEW n \in 1 .. L + 1 PROVE file'[n] \in Line /\ Sound(file'[n], signed)
    <3>1. CASE n < i
      <4>1. n \in DOMAIN file /\ file'[n] = file[n]
        BY <1>1, <2>2, <3>1
      <4> QED  BY <1>1, <4>1
    <3>2. CASE n = i
      <4>1. file'[n] = ln
        BY <2>2, <3>2
      <4> QED  BY <2>1, <4>1
    <3>3. CASE n > i
      <4>1. n - 1 \in DOMAIN file /\ file'[n] = file[n - 1]
        BY <1>1, <2>2, <3>3
      <4> QED  BY <1>1, <4>1
    <3> QED  BY <1>1, <3>1, <3>2, <3>3
  <2> QED  BY <1>3, <2>1, <2>2, <2>3
<1>7. ASSUME file # <<>>, file' = [file EXCEPT ![Len(file)].nl = FALSE]
      PROVE  VerifyInv'
  <2> DEFINE ln == [file[L] EXCEPT !.nl = FALSE]
  <2>1. L \in 1 .. L /\ file[L] \in Line /\ Sound(file[L], signed)
    BY <1>1, <1>7
  <2>2. ln \in Line /\ ln.what = file[L].what /\ ln.id = file[L].id /\ ln.seq = file[L].seq
        /\ ln.prev = file[L].prev
    BY <2>1 DEF Line
  <2>3. file' = [file EXCEPT ![L] = ln]
    BY <1>7
  <2> HIDE DEF ln, L
  <2>4. Sound(ln, signed)
    BY <2>1, <2>2 DEF Sound
  <2>5. DOMAIN file' = 1 .. L /\ file' = [n \in 1 .. L |-> file'[n]]
    BY <1>1, <2>3
  <2>6. ASSUME NEW n \in 1 .. L PROVE file'[n] \in Line /\ Sound(file'[n], signed)
    <3>1. file'[n] = IF n = L THEN ln ELSE file[n]
      BY <1>1, <2>3
    <3> QED  BY <1>1, <2>2, <2>4, <3>1
  <2> QED  BY <1>1, <1>3, <2>5, <2>6
<1> QED  BY <1>4, <1>5, <1>6, <1>7 DEF Edit

LEMMA KeepAnchorInv ==
  ASSUME VerifyInv, KeepAnchor
  PROVE  VerifyInv'
<1>1. TypeOK /\ LinesInv /\ LineageInv /\ AnchorInv
  BY DEF VerifyInv
<1> DEFINE f == TakenFile(file)
<1>2. f \in Seq(Line) /\ Len(f) \in Nat /\ \A n \in DOMAIN f : ~ Misread(f[n])
  BY <1>1, TakenLines DEF TypeOK
<1>3. anchor = None \/ anchor \in ChainHead
  BY <1>1, AnchorOfRun
<1>4. PICK n \in 0 .. Len(f) : Verify(file, anchor).head = Heads(f)[n]
  BY <1>1, <1>2, <1>3, Reported, TakenVerify DEF TypeOK
<1> HIDE DEF f
<1>5. anchor' = Heads(f)[n] /\ file' = file /\ signed' = signed /\ edits' = edits
  BY <1>4 DEF KeepAnchor
<1>6. Heads(f)[n] \in ChainHead
  BY <1>2, HeadsType
<1>7. Heads(f)[n].seq = 0 => Heads(f)[n] = GenesisHead
  <2>1. Heads(f)[0] = GenesisHead /\ GenesisHead.seq = 0 /\ 0 \in 0 .. n
    BY <1>2, HeadsDef DEF GenesisHead
  <2> QED  BY <1>2, <2>1, HeadsContiguous
<1>8. TypeOK'
  BY <1>1, <1>5, <1>6 DEF TypeOK, ChainHead
<1>9. AnchorInv'
  BY <1>5, <1>6, <1>7 DEF AnchorInv, ChainHead
<1>10. LinesInv' /\ LineageInv'
  BY <1>1, <1>5 DEF LinesInv, LineageInv
<1> QED  BY <1>8, <1>9, <1>10 DEF VerifyInv

(* The inductive invariant, for any number of signatures, lines and        *)
(* changes: a record's line is of what was signed                          *)
(* (internal/evidence/store.go Append), and what was signed ends the chain *)
(* it was signed onto.                                                     *)
THEOREM Invariance == Spec => []VerifyInv
<1>1. Init => VerifyInv
  BY InitInv
<1>2. VerifyInv /\ [Next]_vars => VerifyInv'
  <2> SUFFICES ASSUME VerifyInv, [Next]_vars PROVE VerifyInv'
    OBVIOUS
  <2>1. ASSUME NEW left \in {"all", "unterminated", "fragment"}, NEW excess \in {0, 1},
               Sign(left, excess)
        PROVE  VerifyInv'
    BY <2>1, SignInv
  <2>2. CASE OpenRefused
    BY <2>2, OpenRefusedInv
  <2>3. CASE Edit
    BY <2>3, EditInv
  <2>4. CASE KeepAnchor
    BY <2>4, KeepAnchorInv
  <2>5. CASE UNCHANGED vars
    BY <2>5 DEF vars, VerifyInv, TypeOK, LinesInv, LineageInv, AnchorInv
  <2> QED  BY <2>1, <2>2, <2>3, <2>4, <2>5 DEF Next
<1> QED  BY <1>1, <1>2, PTL DEF Spec

(* The specification's verifier says INVALID exactly of a log that was     *)
(* tampered with, or that lost the record the anchor was taken of          *)
(* (spec/evidence/verify.go); `probavi evidence verify` says it of those   *)
(* and of every log with a line it misreads (internal/evidence/verify.go   *)
(* readLine and parseCanonical).                                           *)
THEOREM VerdictHolds == Spec => []VerdictIsRight
<1>1. VerifyInv => VerdictIsRight
  BY VerdictOfInv
<1> QED  BY <1>1, Invariance, PTL

(* The independent verifier reports the same status, records, damaged      *)
(* lines, failing line and head as `probavi evidence verify`, once the     *)
(* lines that one misreads are taken for foreign objects.                  *)
THEOREM AgreementHolds == Spec => []VerifiersAgree
<1>1. VerifyInv => VerifiersAgree
  BY VerdictOfInv
<1> QED  BY <1>1, Invariance, PTL
=============================================================================
