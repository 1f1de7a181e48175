------------------------ MODULE AdapterProvisionProofs ------------------------
(***************************************************************************)
(* For plans of any number and length, any set of facts and any budget:    *)
(* every refusal has its cause, and what else the provisions promise       *)
(* follows from conditions on the steps of the plans alone (Owes), which   *)
(* TLC checks for the plans of the adapters.                               *)
(***************************************************************************)
EXTENDS AdapterProvision, NaturalsInduction, WellFoundedInduction, TLAPS

ProvisionStep(p) ==
  {s \in StepShape(p) : s.effect # "ask" /\ \A i \in DOMAIN s.tests : s.tests[i].code # "unhealthy"}
HealthStep(p) ==
  {s \in StepShape(p) : s.do \in {"host", "call"} /\ s.effect \in {"none", "ask"} /\ s.fences = {}}

(* The invariant that is inductive: the types, the accounts of a plan and  *)
(* the causes of a refusal; what is held, and what is blamed on the backup *)
(* is as it should be where the plan is.                                   *)
Base == TypeOK /\ OrderInv /\ HalfwayInv /\ SettledInv /\ RefusalHasCause
IInv == Base /\ (Owes(plan) => FencedInv /\ CorruptHasCause)

(* The steps of a plan are a sequence of steps of the vocabulary.          *)
LEMMA PlanSteps ==
  ASSUME NEW p \in Plans
  PROVE  /\ Len(p.steps) \in Nat /\ DOMAIN p.steps = 1..Len(p.steps)
         /\ Len(p.health) \in Nat /\ DOMAIN p.health = 1..Len(p.health)
         /\ \A i \in DOMAIN p.steps : p.steps[i] \in ProvisionStep(p)
         /\ \A i \in DOMAIN p.health : p.health[i] \in HealthStep(p)
         /\ p.settles \in {"no", "first", "late"}
<1> DEFINE S == ProvisionStep(p) H == HealthStep(p)
<1>1. p.steps \in Seq(S) /\ p.health \in Seq(H)
  BY PlansAssumption DEF ProvisionStep, HealthStep
<1> HIDE DEF S, H
<1>2. /\ Len(p.steps) \in Nat /\ DOMAIN p.steps = 1..Len(p.steps)
      /\ Len(p.health) \in Nat /\ DOMAIN p.health = 1..Len(p.health)
      /\ \A i \in DOMAIN p.steps : p.steps[i] \in S
      /\ \A i \in DOMAIN p.health : p.health[i] \in H
  BY <1>1
<1>3. p.settles \in {"no", "first", "late"}
  BY PlansAssumption
<1> QED  BY <1>2, <1>3 DEF S, H

(* What a step is, field by field.                                         *)
LEMMA StepFields ==
  ASSUME NEW p, NEW s \in StepShape(p)
  PROVE  /\ s.do \in {"host", "settle", "call", "poll"}
         /\ s.effect \in {"none", "hash", "put", "place", "load", "start", "fence", "release", "blame", "ask"}
         /\ s.fences \subseteq UNION p.automation
         /\ s.lenient \in BOOLEAN
         /\ s.effect = "hash" => s.do = "host"
         /\ s.effect \notin {"none", "hash"} => s.do = "call"
         /\ s.do # "call" => s.fences = {}
         /\ s.effect = "blame" => s.tests # <<>>
         /\ s.lenient => s.do = "call" /\ s.effect = "none" /\ s.fences = {} /\ s.tests = <<>>
         /\ Len(s.tests) \in Nat /\ DOMAIN s.tests = 1..Len(s.tests)
         /\ \A i \in DOMAIN s.tests : s.tests[i] \in TestShape
<1> DEFINE T == TestShape
<1>1. s.tests \in Seq(T)
  BY DEF StepShape
<1> HIDE DEF T
<1>2. /\ Len(s.tests) \in Nat /\ DOMAIN s.tests = 1..Len(s.tests)
      /\ \A i \in DOMAIN s.tests : s.tests[i] \in T
  BY <1>1
<1>3. /\ s.do \in {"host", "settle", "call", "poll"}
      /\ s.effect \in {"none", "hash", "put", "place", "load", "start", "fence", "release", "blame", "ask"}
      /\ s.fences \subseteq UNION p.automation
      /\ s.lenient \in BOOLEAN
      /\ s.effect = "hash" => s.do = "host"
      /\ s.effect \notin {"none", "hash"} => s.do = "call"
      /\ s.do # "call" => s.fences = {}
      /\ s.effect = "blame" => s.tests # <<>>
      /\ s.lenient => s.do = "call" /\ s.effect = "none" /\ s.fences = {} /\ s.tests = <<>>
  BY DEF StepShape
<1> QED  BY <1>2, <1>3 DEF T

(* A set of numbers that is not empty has a least one.                     *)
LEMMA NatLeast ==
  ASSUME NEW T, T \subseteq Nat, T # {}
  PROVE  \E x \in T : \A y \in T : x <= y
<1>1. IsWellFoundedOn(OpToRel(<, Nat), Nat)
  BY NatLessThanWellFounded
<1>2. PICK x \in T : \A y \in T : ~ (<<y, x>> \in OpToRel(<, Nat))
  BY <1>1, WFMin, Zenon
<1>3. \A y \in T : <<y, x>> \in OpToRel(<, Nat) <=> y < x
  BY DEF OpToRel
<1>4. \A y \in T : x \in Nat /\ y \in Nat /\ ~ (y < x)
  BY <1>2, <1>3
<1>5. \A y \in T : x <= y
  BY <1>4
<1> QED  BY <1>5

(* A verdict is "pass" when no test hits, and else the code of one that does. *)
LEMMA VerdictOf ==
  ASSUME NEW tests, NEW n \in Nat, DOMAIN tests = 1..n, \A i \in DOMAIN tests : tests[i] \in TestShape
  PROVE  \/ Hits(tests) = {} /\ Verdict(tests) = "pass"
         \/ /\ Verdict(tests) # "pass"
            /\ \E i \in Hits(tests) : Verdict(tests) = tests[i].code
<1>1. CASE Hits(tests) = {}
  BY <1>1 DEF Verdict
<1>2. CASE Hits(tests) # {}
  <2>1. \E i \in Hits(tests) : \A j \in Hits(tests) : i <= j
    <3>1. Hits(tests) \subseteq Nat /\ Hits(tests) # {}
      BY <1>2 DEF Hits
    <3> QED  BY <3>1, NatLeast
  <2> DEFINE first == CHOOSE i \in Hits(tests) : \A j \in Hits(tests) : i <= j
  <2>2. first \in Hits(tests)
    BY <2>1
  <2>3. Verdict(tests) = tests[first].code
    BY <1>2 DEF Verdict
  <2>4. tests[first].code # "pass"
    BY <2>2 DEF Hits, TestShape, ErrorCodes
  <2> QED  BY <2>2, <2>3, <2>4
<1> QED  BY <1>1, <1>2

(* A call fails for what a test saw, for a cancellation, or for a sandbox  *)
(* that refuses calls.                                                     *)
LEMMA CallVerdictOf ==
  ASSUME NEW p, NEW s \in StepShape(p), CallVerdict(s) # "pass"
  PROVE  \/ cancelled /\ CallVerdict(s) = "cancelled"
         \/ sandbox = "failing" /\ CallVerdict(s) = "sandbox_error"
         \/ /\ cancelled \/ sandbox = "failing"
            /\ s.effect = "blame" /\ 1 \in DOMAIN s.tests /\ CallVerdict(s) = s.tests[1].code
         \/ \E i \in Hits(s.tests) : CallVerdict(s) = s.tests[i].code
<1>1. /\ Len(s.tests) \in Nat /\ DOMAIN s.tests = 1..Len(s.tests)
      /\ \A i \in DOMAIN s.tests : s.tests[i] \in TestShape
      /\ s.effect = "blame" => s.tests # <<>>
      /\ s.tests \in Seq(TestShape)
  BY StepFields DEF StepShape
<1>2. \A i \in DOMAIN s.tests : s.tests[i].code # "pass"
  BY <1>1 DEF TestShape, ErrorCodes
<1>3. s.effect = "blame" => 1 \in DOMAIN s.tests
  <2> SUFFICES ASSUME s.tests # <<>> PROVE 1 \in DOMAIN s.tests
    BY <1>1
  <2>1. Len(s.tests) # 0
    <3> DEFINE T == TestShape
    <3>1. s.tests \in Seq(T)
      BY <1>1
    <3> HIDE DEF T
    <3> QED  BY <3>1
  <2> QED  BY <2>1, <1>1
<1>4. \/ Hits(s.tests) = {} /\ Verdict(s.tests) = "pass"
      \/ /\ Verdict(s.tests) # "pass"
         /\ \E i \in Hits(s.tests) : Verdict(s.tests) = s.tests[i].code
  BY <1>1, VerdictOf
<1>6. CASE cancelled \/ sandbox = "failing"
  <2>1. CASE s.effect = "blame"
    BY <1>2, <1>3, <1>6, <2>1 DEF CallVerdict
  <2>2. CASE s.effect # "blame"
    BY <1>6, <2>2 DEF CallVerdict
  <2> QED  BY <2>1, <2>2
<1>7. CASE ~(cancelled \/ sandbox = "failing")
  <2>1. CallVerdict(s) = Verdict(s.tests)
    BY <1>7 DEF CallVerdict
  <2> QED  BY <2>1, <1>4
<1> QED  BY <1>6, <1>7

-----------------------------------------------------------------------------
(* What one more step adds to what is held, loaded, started, settled,      *)
(* sent and read.                                                          *)
LEMMA OneMore ==
  ASSUME NEW p, NEW n \in Nat, NEW s, s = p.steps[n + 1]
  PROVE  /\ LoadsBy(p, n) => LoadsBy(p, n + 1)
         /\ s.effect \in {"load", "place"} => LoadsBy(p, n + 1)
         /\ StartsBy(p, n) => StartsBy(p, n + 1)
         /\ s.effect = "start" \/ s.do = "poll" => StartsBy(p, n + 1)
         /\ SettledBy(p, n + 1) => SettledBy(p, n) \/ s.do = "settle"
         /\ CopiedBy(p, n + 1) => CopiedBy(p, n) \/ (s.effect \in {"put", "place"} /\ SettledBy(p, n))
         /\ HashedBy(p, n + 1) => HashedBy(p, n) \/ (s.effect = "hash" /\ SettledBy(p, n))
         /\ CopiedBy(p, n) => SettledBy(p, n)
         /\ HashedBy(p, n) => SettledBy(p, n)
<1>1. 1..n \subseteq 1..(n + 1) /\ n + 1 \in 1..(n + 1) /\ \A i \in 1..(n + 1) : i \in 1..n \/ i = n + 1
  OBVIOUS
<1>2. (n + 1) - 1 = n
  OBVIOUS
<1>3. \A i \in 1..n : SettledBy(p, i - 1) => SettledBy(p, n)
  BY DEF SettledBy
<1>4. /\ LoadsBy(p, n) => LoadsBy(p, n + 1)
      /\ s.effect \in {"load", "place"} => LoadsBy(p, n + 1)
  BY <1>1 DEF LoadsBy
<1>5. /\ StartsBy(p, n) => StartsBy(p, n + 1)
      /\ s.effect = "start" \/ s.do = "poll" => StartsBy(p, n + 1)
  BY <1>1 DEF StartsBy
<1>6. SettledBy(p, n + 1) => SettledBy(p, n) \/ s.do = "settle"
  BY <1>1 DEF SettledBy
<1>7. CopiedBy(p, n + 1) => CopiedBy(p, n) \/ (s.effect \in {"put", "place"} /\ SettledBy(p, n))
  BY <1>1, <1>2 DEF CopiedBy
<1>8. HashedBy(p, n + 1) => HashedBy(p, n) \/ (s.effect = "hash" /\ SettledBy(p, n))
  BY <1>1, <1>2 DEF HashedBy
<1>9. /\ CopiedBy(p, n) => SettledBy(p, n)
      /\ HashedBy(p, n) => SettledBy(p, n)
  BY <1>3 DEF CopiedBy, HashedBy
<1> QED  BY <1>4, <1>5, <1>6, <1>7, <1>8, <1>9

LEMMA HoldsOneMore ==
  ASSUME NEW p, NEW n \in Nat, NEW s, s = p.steps[n + 1], NEW o, Holds(p, n + 1, o)
  PROVE  \/ Holds(p, n, o) /\ ~(s.effect = "release" /\ o \in s.fences)
         \/ Strict(s) /\ s.effect # "release" /\ o \in s.fences
<1>1. PICK i \in 1..(n + 1) :
        /\ Strict(p.steps[i]) /\ p.steps[i].effect # "release" /\ o \in p.steps[i].fences
        /\ \A j \in (i + 1)..(n + 1) : ~(p.steps[j].effect = "release" /\ o \in p.steps[j].fences)
  BY DEF Holds
<1>2. CASE i = n + 1
  BY <1>1, <1>2
<1>3. CASE i # n + 1
  <2>1. i \in 1..n /\ n + 1 \in (i + 1)..(n + 1) /\ \A j \in (i + 1)..n : j \in (i + 1)..(n + 1)
    BY <1>3
  <2>2. Holds(p, n, o)
    BY <1>1, <2>1 DEF Holds
  <2> QED  BY <1>1, <2>1, <2>2
<1> QED  BY <1>2, <1>3

-----------------------------------------------------------------------------
(* The step that runs is one of the plan's.                                *)
LEMMA NowStep ==
  ASSUME TypeOK, Running
  PROVE  /\ Now \in StepShape(plan)
         /\ op = "provision" => /\ pc \in 1..Len(plan.steps) /\ pc \in DOMAIN plan.steps
                                /\ Now = plan.steps[pc] /\ Now \in ProvisionStep(plan)
                                /\ Done = pc - 1 /\ Done \in Nat /\ answer = "none"
         /\ op # "provision" => /\ op = "healthcheck" /\ pc \in 1..Len(plan.health) /\ Now \in HealthStep(plan)
                                /\ health = "none"
         /\ Steps = IF op = "provision" THEN plan.steps ELSE plan.health
         /\ Len(Steps) \in Nat /\ pc \in 1..Len(Steps)
<1>1. plan \in Plans /\ op \in {"provision", "healthcheck"}
  BY DEF TypeOK
<1>2. pc \in DOMAIN Steps
  BY DEF Running
<1>3. CASE op = "provision"
  BY <1>1, <1>2, <1>3, PlanSteps DEF Steps, Now, ProvisionStep, Done, Running
<1>4. CASE op = "healthcheck"
  BY <1>1, <1>2, <1>4, PlanSteps DEF Steps, Now, HealthStep, Running
<1> QED  BY <1>1, <1>3, <1>4

(* How many steps are behind the adapter.                                  *)
LEMMA DoneRange ==
  ASSUME TypeOK
  PROVE  Done \in 0..Len(plan.steps) /\ Len(plan.steps) \in Nat
<1>1. plan \in Plans /\ Len(plan.steps) \in Nat
  BY PlanSteps DEF TypeOK
<1> QED  BY <1>1 DEF TypeOK, Done, Steps

(* What the adapter answers at the end of an operation with an error: a    *)
(* code of the protocol that goes by something it met.                     *)
Justified(code) ==
  op = "provision" =>
    /\ code \in ErrorCodes
    /\ Met(code)
    /\ Owes(plan) /\ code = "source_corrupt" =>
         (facts \cup (IF intact THEN {} ELSE {"expired"})) \cap Causes({"source", "tool"}, "source_corrupt") # {}

(* A refusal with a justified code keeps the invariant.                    *)
LEMMA RefuseKeeps ==
  ASSUME IInv, Running, NEW code \in ErrorCodes \cup {"unhealthy"}, Refuse(code), Justified(code)
  PROVE  IInv'
<1>1. /\ TypeOK /\ OrderInv /\ HalfwayInv /\ SettledInv /\ RefusalHasCause
      /\ Owes(plan) => FencedInv /\ CorruptHasCause
  BY DEF IInv, Base
<1>2. UNCHANGED <<process, source, transfer, target, cancelled, sandbox>>
  BY DEF Refuse
<1>3. /\ plan' = plan /\ facts' = facts /\ op' = op /\ pc' = pc /\ polls' = polls
      /\ ver' = ver /\ seen' = seen /\ settled' = settled /\ hashed' = hashed /\ copied' = copied
      /\ provider' = provider /\ want' = want /\ short' = short
      /\ engine' = engine /\ loaded' = loaded /\ fenced' = fenced /\ intact' = intact
      /\ cancelled' = cancelled /\ sandbox' = sandbox
  BY <1>2 DEF process, source, transfer, target
<1>4. op \in {"provision", "healthcheck"}
  BY <1>1 DEF TypeOK
<1>5. \/ op = "provision" /\ answer = "none" /\ answer' = code /\ health' = health /\ code \in ErrorCodes
      \/ op = "healthcheck" /\ health' = code /\ answer' = answer
  BY <1>4 DEF Refuse, Running, Justified
<1>6. Done' = Done
  BY <1>3 DEF Done
<1>7. code # "ok" /\ code # "none"
  BY DEF ErrorCodes
<1>8. TypeOK'
  BY <1>1, <1>3, <1>5 DEF TypeOK, Steps, Codes
<1>9. OrderInv'
  BY <1>1, <1>3, <1>5, <1>6, <1>7 DEF OrderInv
<1>10. Now' = Now
  BY <1>3 DEF Now, Steps
<1>11. HalfwayInv' /\ SettledInv' /\ (Owes(plan) => FencedInv')
  BY <1>1, <1>3, <1>6, <1>10 DEF HalfwayInv, Transfers, FencedInv, SettledInv
<1>12. Causes({"source", "tool"}, "source_corrupt")' = Causes({"source", "tool"}, "source_corrupt")
  BY <1>3 DEF Causes
<1>13. Owes(plan) => CorruptHasCause'
  BY <1>1, <1>3, <1>5, <1>12 DEF CorruptHasCause, Justified
<1>14. RefusalHasCause'
  <2>1. Found' = Found
    BY <1>3 DEF Found
  <2>2. CASE op = "provision"
    BY <1>3, <1>5, <1>7, <1>10, <2>1, <2>2 DEF RefusalHasCause, Justified, Met
  <2>3. CASE op = "healthcheck"
    BY <1>1, <1>3, <1>5, <2>3 DEF OrderInv, RefusalHasCause
  <2> QED  BY <1>4, <2>2, <2>3
<1> QED  BY <1>1, <1>3, <1>8, <1>9, <1>11, <1>13, <1>14 DEF IInv, Base

(* A code that a test of the step that runs answers is justified.          *)
LEMMA TestJustified ==
  ASSUME IInv, Running, NEW i \in Hits(Now.tests)
  PROVE  Justified(Now.tests[i].code)
<1> SUFFICES ASSUME op = "provision" PROVE Justified(Now.tests[i].code)
  BY DEF Justified
<1>1. TypeOK /\ HalfwayInv
  BY DEF IInv, Base
<1>2. /\ Now \in ProvisionStep(plan) /\ Now \in StepShape(plan)
      /\ pc \in DOMAIN plan.steps /\ Now = plan.steps[pc]
  BY <1>1, NowStep
<1> DEFINE t == Now.tests[i]
<1>3. i \in DOMAIN Now.tests /\ t.fact \in Visible /\ t.gaps \cap facts = {}
  BY DEF Hits
<1>4. t \in TestShape
  BY <1>2, <1>3, StepFields
<1>5. t.code \in ErrorCodes
  BY <1>2, <1>3, <1>4 DEF ProvisionStep, TestShape
<1>6. t \in TestsOf(plan.steps)
  <2>1. t \in {Now.tests[j] : j \in DOMAIN Now.tests}
    BY <1>3
  <2> QED  BY <1>2, <2>1 DEF TestsOf
<1>7. t.fact \in facts \cup {Always} \cup (IF intact THEN {} ELSE {"expired"})
  BY <1>1, <1>3 DEF Visible, HalfwayInv
<1>8. Met(t.code)
  <2>1. t \in Found
    BY <1>3, <1>6, <1>7 DEF Found
  <2> QED  BY <2>1 DEF Met
<1>9. ASSUME Owes(plan), t.code = "source_corrupt"
      PROVE  (facts \cup (IF intact THEN {} ELSE {"expired"})) \cap Causes({"source", "tool"}, "source_corrupt") # {}
  <2>1. t.on \in {"source", "tool"} /\ t.fact # Always
    BY <1>6, <1>9 DEF Owes, BlamesTheSource
  <2>2. t.fact \in Causes({"source", "tool"}, "source_corrupt")
    BY <1>6, <1>9, <2>1 DEF Causes
  <2>3. t.fact \in facts \cup (IF intact THEN {} ELSE {"expired"})
    BY <1>7, <2>1
  <2> QED  BY <2>2, <2>3
<1> QED  BY <1>5, <1>8, <1>9 DEF Justified

(* And so is what a call answers.                                          *)
LEMMA CallJustified ==
  ASSUME IInv, Running, CallVerdict(Now) # "pass"
  PROVE  CallVerdict(Now) \in ErrorCodes \cup {"unhealthy"} /\ Justified(CallVerdict(Now))
<1>1. TypeOK
  BY DEF IInv, Base
<1>2. /\ Now \in StepShape(plan)
      /\ op = "provision" => Now \in ProvisionStep(plan) /\ pc \in DOMAIN plan.steps /\ Now = plan.steps[pc]
  BY <1>1, NowStep
<1>3. \A i \in DOMAIN Now.tests : Now.tests[i].code \in ErrorCodes \cup {"unhealthy"}
  BY <1>2, StepFields DEF TestShape
<1>4. CASE cancelled /\ CallVerdict(Now) = "cancelled"
  BY <1>4 DEF Justified, Met, ErrorCodes
<1>5. CASE sandbox = "failing" /\ CallVerdict(Now) = "sandbox_error"
  BY <1>5 DEF Justified, Met, ErrorCodes
<1>6. CASE /\ cancelled \/ sandbox = "failing"
           /\ Now.effect = "blame" /\ 1 \in DOMAIN Now.tests /\ CallVerdict(Now) = Now.tests[1].code
  <2>1. CallVerdict(Now) \in ErrorCodes \cup {"unhealthy"}
    BY <1>3, <1>6
  <2>2. op = "provision" => Now.tests[1].code # "unhealthy"
    BY <1>2, <1>6 DEF ProvisionStep
  <2>3. op = "provision" /\ Owes(plan) => Now.tests[1].code # "source_corrupt"
    BY <1>2, <1>6 DEF Owes, BlamesTheSource
  <2>4. Met(CallVerdict(Now))
    BY <1>6 DEF Met
  <2> QED  BY <1>6, <2>1, <2>2, <2>3, <2>4 DEF Justified
<1>7. CASE \E i \in Hits(Now.tests) : CallVerdict(Now) = Now.tests[i].code
  <2>1. Hits(Now.tests) \subseteq DOMAIN Now.tests
    BY DEF Hits
  <2> QED  BY <1>3, <1>7, <2>1, TestJustified
<1> QED  BY <1>2, <1>4, <1>5, <1>6, <1>7, CallVerdictOf

-----------------------------------------------------------------------------
(* A step of the provision that is passed keeps the invariant, when it did *)
(* no more than its effect.                                                *)
LEMMA AdvanceKeeps ==
  ASSUME IInv, Running, op = "provision", Advance, TypeOK',
         UNCHANGED <<ver, intact, provider, cancelled, sandbox, answer, health>>,
         seen' = None, want' = None, ~short',
         settled' = IF Now.do = "settle" /\ settled = None THEN ver ELSE settled,
         copied' = IF Transfers THEN ver ELSE copied,
         hashed' = IF Now.effect = "hash" THEN ver ELSE hashed,
         loaded' => loaded \/ Now.effect \in {"load", "place"},
         engine' # "down" => engine # "down" \/ Now.effect = "start" \/ Now.do = "poll",
         fenced' = IF Now.effect = "release" THEN fenced \ Now.fences ELSE fenced \cup Now.fences
  PROVE  IInv'
<1>1. /\ TypeOK /\ OrderInv /\ HalfwayInv /\ SettledInv /\ RefusalHasCause
      /\ Owes(plan) => FencedInv /\ CorruptHasCause
  BY DEF IInv, Base
<1>2. plan' = plan /\ facts' = facts /\ op' = op /\ pc' = pc + 1
  BY DEF Advance
<1>3. /\ pc \in 1..Len(plan.steps) /\ Len(plan.steps) \in Nat /\ Now = plan.steps[pc]
      /\ Done = pc - 1 /\ Done \in Nat /\ answer = "none"
  BY <1>1, NowStep, DoneRange
<1>4. Done' = Done + 1 /\ Done + 1 = pc /\ Now = plan.steps[Done + 1]
  BY <1>2, <1>3 DEF Done
<1>5. OrderInv'
  BY <1>2, <1>3 DEF OrderInv
<1>6. HalfwayInv'
  BY DEF HalfwayInv
<1>7. ASSUME Owes(plan) PROVE FencedInv'
  <2>1. loaded' => LoadsBy(plan, Done + 1)
    BY <1>1, <1>3, <1>4, <1>7, OneMore DEF FencedInv
  <2>2. engine' # "down" => StartsBy(plan, Done + 1)
    BY <1>1, <1>3, <1>4, <1>7, OneMore DEF FencedInv
  <2>3. ASSUME NEW o \in UNION plan.automation, Holds(plan, Done + 1, o)
        PROVE  o \in fenced'
    <3>1. \/ Holds(plan, Done, o) /\ ~(Now.effect = "release" /\ o \in Now.fences)
          \/ Strict(Now) /\ Now.effect # "release" /\ o \in Now.fences
      BY <1>3, <1>4, <2>3, HoldsOneMore
    <3>2. Holds(plan, Done, o) => o \in fenced
      BY <1>1, <1>7 DEF FencedInv
    <3> QED  BY <3>1, <3>2
  <2> QED  BY <1>1, <1>2, <1>4, <1>7, <2>1, <2>2, <2>3 DEF FencedInv
<1>8. SettledInv'
  <2>1. /\ ver \in 0..2 /\ ver' = ver /\ settled \in 0..2 \cup {9}
        /\ None = 9 /\ Whole = 2
    BY <1>1 DEF TypeOK, Versions, None, Whole
  <2>2. SettledBy(plan, Done) => settled # None /\ settled' = settled /\ settled <= ver
    BY <1>1, <2>1 DEF SettledInv
  <2>3. SettledBy(plan, Done + 1) => settled' # None
    BY <1>1, <1>3, <1>4, <2>1, <2>2, OneMore
  <2>4. settled' # None => settled' <= ver'
    BY <1>1, <2>1 DEF SettledInv
  <2>5. ASSUME CopiedBy(plan, Done + 1) PROVE copied' \in settled'..Whole
    <3>1. /\ SettledBy(plan, Done)
          /\ CopiedBy(plan, Done) \/ Transfers
      BY <1>3, <1>4, <2>5, OneMore DEF Transfers
    <3> QED  BY <1>1, <2>1, <2>2, <3>1 DEF SettledInv
  <2>6. ASSUME HashedBy(plan, Done + 1) PROVE hashed' \in settled'..Whole
    <3>1. /\ SettledBy(plan, Done)
          /\ HashedBy(plan, Done) \/ Now.effect = "hash"
      BY <1>3, <1>4, <2>6, OneMore
    <3> QED  BY <1>1, <2>1, <2>2, <3>1 DEF SettledInv
  <2> QED  BY <1>2, <1>4, <2>3, <2>4, <2>5, <2>6 DEF SettledInv
<1>9. CorruptHasCause' /\ RefusalHasCause'
  BY <1>3 DEF CorruptHasCause, RefusalHasCause
<1> QED  BY <1>1, <1>2, <1>5, <1>6, <1>7, <1>8, <1>9 DEF IInv, Base

(* The steps that leave the place in the plan and the data where they are: *)
(* the rest may change as it likes, within what holds of it.               *)
LEMMA StayKeeps ==
  ASSUME IInv, TypeOK',
         UNCHANGED <<plan, facts, settled, copied, hashed, provider, loaded, fenced, answer>>,
         Done' = Done, op = "healthcheck" => op' = "healthcheck", op' = "healthcheck" => answer = "ok",
         HalfwayInv',
         answer \in {"none", "ok"} \/ UNCHANGED <<op, pc, polls, ver, seen, want, cancelled, sandbox>>,
         ~intact => ~intact',
         engine' # "down" => engine # "down",
         Owes(plan) /\ Unheld \notin plan.automation => intact',
         ver <= ver'
  PROVE  IInv'
<1>1. /\ TypeOK /\ OrderInv /\ HalfwayInv /\ SettledInv /\ RefusalHasCause
      /\ Owes(plan) => FencedInv /\ CorruptHasCause
  BY DEF IInv, Base
<1>2. OrderInv'
  BY <1>1 DEF OrderInv
<1>3. Owes(plan) => FencedInv'
  BY <1>1 DEF FencedInv
<1>4. Causes({"source", "tool"}, "source_corrupt")' = Causes({"source", "tool"}, "source_corrupt")
  BY DEF Causes
<1>5. Owes(plan) => CorruptHasCause'
  BY <1>1, <1>4 DEF CorruptHasCause
<1>6. SettledInv'
  <2>1. ver \in 0..2 /\ ver' \in 0..2 /\ settled \in 0..2 \cup {9} /\ None = 9
    BY <1>1 DEF TypeOK, Versions, None
  <2>2. settled # None => settled <= ver'
    BY <1>1, <2>1 DEF SettledInv
  <2> QED  BY <1>1, <2>2 DEF SettledInv, None, Whole
<1>7. RefusalHasCause'
  <2>1. CASE answer \in {"none", "ok"}
    BY <2>1 DEF RefusalHasCause
  <2>2. CASE UNCHANGED <<op, pc, polls, ver, seen, want, cancelled, sandbox>>
    <3>1. Now' = Now
      BY <2>2 DEF Now, Steps
    <3>2. Found \subseteq Found'
      BY <1>1 DEF Found, TypeOK
    <3> QED  BY <1>1, <2>2, <3>1, <3>2 DEF RefusalHasCause, Met
  <2> QED  BY <2>1, <2>2
<1> QED  BY <1>1, <1>2, <1>3, <1>5, <1>6, <1>7 DEF IInv, Base

(* In the healthcheck a step that is passed changes nothing but the place. *)
LEMMA HealthKeeps ==
  ASSUME IInv, Running, op # "provision", Advance, TypeOK',
         UNCHANGED <<source, transfer, target, cancelled, sandbox, answer, health>>
  PROVE  IInv'
<1>1. TypeOK /\ OrderInv /\ HalfwayInv /\ (Owes(plan) => FencedInv)
  BY DEF IInv, Base
<1>2. op = "healthcheck" /\ op' = op /\ plan' = plan /\ facts' = facts
  BY <1>1 DEF Advance, TypeOK
<1>3. /\ ver' = ver /\ seen' = seen /\ settled' = settled /\ hashed' = hashed /\ copied' = copied
      /\ provider' = provider /\ want' = want /\ short' = short
      /\ engine' = engine /\ loaded' = loaded /\ fenced' = fenced /\ intact' = intact
      /\ cancelled' = cancelled /\ sandbox' = sandbox /\ answer' = answer
  BY DEF source, transfer, target
<1>4. Done' = Done
  BY <1>2 DEF Done
<1>5. seen = None /\ want = None
  BY <1>1, <1>2 DEF HalfwayInv
<1>6. HalfwayInv'
  BY <1>1, <1>3, <1>5 DEF HalfwayInv
<1>7. ver <= ver'
  BY <1>1, <1>3 DEF TypeOK, Versions
<1>8. answer = "ok"
  BY <1>1, <1>2 DEF OrderInv
<1> QED  BY <1>1, <1>2, <1>3, <1>4, <1>6, <1>7, <1>8, StayKeeps DEF FencedInv

-----------------------------------------------------------------------------
(* The codes of the tests of the step that runs, and of a call.            *)
LEMMA CodeTypes ==
  ASSUME TypeOK, Running, NEW c,
         \/ c = Verdict(Now.tests) /\ c # "pass"
         \/ c = CallVerdict(Now) /\ c # "pass"
  PROVE  c \in ErrorCodes \cup {"unhealthy"} /\ (op = "provision" => c \in ErrorCodes)
<1>1. /\ Now \in StepShape(plan)
      /\ op = "provision" => Now \in ProvisionStep(plan)
  BY NowStep
<1>2. /\ Len(Now.tests) \in Nat /\ DOMAIN Now.tests = 1..Len(Now.tests)
      /\ \A i \in DOMAIN Now.tests : Now.tests[i] \in TestShape
  BY <1>1, StepFields
<1>3. \A i \in DOMAIN Now.tests :
        /\ Now.tests[i].code \in ErrorCodes \cup {"unhealthy"}
        /\ op = "provision" => Now.tests[i].code \in ErrorCodes
  BY <1>1, <1>2 DEF ProvisionStep, TestShape
<1>4. /\ "cancelled" \in ErrorCodes /\ "sandbox_error" \in ErrorCodes
      /\ Hits(Now.tests) \subseteq DOMAIN Now.tests
  BY DEF ErrorCodes, Hits
<1>5. CASE c = Verdict(Now.tests) /\ c # "pass"
  BY <1>2, <1>3, <1>4, <1>5, VerdictOf
<1>6. CASE c = CallVerdict(Now) /\ c # "pass"
  BY <1>1, <1>3, <1>4, <1>6, CallVerdictOf
<1> QED  BY <1>5, <1>6

LEMMA RefuseTypes ==
  ASSUME TypeOK, NEW c \in ErrorCodes \cup {"unhealthy"}, op = "provision" => c \in ErrorCodes, Refuse(c)
  PROVE  TypeOK'
BY DEF TypeOK, Refuse, Steps, Codes, process, source, transfer, target

LEMMA TypeStep ==
  ASSUME TypeOK, [Next]_vars
  PROVE  TypeOK'
<1> USE BoundsAssumption DEF Versions, Whole, None
<1>1. CASE UNCHANGED vars
  BY <1>1 DEF vars, TypeOK, Steps, process, source, transfer, target
<1>2. ASSUME Running, Advance
      PROVE  pc' \in 1..(Len(Steps) + 1) /\ polls' = 0 /\ plan' = plan /\ op' = op /\ Steps' = Steps
  BY <1>2, NowStep DEF Advance, Steps
<1>3. ASSUME Running, Effect(Now)
      PROVE  /\ copied' \in Versions \cup {None} /\ loaded' \in BOOLEAN
             /\ engine' \in {"down", "starting", "up", "dead"} /\ fenced' \subseteq UNION plan.automation
             /\ UNCHANGED <<ver, seen, settled, hashed, intact>>
  <2>1. Now.fences \subseteq UNION plan.automation
    BY <1>3, NowStep, StepFields
  <2> QED  BY <1>3, <2>1 DEF Effect, TypeOK
<1>4. "source_unreadable" \in ErrorCodes /\ "cancelled" \in ErrorCodes /\ "sandbox_error" \in ErrorCodes
      /\ "engine_not_ready" \in ErrorCodes
  BY DEF ErrorCodes
<1>5. CASE HostStep
  <2>1. CASE Refuse(Verdict(Now.tests)) /\ Verdict(Now.tests) # "pass"
    BY <1>5, <2>1, CodeTypes, RefuseTypes DEF HostStep
  <2>2. CASE Advance /\ hashed' \in {ver, hashed}
             /\ UNCHANGED <<ver, seen, settled, copied, transfer, target, cancelled, sandbox, answer, health>>
    BY <1>2, <1>5, <2>2 DEF HostStep, TypeOK, transfer, target
  <2> QED  BY <1>5, <2>1, <2>2 DEF HostStep
<1>6. CASE Observe
  <2>1. CASE Refuse(Verdict(Now.tests)) /\ Verdict(Now.tests) # "pass"
    BY <1>6, <2>1, CodeTypes, RefuseTypes DEF Observe
  <2>2. CASE Pass
    BY <1>2, <1>6, <2>2 DEF Observe, Pass, TypeOK, transfer, target
  <2>3. CASE seen' = ver
             /\ UNCHANGED <<process, ver, settled, hashed, copied, transfer, target, cancelled, sandbox, answer, health>>
    BY <2>3 DEF TypeOK, Steps, process, transfer, target
  <2> QED  BY <1>6, <2>1, <2>2, <2>3 DEF Observe
<1>7. CASE ObserveAgain
  <2>1. CASE Refuse("cancelled") \/ Refuse("source_unreadable")
    BY <1>4, <2>1, RefuseTypes
  <2>2. CASE Pass
    BY <1>2, <1>7, <2>2 DEF ObserveAgain, Pass, TypeOK, transfer, target
  <2> QED  BY <1>7, <2>1, <2>2 DEF ObserveAgain
<1>8. CASE CallStep
  <2>1. CASE Refuse(CallVerdict(Now)) /\ CallVerdict(Now) # "pass"
    BY <1>8, <2>1, CodeTypes, RefuseTypes DEF CallStep
  <2>2. CASE Advance /\ UNCHANGED <<source, transfer, target, cancelled, sandbox, answer, health>>
    BY <1>2, <1>8, <2>2 DEF CallStep, TypeOK, source, transfer, target
  <2>3. CASE Advance /\ Effect(Now) /\ UNCHANGED <<transfer, cancelled, sandbox, answer, health>>
    BY <1>2, <1>3, <1>8, <2>3 DEF CallStep, TypeOK, transfer
  <2> QED  BY <1>8, <2>1, <2>2, <2>3 DEF CallStep
<1>9. CASE PutFile
  <2>1. CASE Refuse(CallVerdict(Now)) /\ CallVerdict(Now) # "pass"
    BY <1>9, <2>1, CodeTypes, RefuseTypes DEF PutFile
  <2>2. CASE want' = ver
             /\ UNCHANGED <<process, source, provider, short, target, cancelled, sandbox, answer, health>>
    BY <2>2 DEF TypeOK, Steps, process, source, target
  <2> QED  BY <1>9, <2>1, <2>2 DEF PutFile
<1>10. CASE StreamStep
  <2>1. CASE Refuse("sandbox_error")
    BY <1>4, <2>1, RefuseTypes
  <2>2. ASSUME NEW cut \in BOOLEAN, Counted(cut), Advance, Effect(Now), want' = None, short' = cut,
               UNCHANGED <<provider, cancelled, sandbox, answer, health>>
        PROVE  TypeOK'
    BY <1>2, <1>3, <1>10, <2>2 DEF StreamStep, TypeOK
  <2>3. CASE /\ polls + 1 < PutFileAttempts /\ polls' = polls + 1
             /\ UNCHANGED <<plan, facts, op, pc, source, transfer, target, cancelled, sandbox, answer, health>>
    BY <2>3 DEF TypeOK, Steps, source, transfer, target
  <2> QED  BY <1>10, <2>1, <2>2, <2>3 DEF StreamStep, StreamOnce
<1>11. CASE PollStep
  <2>1. CASE Refuse(CallVerdict(Now)) /\ CallVerdict(Now) # "pass"
    BY <1>11, <2>1, CodeTypes, RefuseTypes DEF PollStep
  <2>2. CASE Advance /\ engine' = "up"
             /\ UNCHANGED <<source, transfer, loaded, fenced, intact, cancelled, sandbox, answer, health>>
    BY <1>2, <1>11, <2>2 DEF PollStep, TypeOK, source, transfer
  <2>3. CASE NotReady
    BY <2>3 DEF NotReady, TypeOK, Steps, source, transfer, target
  <2>4. CASE BudgetSpent
    BY <1>4, <2>4, RefuseTypes DEF BudgetSpent
  <2> QED  BY <1>11, <2>1, <2>2, <2>3, <2>4 DEF PollStep
<1>12. CASE Answer
  BY <1>12 DEF Answer, TypeOK, Steps, Codes, process, source, transfer, target
<1>13. CASE Recheck
  <2>1. Len(plan.health) \in Nat
    BY PlanSteps DEF TypeOK
  <2> QED  BY <1>13, <2>1 DEF Recheck, TypeOK, Steps, source, transfer, target
<1>14. CASE AskStep
  <2>1. CallVerdict(Now) # "pass" => CallVerdict(Now) \in ErrorCodes \cup {"unhealthy"}
    BY <1>14, CodeTypes DEF AskStep
  <2> QED  BY <1>14, <2>1 DEF AskStep, TypeOK, Steps, Codes, process, source, transfer, target
<1>15. CASE World
  <2>1. CASE JobWrites
    BY <2>1 DEF JobWrites, Writing, TypeOK, Steps, process, transfer, target
  <2>2. CASE Cancel
    BY <2>2 DEF Cancel, TypeOK, Steps, process, source, transfer, target
  <2>3. CASE SandboxFails
    BY <2>3 DEF SandboxFails, TypeOK, Steps, process, source, transfer, target
  <2>4. CASE Expire
    BY <2>4 DEF Expire, TypeOK, Steps, process, source, transfer
  <2>5. CASE EngineDies
    BY <2>5 DEF EngineDies, TypeOK, Steps, process, source, transfer
  <2> QED  BY <1>15, <2>1, <2>2, <2>3, <2>4, <2>5 DEF World
<1> QED
  BY <1>1, <1>5, <1>6, <1>7, <1>8, <1>9, <1>10, <1>11, <1>12, <1>13, <1>14, <1>15 DEF Next, AdapterStep

LEMMA TypeInit == Init => TypeOK
<1> SUFFICES ASSUME Init PROVE TypeOK
  OBVIOUS
<1>1. plan \in Plans /\ Len(plan.steps) \in Nat
  BY PlanSteps DEF Init
<1>2. PICK d \in Drills(plan) : ver = d.ver /\ provider = d.provider
  BY DEF Init
<1>3. ver \in Versions /\ provider \in Providers
  BY <1>1, <1>2, DrillsAssumption
<1>4. Steps = plan.steps /\ pc \in 1..(Len(Steps) + 1) /\ polls \in 0..(MaxPolls + PutFileAttempts)
  BY <1>1, BoundsAssumption DEF Init, Steps
<1> QED  BY <1>1, <1>3, <1>4 DEF Init, TypeOK, None, Codes

(* Type correctness, for every set of plans.                               *)
THEOREM TypeCorrect == Spec => []TypeOK
<1>1. TypeOK /\ [Next]_vars => TypeOK'
  BY TypeStep
<1> QED  BY TypeInit, <1>1, PTL DEF Spec

-----------------------------------------------------------------------------
LEMMA ProvisionInit ==
  ASSUME Init
  PROVE  IInv
<1>1. TypeOK /\ plan \in Plans
  BY TypeInit DEF Init
<1>2. Done = 0
  BY DEF Init, Done
<1>3. OrderInv /\ HalfwayInv /\ CorruptHasCause /\ RefusalHasCause
  BY <1>2 DEF Init, OrderInv, HalfwayInv, CorruptHasCause, RefusalHasCause, None
<1>4. /\ ~SettledBy(plan, 0) /\ ~CopiedBy(plan, 0) /\ ~HashedBy(plan, 0)
      /\ \A o \in UNION plan.automation : ~Holds(plan, 0, o)
  BY DEF SettledBy, CopiedBy, HashedBy, Holds
<1>5. FencedInv /\ SettledInv
  BY <1>2, <1>4 DEF Init, FencedInv, SettledInv
<1> QED  BY <1>1, <1>3, <1>5 DEF IInv, Base

(* The steps that look at the drill host.                                  *)
LEMMA HostKeeps ==
  ASSUME IInv, TypeOK', HostStep \/ Observe \/ ObserveAgain
  PROVE  IInv'
<1> DEFINE V == Verdict(Now.tests)
<1>1. TypeOK /\ OrderInv /\ HalfwayInv /\ Running
  BY DEF IInv, Base, HostStep, Observe, ObserveAgain
<1>2. /\ Now \in StepShape(plan)
      /\ op = "provision" => /\ Now \in ProvisionStep(plan) /\ pc \in DOMAIN plan.steps /\ Now = plan.steps[pc]
                             /\ pc \in 1..Len(plan.steps) /\ Done = pc - 1 /\ answer = "none"
      /\ op # "provision" => Now \in HealthStep(plan)
  BY <1>1, NowStep
<1>3. /\ Now.do # "call" => Now.fences = {} /\ ~Transfers /\ Now.effect \in {"none", "hash"}
      /\ Now.effect = "hash" => Now.do = "host"
      /\ Len(Now.tests) \in Nat /\ DOMAIN Now.tests = 1..Len(Now.tests)
      /\ \A i \in DOMAIN Now.tests : Now.tests[i] \in TestShape
  BY <1>2, StepFields DEF Transfers
<1>4. V # "pass" => V \in ErrorCodes \cup {"unhealthy"} /\ Justified(V)
  BY <1>1, <1>3, VerdictOf, TestJustified, CodeTypes
<1>5. V # "pass" /\ Refuse(V) => IInv'
  BY <1>1, <1>4, RefuseKeeps
<1>6. CASE HostStep
  <2>1. Now.do = "host"
    BY <1>6 DEF HostStep
  <2>2. CASE V = "pass"
    <3>1. /\ Advance /\ hashed' = IF Now.effect = "hash" THEN ver ELSE hashed
          /\ UNCHANGED <<ver, seen, settled, copied, transfer, target, cancelled, sandbox, answer, health>>
      BY <1>6, <2>2 DEF HostStep
    <3>2. /\ ver' = ver /\ seen' = seen /\ settled' = settled /\ copied' = copied
          /\ provider' = provider /\ want' = want /\ short' = short
          /\ engine' = engine /\ loaded' = loaded /\ fenced' = fenced /\ intact' = intact
          /\ cancelled' = cancelled /\ sandbox' = sandbox /\ answer' = answer /\ health' = health
      BY <3>1 DEF transfer, target
    <3>3. seen = None /\ want = None /\ ~short
      BY <1>1, <1>3, <2>1 DEF HalfwayInv
    <3>4. CASE op = "provision"
      BY <1>1, <1>3, <2>1, <3>1, <3>2, <3>3, <3>4, AdvanceKeeps
    <3>5. CASE op # "provision"
      <4>1. hashed' = hashed
        BY <1>2, <3>1, <3>5 DEF HealthStep
      <4> QED  BY <1>1, <3>1, <3>2, <3>5, <4>1, HealthKeeps DEF source, transfer, target
    <3> QED  BY <3>4, <3>5
  <2> QED  BY <1>5, <1>6, <2>2 DEF HostStep
<1>7. ASSUME Now.do = "settle"
      PROVE  op = "provision" /\ want = None /\ ~short
  <2>1. op = "provision"
    BY <1>2, <1>7 DEF HealthStep
  <2> QED  BY <1>1, <1>3, <1>7, <2>1 DEF HalfwayInv
<1>8. ASSUME Now.do = "settle", Pass
      PROVE  IInv'
  <2>1. /\ Advance /\ settled' = IF settled = None THEN ver ELSE settled
        /\ seen' = None /\ ver' = ver /\ hashed' = hashed /\ copied' = copied
        /\ provider' = provider /\ want' = want /\ short' = short
        /\ engine' = engine /\ loaded' = loaded /\ fenced' = fenced /\ intact' = intact
        /\ cancelled' = cancelled /\ sandbox' = sandbox /\ answer' = answer /\ health' = health
    BY <1>8 DEF Pass, transfer, target
  <2> QED  BY <1>1, <1>3, <1>7, <1>8, <2>1, AdvanceKeeps
<1>9. CASE Observe
  <2>1. Now.do = "settle" /\ seen = None
    BY <1>9 DEF Observe
  <2>2. CASE seen' = ver
             /\ UNCHANGED <<process, ver, settled, hashed, copied, transfer, target, cancelled, sandbox, answer, health>>
    <3>1. /\ plan' = plan /\ facts' = facts /\ op' = op /\ pc' = pc
          /\ provider' = provider /\ want' = want /\ short' = short
          /\ engine' = engine /\ loaded' = loaded /\ fenced' = fenced /\ intact' = intact
      BY <2>2 DEF process, transfer, target
    <3>2. Done' = Done /\ Now' = Now
      BY <3>1 DEF Done, Now, Steps
    <3>3. op = "provision" /\ want = None /\ ~short /\ answer = "none"
      BY <1>2, <1>7, <2>1
    <3>4. HalfwayInv'
      BY <1>2, <2>1, <3>1, <3>2, <3>3 DEF HalfwayInv
    <3>5. ver <= ver'
      BY <1>1, <2>2 DEF TypeOK, Versions
    <3> QED  BY <1>1, <2>2, <3>1, <3>2, <3>3, <3>4, <3>5, StayKeeps DEF IInv, FencedInv
  <2> QED  BY <1>5, <1>8, <1>9, <2>1, <2>2 DEF Observe
<1>10. CASE ObserveAgain
  <2>1. Now.do = "settle" /\ seen # None
    BY <1>10 DEF ObserveAgain
  <2>2. CASE cancelled /\ Refuse("cancelled")
    <3>1. Justified("cancelled")
      BY <2>2 DEF Justified, Met, ErrorCodes
    <3> QED  BY <1>1, <2>2, <3>1, RefuseKeeps DEF ErrorCodes
  <2>3. CASE ver # seen /\ Refuse("source_unreadable")
    <3>1. Justified("source_unreadable")
      BY <2>1, <2>3 DEF Justified, Met, ErrorCodes
    <3> QED  BY <1>1, <2>3, <3>1, RefuseKeeps DEF ErrorCodes
  <2> QED  BY <1>8, <1>10, <2>1, <2>2, <2>3 DEF ObserveAgain
<1> QED  BY <1>6, <1>9, <1>10

(* The steps that call into the sandbox.                                   *)
LEMMA CallKeeps ==
  ASSUME IInv, TypeOK', CallStep \/ PutFile \/ StreamStep \/ PollStep
  PROVE  IInv'
<1> DEFINE V == CallVerdict(Now)
<1>1. TypeOK /\ OrderInv /\ HalfwayInv /\ (Owes(plan) => FencedInv) /\ Running
  BY DEF IInv, Base, CallStep, PutFile, StreamStep, PollStep
<1>2. /\ Now \in StepShape(plan)
      /\ op = "provision" => /\ Now \in ProvisionStep(plan) /\ pc \in DOMAIN plan.steps /\ Now = plan.steps[pc]
                             /\ pc \in 1..Len(plan.steps) /\ Done = pc - 1 /\ answer = "none"
      /\ op # "provision" => Now \in HealthStep(plan)
  BY <1>1, NowStep
<1>3. /\ Now.lenient \in BOOLEAN
      /\ Now.lenient => Now.do = "call" /\ Now.effect = "none" /\ Now.fences = {}
      /\ Now.do # "call" => Now.fences = {} /\ ~Transfers /\ Now.effect \in {"none", "hash"}
      /\ Now.effect = "hash" => Now.do = "host"
      /\ Transfers => Now.do = "call" /\ Now.effect # "hash" /\ Now.effect # "ask" /\ Now.effect # "none" /\ ~Now.lenient
      /\ Now.do = "call" => Now.effect # "hash"
  BY <1>2, StepFields DEF Transfers
<1>4. /\ op = "provision" => answer = "none"
      /\ op # "provision" => answer = "ok"
      /\ ver' = ver => ver <= ver'
  BY <1>1, <1>2 DEF OrderInv, TypeOK, Versions
<1>5. V # "pass" /\ Refuse(V) => IInv'
  BY <1>1, CallJustified, RefuseKeeps
<1>6. /\ ~short
      /\ seen # None \/ want # None => op = "provision" /\ (want # None => Transfers) /\ (seen # None => Now.do = "settle")
  BY <1>1 DEF HalfwayInv
<1>7. ASSUME Advance, Effect(Now), Now.do = "call", want' = None, ~short',
             UNCHANGED <<provider, cancelled, sandbox, answer, health>>
      PROVE  IInv'
  <2>1. /\ copied' = IF Transfers THEN ver ELSE copied
        /\ loaded' = (loaded \/ Now.effect \in {"load", "place"})
        /\ engine' = IF Now.effect = "start" THEN "starting" ELSE engine
        /\ fenced' = IF Now.effect = "release" THEN fenced \ Now.fences ELSE fenced \cup Now.fences
        /\ ver' = ver /\ seen' = seen /\ settled' = settled /\ hashed' = hashed /\ intact' = intact
    BY <1>7 DEF Effect, Transfers
  <2>2. seen = None
    BY <1>6, <1>7
  <2>3. CASE op = "provision"
    BY <1>1, <1>3, <1>7, <2>1, <2>2, <2>3, AdvanceKeeps
  <2>4. CASE op # "provision"
    <3>1. Now.effect \in {"none", "ask"} /\ Now.fences = {}
      BY <1>2, <2>4 DEF HealthStep
    <3>2. /\ want = None /\ ~short
      BY <1>6, <2>4
    <3>3. copied' = copied /\ loaded' = loaded /\ engine' = engine /\ fenced' = fenced
      BY <1>1, <2>1, <3>1 DEF Transfers, TypeOK
    <3>4. want' = want /\ short' = short
      BY <1>1, <1>7, <3>2 DEF TypeOK
    <3> QED  BY <1>1, <1>7, <2>1, <2>4, <3>3, <3>4, HealthKeeps DEF source, transfer, target
  <2> QED  BY <2>3, <2>4
<1>8. CASE CallStep
  <2>1. Now.do = "call" /\ Now.effect # "ask" /\ ~(Transfers /\ provider = "k8s")
    BY <1>8 DEF CallStep
  <2>2. want = None
    <3>1. ASSUME want # None PROVE FALSE
      <4>1. Transfers
        BY <1>6, <3>1
      <4>2. provider = "k8s"
        BY <1>1, <3>1 DEF HalfwayInv
      <4> QED  BY <2>1, <4>1, <4>2
    <3> QED  BY <3>1
  <2>3. CASE Now.lenient /\ Advance
             /\ UNCHANGED <<source, transfer, target, cancelled, sandbox, answer, health>>
    <3>1. Effect(Now)
      BY <1>1, <1>3, <2>3 DEF Effect, source, target, TypeOK
    <3>2. want' = want /\ short' = short /\ provider' = provider
      BY <2>3 DEF transfer
    <3> QED  BY <1>6, <1>7, <2>1, <2>2, <2>3, <3>1, <3>2
  <2>4. CASE V = "pass" /\ Advance /\ Effect(Now) /\ UNCHANGED <<transfer, cancelled, sandbox, answer, health>>
    <3>1. want' = want /\ short' = short /\ provider' = provider
      BY <2>4 DEF transfer
    <3> QED  BY <1>6, <1>7, <2>1, <2>2, <2>4, <3>1
  <2> QED  BY <1>5, <1>8, <2>3, <2>4 DEF CallStep
<1>9. CASE PutFile
  <2>1. Transfers /\ provider = "k8s" /\ want = None
    BY <1>9 DEF PutFile
  <2>2. CASE V = "pass" /\ want' = ver
             /\ UNCHANGED <<process, source, provider, short, target, cancelled, sandbox, answer, health>>
    <3>1. /\ plan' = plan /\ facts' = facts /\ op' = op /\ pc' = pc
          /\ ver' = ver /\ seen' = seen /\ settled' = settled /\ hashed' = hashed /\ copied' = copied
          /\ engine' = engine /\ loaded' = loaded /\ fenced' = fenced /\ intact' = intact
      BY <2>2 DEF process, source, target
    <3>2. Done' = Done /\ Now' = Now
      BY <3>1 DEF Done, Now, Steps
    <3>3. op = "provision"
      BY <1>2, <2>1 DEF Transfers, HealthStep
    <3>4. seen = None
      BY <1>3, <1>6, <2>1
    <3>5. HalfwayInv'
      BY <1>1, <1>2, <2>1, <2>2, <3>1, <3>2, <3>3, <3>4 DEF HalfwayInv, Transfers
    <3> QED  BY <1>1, <1>4, <2>2, <3>1, <3>2, <3>3, <3>5, StayKeeps DEF FencedInv
  <2> QED  BY <1>5, <1>9, <2>2 DEF PutFile
<1>10. CASE StreamStep
  <2>1. want # None
    BY <1>10 DEF StreamStep
  <2>2. Transfers /\ provider = "k8s" /\ op = "provision"
    BY <1>1, <1>6, <2>1 DEF HalfwayInv
  <2>3. sandbox = "failing" \/ cancelled \/ polls + 1 = PutFileAttempts => Justified("sandbox_error")
    BY <2>1 DEF Justified, Met, ErrorCodes
  <2>4. CASE Refuse("sandbox_error") /\ (sandbox = "failing" \/ cancelled \/ polls + 1 = PutFileAttempts)
    BY <1>1, <2>3, <2>4, RefuseKeeps DEF ErrorCodes
  <2>5. ASSUME NEW cut \in BOOLEAN, Counted(cut), Advance, Effect(Now), want' = None, short' = cut,
               UNCHANGED <<provider, cancelled, sandbox, answer, health>>
        PROVE  IInv'
    <3>1. ~short'
      BY <2>5 DEF Counted
    <3> QED  BY <1>3, <1>7, <2>2, <2>5, <3>1
  <2>6. CASE UNCHANGED <<plan, facts, op, pc, source, transfer, target, cancelled, sandbox, answer, health>>
    <3>1. /\ plan' = plan /\ facts' = facts /\ op' = op /\ pc' = pc
          /\ ver' = ver /\ seen' = seen /\ settled' = settled /\ hashed' = hashed /\ copied' = copied
          /\ provider' = provider /\ want' = want /\ short' = short
          /\ engine' = engine /\ loaded' = loaded /\ fenced' = fenced /\ intact' = intact
      BY <2>6 DEF source, transfer, target
    <3>2. Done' = Done /\ Now' = Now
      BY <3>1 DEF Done, Now, Steps
    <3>3. HalfwayInv'
      BY <1>1, <3>1, <3>2 DEF HalfwayInv, Transfers
    <3> QED  BY <1>1, <1>4, <2>2, <2>6, <3>1, <3>2, <3>3, StayKeeps DEF FencedInv
  <2> QED  BY <1>10, <2>4, <2>5, <2>6 DEF StreamStep, StreamOnce
<1>11. CASE PollStep
  <2>1. Now.do = "poll"
    BY <1>11 DEF PollStep
  <2>2. op = "provision" /\ seen = None /\ want = None
    BY <1>2, <1>3, <1>6, <2>1 DEF HealthStep
  <2>3. CASE V = "pass" /\ Advance /\ engine' = "up"
             /\ UNCHANGED <<source, transfer, loaded, fenced, intact, cancelled, sandbox, answer, health>>
    <3>1. /\ ver' = ver /\ seen' = seen /\ settled' = settled /\ hashed' = hashed /\ copied' = copied
          /\ provider' = provider /\ want' = want /\ short' = short
      BY <2>3 DEF source, transfer
    <3>2. Now.effect # "hash" /\ Now.effect # "release" /\ Now.fences = {}
      BY <1>3, <2>1
    <3> QED  BY <1>1, <1>3, <1>6, <2>1, <2>2, <2>3, <3>1, <3>2, AdvanceKeeps
  <2>4. CASE NotReady
    <3>1. /\ plan' = plan /\ facts' = facts /\ op' = op /\ pc' = pc
          /\ ver' = ver /\ seen' = seen /\ settled' = settled /\ hashed' = hashed /\ copied' = copied
          /\ provider' = provider /\ want' = want /\ short' = short
          /\ engine' = engine /\ loaded' = loaded /\ fenced' = fenced /\ intact' = intact
          /\ cancelled' = cancelled /\ sandbox' = sandbox /\ answer' = answer
      BY <2>4 DEF NotReady, source, transfer, target
    <3>2. Done' = Done /\ Now' = Now
      BY <3>1 DEF Done, Now, Steps
    <3>3. HalfwayInv'
      BY <1>1, <3>1, <3>2 DEF HalfwayInv, Transfers
    <3> QED  BY <1>1, <1>4, <2>2, <3>1, <3>2, <3>3, StayKeeps DEF FencedInv
  <2>5. CASE BudgetSpent
    <3>1. polls = MaxPolls /\ Refuse("engine_not_ready")
      BY <2>5 DEF BudgetSpent
    <3>2. Justified("engine_not_ready")
      BY <2>1, <3>1 DEF Justified, Met, ErrorCodes
    <3> QED  BY <1>1, <3>1, <3>2, RefuseKeeps DEF ErrorCodes
  <2> QED  BY <1>5, <1>11, <2>3, <2>4, <2>5 DEF PollStep
<1> QED  BY <1>8, <1>9, <1>10, <1>11

(* The end of the provision, and the healthcheck's own steps.              *)
LEMMA EndKeeps ==
  ASSUME IInv, TypeOK', Answer \/ Recheck \/ AskStep
  PROVE  IInv'
<1>1. TypeOK /\ OrderInv /\ HalfwayInv /\ (Owes(plan) => FencedInv) /\ SettledInv /\ plan \in Plans
  BY DEF IInv, Base, TypeOK
<1>2. Len(plan.steps) \in Nat /\ DOMAIN plan.steps = 1..Len(plan.steps)
  BY <1>1, PlanSteps
<1>3. CASE Answer
  <2>1. /\ plan' = plan /\ facts' = facts /\ op' = op /\ pc' = pc
        /\ ver' = ver /\ seen' = seen /\ settled' = settled /\ hashed' = hashed /\ copied' = copied
        /\ provider' = provider /\ want' = want /\ short' = short
        /\ engine' = engine /\ loaded' = loaded /\ fenced' = fenced /\ intact' = intact
        /\ cancelled' = cancelled /\ sandbox' = sandbox
        /\ op = "provision" /\ answer' = "ok" /\ pc = Len(plan.steps) + 1
    BY <1>3 DEF Answer, Steps, process, source, transfer, target
  <2>2. Done' = Done /\ Now' = Now /\ Done = Len(plan.steps)
    BY <1>2, <2>1 DEF Done, Now, Steps
  <2>3. HalfwayInv'
    BY <1>1, <2>1, <2>2 DEF HalfwayInv, Transfers
  <2>4. OrderInv' /\ (Owes(plan) => FencedInv') /\ SettledInv'
    BY <1>1, <2>1, <2>2 DEF OrderInv, FencedInv, SettledInv
  <2>5. CorruptHasCause' /\ RefusalHasCause'
    BY <2>1 DEF CorruptHasCause, RefusalHasCause
  <2> QED  BY <1>1, <2>1, <2>3, <2>4, <2>5 DEF IInv, Base
<1>4. CASE Recheck
  <2>1. /\ plan' = plan /\ facts' = facts /\ op' = "healthcheck"
        /\ ver' = ver /\ seen' = seen /\ settled' = settled /\ hashed' = hashed /\ copied' = copied
        /\ provider' = provider /\ want' = want /\ short' = short
        /\ engine' = engine /\ loaded' = loaded /\ fenced' = fenced /\ intact' = intact
        /\ cancelled' = cancelled /\ sandbox' = sandbox
        /\ op = "provision" /\ answer = "ok" /\ answer' = answer
    BY <1>4 DEF Recheck, source, transfer, target
  <2>2. Done = Len(plan.steps) /\ Done' = Done /\ pc = Len(plan.steps) + 1
    BY <1>1, <1>2, <2>1 DEF OrderInv, Done, TypeOK
  <2>3. seen = None /\ want = None
    BY <1>1, <1>2, <2>2 DEF HalfwayInv
  <2>4. HalfwayInv'
    BY <1>1, <2>1, <2>3 DEF HalfwayInv
  <2>5. ver <= ver'
    BY <1>1, <2>1 DEF TypeOK, Versions
  <2> QED  BY <1>1, <2>1, <2>2, <2>4, <2>5, StayKeeps DEF FencedInv
<1>5. CASE AskStep
  <2>1. /\ plan' = plan /\ facts' = facts /\ op' = op /\ pc' = pc
        /\ ver' = ver /\ seen' = seen /\ settled' = settled /\ hashed' = hashed /\ copied' = copied
        /\ provider' = provider /\ want' = want /\ short' = short
        /\ engine' = engine /\ loaded' = loaded /\ fenced' = fenced /\ intact' = intact
        /\ cancelled' = cancelled /\ sandbox' = sandbox /\ answer' = answer
    BY <1>5 DEF AskStep, process, source, transfer, target
  <2>2. Done' = Done /\ Now' = Now
    BY <2>1 DEF Done, Now, Steps
  <2>3. HalfwayInv'
    BY <1>1, <2>1, <2>2 DEF HalfwayInv, Transfers
  <2>4. ver <= ver' /\ answer \in {"none", "ok"}
    BY <1>1, <1>5, <2>1 DEF TypeOK, Versions, AskStep, Running, OrderInv
  <2> QED  BY <1>1, <2>1, <2>2, <2>3, <2>4, StayKeeps DEF OrderInv, FencedInv
<1> QED  BY <1>3, <1>4, <1>5

(* What happens around the adapter: where every automation is held, none   *)
(* finds data in a running engine that it was not told to leave alone.     *)
LEMMA WorldKeeps ==
  ASSUME IInv, TypeOK', World
  PROVE  IInv'
<1>1. TypeOK /\ OrderInv /\ HalfwayInv /\ (Owes(plan) => FencedInv)
  BY DEF IInv, Base
<1>2. /\ plan' = plan /\ facts' = facts /\ op' = op /\ pc' = pc
      /\ seen' = seen /\ settled' = settled /\ hashed' = hashed /\ copied' = copied
      /\ provider' = provider /\ want' = want /\ short' = short
      /\ loaded' = loaded /\ fenced' = fenced /\ answer' = answer
  BY DEF World, JobWrites, Cancel, SandboxFails, Expire, EngineDies, process, source, transfer, target
<1>3. Done' = Done /\ Now' = Now
  BY <1>2 DEF Done, Now, Steps
<1>4. HalfwayInv'
  BY <1>1, <1>2, <1>3 DEF HalfwayInv, Transfers
<1>5. /\ ~intact => ~intact'
      /\ engine' # "down" => engine # "down"
      /\ ver' \in {ver, ver + 1}
  BY DEF World, JobWrites, Cancel, SandboxFails, Expire, EngineDies, source, target
<1>6. Owes(plan) /\ Unheld \notin plan.automation => intact'
  <2> SUFFICES ASSUME Owes(plan), Unheld \notin plan.automation PROVE intact'
    OBVIOUS
  <2>1. intact
    BY <1>1 DEF FencedInv
  <2>2. ASSUME Expire PROVE FALSE
    <3>1. loaded /\ engine # "down"
      BY <2>2 DEF Expire
    <3>2. PICK orders \in plan.automation : orders \cap fenced = {}
      BY <2>2 DEF Expire
    <3>3. LoadsBy(plan, Done) /\ StartsBy(plan, Done) /\ Done \in 0..Len(plan.steps)
      BY <1>1, <3>1, DoneRange DEF FencedInv
    <3>4. PICK o \in orders : Holds(plan, Done, o)
      BY <1>1, <3>3 DEF Owes, FencesFirst
    <3>5. o \in fenced
      BY <1>1, <3>4 DEF FencedInv
    <3> QED  BY <3>2, <3>5
  <2>3. ~Expire => intact' = intact
    BY DEF World, JobWrites, Cancel, SandboxFails, EngineDies, target
  <2> QED  BY <2>1, <2>2, <2>3
<1>7. ver <= ver'
  BY <1>1, <1>5 DEF TypeOK, Versions
<1>8. answer \in {"none", "ok"} \/ UNCHANGED <<op, pc, polls, ver, seen, want, cancelled, sandbox>>
  <2>1. CASE JobWrites \/ Cancel \/ SandboxFails
    BY <2>1 DEF JobWrites, Cancel, SandboxFails
  <2>2. CASE Expire \/ EngineDies
    BY <2>2 DEF Expire, EngineDies, process, source, transfer
  <2> QED  BY <2>1, <2>2 DEF World
<1> QED  BY <1>1, <1>2, <1>3, <1>4, <1>5, <1>6, <1>7, <1>8, StayKeeps DEF OrderInv

LEMMA ProvisionNext ==
  ASSUME IInv, [Next]_vars
  PROVE  IInv'
<1>1. TypeOK'
  BY TypeStep DEF IInv, Base
<1>2. CASE UNCHANGED vars
  <2>1. /\ plan' = plan /\ facts' = facts /\ op' = op /\ pc' = pc
        /\ ver' = ver /\ seen' = seen /\ settled' = settled /\ hashed' = hashed /\ copied' = copied
        /\ provider' = provider /\ want' = want /\ short' = short
        /\ engine' = engine /\ loaded' = loaded /\ fenced' = fenced /\ intact' = intact
        /\ cancelled' = cancelled /\ sandbox' = sandbox /\ answer' = answer
    BY <1>2 DEF vars, process, source, transfer, target
  <2>2. Done' = Done /\ Now' = Now
    BY <2>1 DEF Done, Now, Steps
  <2>3. HalfwayInv'
    BY <2>1, <2>2 DEF IInv, Base, HalfwayInv, Transfers
  <2>4. ver <= ver' /\ polls' = polls
    BY <1>2, <2>1 DEF IInv, Base, TypeOK, Versions, vars, process
  <2> QED  BY <1>1, <2>1, <2>2, <2>3, <2>4, StayKeeps DEF IInv, Base, OrderInv, FencedInv
<1>3. CASE HostStep \/ Observe \/ ObserveAgain
  BY <1>1, <1>3, HostKeeps
<1>4. CASE CallStep \/ PutFile \/ StreamStep \/ PollStep
  BY <1>1, <1>4, CallKeeps
<1>5. CASE Answer \/ Recheck \/ AskStep
  BY <1>1, <1>5, EndKeeps
<1>6. CASE World
  BY <1>1, <1>6, WorldKeeps
<1> QED  BY <1>2, <1>3, <1>4, <1>5, <1>6 DEF Next, AdapterStep

-----------------------------------------------------------------------------
LEMMA Inductive == Spec => []IInv
<1>1. Init => IInv
  BY ProvisionInit
<1>2. IInv /\ [Next]_vars => IInv'
  BY ProvisionNext
<1> QED  BY <1>1, <1>2, PTL DEF Spec

(* Every refusal has its cause in its own terms, for any plans, any facts  *)
(* that hold at once and any interleaving with the backup job, the         *)
(* cancellation, the sandbox and the engine.                               *)
THEOREM RefusalsAreCaused == Spec => []RefusalHasCause
<1>1. IInv => RefusalHasCause
  BY DEF IInv, Base
<1> QED  BY <1>1, Inductive, PTL

(* Plans that owe what they should keep the accounts of ProvisionInv.      *)
THEOREM Invariance ==
  ASSUME \A p \in Plans : Owes(p)
  PROVE  Spec => []ProvisionInv
<1>1. IInv => ProvisionInv
  <2>1. ASSUME IInv PROVE Owes(plan)
    BY <2>1 DEF IInv, Base, TypeOK
  <2> QED  BY <2>1 DEF IInv, Base, ProvisionInv
<1> QED  BY <1>1, Inductive, PTL

(* After a successful provision no automation has touched restored data,   *)
(* where the adapter gives orders about all of them.                       *)
THEOREM DataStays ==
  ASSUME \A p \in Plans : Owes(p)
  PROVE  Spec => []RestoredDataStays
<1>1. ProvisionInv => RestoredDataStays
  BY DEF ProvisionInv, FencedInv, RestoredDataStays
<1> QED  BY <1>1, Invariance, PTL

(* What was restored of an artifact the adapter looks at before it sends   *)
(* it is never older than what it found settled, and neither is what its   *)
(* checksum describes when it looks first.                                 *)
THEOREM SettledStays ==
  ASSUME \A p \in Plans : Owes(p)
  PROVE  Spec => []SettledIsRestored
<1>1. ProvisionInv => SettledIsRestored
  BY DEF ProvisionInv, OrderInv, SettledInv, Owes, SettlesFirst, SettledIsRestored
<1> QED  BY <1>1, Invariance, PTL

(* "source_corrupt" is answered only for what was found in the backup or   *)
(* by a tool that read it, also when a transfer ends early.                *)
THEOREM CorruptIsCaused ==
  ASSUME \A p \in Plans : Owes(p)
  PROVE  Spec => []CorruptHasCause
<1>1. IInv => CorruptHasCause
  <2>1. ASSUME IInv PROVE Owes(plan)
    BY <2>1 DEF IInv, Base, TypeOK
  <2> QED  BY <2>1 DEF IInv
<1> QED  BY <1>1, Inductive, PTL
=============================================================================
