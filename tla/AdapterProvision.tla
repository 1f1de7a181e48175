---------------------------- MODULE AdapterProvision ----------------------------
(***************************************************************************)
(* One provision, and the healthcheck after it, of any engine adapter: the *)
(* steps of a plan run against a backup, a sandbox and an engine that have *)
(* a life of their own.  Meanwhile                                         *)
(*   - a backup job may still be writing the artifact,                     *)
(*   - the core may ask the adapter to stop (SIGTERM),                     *)
(*   - the sandbox may start to refuse calls, and a transfer into a pod    *)
(*     may end early,                                                      *)
(*   - the engine, once it runs, works on the restored data: it expires,   *)
(*     compacts and ages it out unless the adapter told it not to.         *)
(*                                                                         *)
(* A plan is what an adapter does for one source kind under one choice of  *)
(* options: its steps, the steps of its healthcheck and the automations of *)
(* the engine that would change restored data (automation).                *)
(***************************************************************************)
EXTENDS AdapterSteps

CONSTANTS
  Plans,       \* the plans, each with its name
  Drills(_),   \* what a drill with the plan may meet: facts, version, provider
  MaxPolls,    \* how often a readiness loop asks before its budget is spent
  PutFileAttempts   \* how often the k8s provider sends a file

\* A backup job writes versions 0 and 1 and completes the artifact with 2.
Whole == 2
Versions == 0..2
Providers == {"k8s", "other"}

PlanShape == {"name", "steps", "health", "automation", "settles"}

\* The error codes of the protocol; a test answers one of them, or says that the
\* engine is unhealthy.
ErrorCodes ==
  {"invalid_request", "unsupported_protocol", "unsupported_source", "source_not_found",
   "source_unreadable", "source_corrupt", "restore_failed", "engine_not_ready", "cancelled", "sandbox_error", "internal"}

TestShape ==
  [on : {"request", "source", "sandbox", "tool"}, fact : STRING, code : ErrorCodes \cup {"unhealthy"},
   gaps : SUBSET STRING]

\* The drill host is hashed, a call does everything else; what a call does whose
\* failure is ignored is not relied on.
StepShape(p) ==
  {s \in [do : {"host", "settle", "call", "poll"},
          effect : {"none", "hash", "put", "place", "load", "start", "fence", "release", "blame", "ask"},
          fences : SUBSET UNION p.automation, tests : Seq(TestShape), lenient : BOOLEAN] :
     /\ s.effect = "hash" => s.do = "host"
     /\ s.effect \notin {"none", "hash"} => s.do = "call"
     /\ s.do # "call" => s.fences = {}
     /\ s.effect = "blame" => s.tests # <<>>
     /\ s.lenient => s.do = "call" /\ s.effect = "none" /\ s.fences = {} /\ s.tests = <<>>}

\* Everything a plan's steps test for or find no answer about.
Facts(p) == (FactsOf(p.steps) \cup FactsOf(p.health)) \ {Always, "expired"}

ASSUME PlansAssumption ==
  \A p \in Plans :
    /\ DOMAIN p = PlanShape
    /\ p.steps \in Seq({s \in StepShape(p) : s.effect # "ask" /\ \A i \in DOMAIN s.tests : s.tests[i].code # "unhealthy"})
    /\ p.health \in Seq({s \in StepShape(p) : s.do \in {"host", "call"} /\ s.effect \in {"none", "ask"} /\ s.fences = {}})
    /\ p.settles \in {"no", "first", "late"}
ASSUME DrillsAssumption ==
  \A p \in Plans :
    Drills(p) \subseteq [facts : SUBSET Facts(p), ver : Versions, provider : Providers]
ASSUME BoundsAssumption == {MaxPolls, PutFileAttempts} \subseteq Nat \ {0}

VARIABLES
  plan,       \* the plan this process runs
  facts,      \* the facts that hold of the request, the backup and the sandbox
  op,         \* the operation: provision, then healthcheck
  pc,         \* the next step
  polls,      \* turns of the running loop that came to nothing: readiness, transfer
  ver,        \* the version of the artifact's bytes on the drill host
  seen,       \* the version assertSettled saw first, or None
  settled,    \* the version it passed, or None
  hashed,     \* the version the checksum describes
  copied,     \* the version put_file transferred
  provider,   \* k8s, or another
  want,       \* the version whose size PutFile waits for in the pod, or None
  short,      \* the artifact in the sandbox is only its beginning
  engine,     \* down, starting, up or dead
  loaded,     \* restored data is where the engine finds it
  fenced,     \* the orders to keep still that hold
  intact,     \* no automation has touched the restored data
  cancelled,  \* SIGTERM was delivered
  sandbox,    \* up, or failing: it answers every call with an error
  answer,     \* the operation's answer, or "none"
  health      \* the healthcheck's answer, or "none"

source == <<ver, seen, settled, hashed, copied>>
transfer == <<provider, want, short>>
target == <<engine, loaded, fenced, intact>>
process == <<plan, facts, op, pc, polls>>
vars == <<process, source, transfer, target, cancelled, sandbox, answer, health>>

None == 9
Writing == ver # Whole

Steps == IF op = "provision" THEN plan.steps ELSE plan.health
Now == Steps[pc]

\* What a test can see: the facts, that an automation took restored data away, and
\* the tool that fails on an artifact of which only the beginning arrived.
Visible ==
  facts \cup {Always} \cup (IF intact THEN {} ELSE {"expired"}) \cup (IF short THEN {"tool_failed"} ELSE {})

Hits(tests) == {i \in DOMAIN tests : tests[i].fact \in Visible /\ tests[i].gaps \cap facts = {}}

\* The code of the first test that hits.
Verdict(tests) ==
  LET first == CHOOSE i \in Hits(tests) : \A j \in Hits(tests) : i <= j
  IN  IF Hits(tests) = {} THEN "pass" ELSE tests[first].code

Init ==
  /\ plan \in Plans
  /\ \E d \in Drills(plan) : facts = d.facts /\ ver = d.ver /\ provider = d.provider
  /\ op = "provision" /\ pc = 1 /\ polls = 0
  /\ seen = None /\ settled = None /\ hashed = None /\ copied = None
  /\ want = None /\ short = FALSE
  /\ engine = "down" /\ loaded = FALSE /\ fenced = {} /\ intact = TRUE
  /\ cancelled = FALSE /\ sandbox = "up"
  /\ answer = "none" /\ health = "none"

----------------------------------------------------------------------------
\* The steps of the adapter.

Running ==
  /\ pc \in DOMAIN Steps
  /\ IF op = "provision" THEN answer = "none" ELSE health = "none"

\* The end of an operation with an error: nothing else of the world changes.
Refuse(code) ==
  /\ IF op = "provision" THEN answer' = code /\ UNCHANGED health
                         ELSE health' = code /\ UNCHANGED answer
  /\ UNCHANGED <<process, source, transfer, target, cancelled, sandbox>>

Advance == pc' = pc + 1 /\ polls' = 0 /\ UNCHANGED <<plan, facts, op>>

\* fileChecksum and treeChecksum read the bytes as they are now; the other tests
\* of the drill host read no more than they need.
HostStep ==
  /\ Running /\ Now.do = "host"
  /\ IF Verdict(Now.tests) # "pass"
       THEN Refuse(Verdict(Now.tests))
       ELSE /\ Advance
            /\ hashed' = IF Now.effect = "hash" THEN ver ELSE hashed
            /\ UNCHANGED <<ver, seen, settled, copied, transfer, target, cancelled, sandbox, answer, health>>

\* assertSettled passes the artifact as it is now, whether or not the job that writes
\* it is done: "a guard, not a guarantee".
Pass ==
  /\ Advance
  /\ settled' = IF settled = None THEN ver ELSE settled
  /\ seen' = None
  /\ UNCHANGED <<ver, hashed, copied, transfer, target, cancelled, sandbox, answer, health>>

\* The first observation.  An artifact whose modification time is older than the window
\* passes at once, also when its writer has stalled that long; another one is looked at
\* again.
Observe ==
  /\ Running /\ Now.do = "settle" /\ seen = None
  /\ \/ /\ Verdict(Now.tests) # "pass"
        /\ Refuse(Verdict(Now.tests))
     \/ Verdict(Now.tests) = "pass" /\ Pass
     \/ /\ Verdict(Now.tests) = "pass"
        /\ seen' = ver
        /\ UNCHANGED <<process, ver, settled, hashed, copied, transfer, target, cancelled, sandbox, answer, health>>

\* The second observation, a window later: only a change between the two is an answer.
ObserveAgain ==
  /\ Running /\ Now.do = "settle" /\ seen # None
  /\ \/ cancelled /\ Refuse("cancelled")
     \/ ver # seen /\ Refuse("source_unreadable")
     \/ ver = seen /\ Pass

\* core.call: a cancelled context refuses new calls, the sandbox's own error is
\* handed on as it is, and only then does the call's result count.  A call may also
\* hold all of these against the image.
CallVerdict(step) ==
  CASE step.effect = "blame" /\ (cancelled \/ sandbox = "failing") -> step.tests[1].code
    [] step.effect # "blame" /\ cancelled -> "cancelled"
    [] step.effect # "blame" /\ ~cancelled /\ sandbox = "failing" -> "sandbox_error"
    [] OTHER -> Verdict(step.tests)

\* What a call that went well does to the sandbox.
Effect(step) ==
  /\ copied' = IF step.effect \in {"put", "place"} THEN ver ELSE copied
  /\ loaded' = (loaded \/ step.effect \in {"load", "place"})
  /\ engine' = IF step.effect = "start" THEN "starting" ELSE engine
  /\ fenced' = IF step.effect = "release" THEN fenced \ step.fences ELSE fenced \cup step.fences
  /\ UNCHANGED <<ver, seen, settled, hashed, intact>>

Transfers == Now.effect \in {"put", "place"}

CallStep ==
  /\ Running /\ Now.do = "call" /\ Now.effect # "ask" /\ ~(Transfers /\ provider = "k8s")
  /\ LET verdict == CallVerdict(Now)
     IN  \/ verdict # "pass" /\ ~Now.lenient /\ Refuse(verdict)
         \/ /\ Now.lenient
            /\ Advance
            /\ UNCHANGED <<source, transfer, target, cancelled, sandbox, answer, health>>
         \/ /\ verdict = "pass"
            /\ Advance
            /\ Effect(Now)
            /\ UNCHANGED <<transfer, cancelled, sandbox, answer, health>>

\* PutFile of the k8s provider: the size of the file is taken first, and the copy is
\* sent until the pod counts as many bytes.  The stream may end early, and a file that
\* a job writes on has another size by then.
PutFile ==
  /\ Running /\ Transfers /\ provider = "k8s" /\ want = None
  /\ LET verdict == CallVerdict(Now)
     IN  \/ verdict # "pass" /\ Refuse(verdict)
         \/ /\ verdict = "pass"
            /\ want' = ver
            /\ UNCHANGED <<process, source, provider, short, target, cancelled, sandbox, answer, health>>

\* The copy in the pod after one attempt, whole or cut; cat and wc are one script, so
\* the count is of a file that nothing writes any more.
CountedUnread(cut) ==   \* mutant: the size of the host's file is reported, as it was before issue 272
  TRUE

Counted(cut) == ~cut /\ ver = want

StreamOnce(cut) ==
  \/ /\ Counted(cut)
     /\ Advance
     /\ Effect(Now)
     /\ want' = None /\ short' = cut
     /\ UNCHANGED <<provider, cancelled, sandbox, answer, health>>
  \/ /\ ~Counted(cut) /\ polls + 1 < PutFileAttempts
     /\ polls' = polls + 1
     /\ UNCHANGED <<plan, facts, op, pc, source, transfer, target, cancelled, sandbox, answer, health>>
  \/ ~Counted(cut) /\ polls + 1 = PutFileAttempts /\ Refuse("sandbox_error")

\* The attempts of one call; an end of the drill's context ends the copy too.
StreamStep ==
  /\ Running /\ want # None
  /\ \/ sandbox = "up" /\ \E cut \in BOOLEAN : StreamOnce(cut)
     \/ (sandbox = "failing" \/ cancelled) /\ Refuse("sandbox_error")


NotReady ==
  /\ polls < MaxPolls
  /\ polls' = polls + 1
  /\ UNCHANGED <<plan, facts, op, pc, source, transfer, target, cancelled, sandbox, answer, health>>

BudgetSpentVerdict ==   \* mutant: a slow start is held against the restore
  polls = MaxPolls /\ Refuse("restore_failed")

BudgetSpent == polls = MaxPolls /\ Refuse("engine_not_ready")

PollStep ==
  /\ Running /\ Now.do = "poll"
  /\ LET verdict == CallVerdict(Now)
     IN  \/ verdict # "pass" /\ Refuse(verdict)
         \/ /\ verdict = "pass"
            /\ Advance
            /\ engine' = "up"
            /\ UNCHANGED <<source, transfer, loaded, fenced, intact, cancelled, sandbox, answer, health>>
         \/ verdict = "pass" /\ (NotReady \/ BudgetSpent)

\* finishOK: the provision is answered.
Answer ==
  /\ op = "provision" /\ answer = "none" /\ pc = Len(Steps) + 1
  /\ answer' = "ok"
  /\ UNCHANGED <<process, source, transfer, target, cancelled, sandbox, health>>

\* The core runs the healthcheck as a process of its own.
Recheck ==
  /\ op = "provision" /\ answer = "ok" /\ ~cancelled
  /\ op' = "healthcheck" /\ pc' = 1
  /\ UNCHANGED <<plan, facts, polls, source, transfer, target, cancelled, sandbox, answer, health>>

AskStep ==
  /\ Running /\ Now.effect = "ask"
  /\ LET verdict == CallVerdict(Now)
     IN  health' = IF verdict # "pass" THEN verdict
                   ELSE IF engine = "dead" THEN "unhealthy" ELSE "healthy"
  /\ UNCHANGED <<process, source, transfer, target, cancelled, sandbox, answer>>

AdapterStep == HostStep \/ Observe \/ ObserveAgain \/ CallStep \/ PutFile \/ StreamStep \/ PollStep \/ Answer \/ Recheck \/ AskStep

----------------------------------------------------------------------------
\* What happens around the adapter.

\* The backup job writes on; the write that completes the artifact is its last.
JobWrites ==
  /\ answer = "none" /\ Writing
  /\ ver' = ver + 1
  /\ UNCHANGED <<process, seen, settled, hashed, copied, transfer, target, cancelled, sandbox, answer, health>>

Cancel ==
  /\ ~cancelled /\ answer = "none"
  /\ cancelled' = TRUE
  /\ UNCHANGED <<process, source, transfer, target, sandbox, answer, health>>

SandboxFails ==
  /\ sandbox = "up" /\ answer \in {"none", "ok"} /\ health = "none"
  /\ sandbox' = "failing"
  /\ UNCHANGED <<process, source, transfer, target, cancelled, answer, health>>

\* An automation nobody fenced off works on the restored data of a running engine.
Expire ==
  /\ intact /\ loaded /\ engine \in {"starting", "up"}
  /\ \E orders \in plan.automation : orders \cap fenced = {}
  /\ intact' = FALSE
  /\ UNCHANGED <<process, source, transfer, engine, loaded, fenced, cancelled, sandbox, answer, health>>

EngineDies ==
  /\ op = "healthcheck" /\ engine \in {"starting", "up"} /\ health = "none"
  /\ engine' = "dead"
  /\ UNCHANGED <<process, source, transfer, loaded, fenced, intact, cancelled, sandbox, answer, health>>

World == JobWrites \/ Cancel \/ SandboxFails \/ Expire \/ EngineDies

Next == AdapterStep \/ World

\* The adapter is a process that runs until it has answered; its readiness loops
\* are bounded by their budget and every call by the core's own timeouts.
\* Nothing makes a backup job go on writing.
Spec == Init /\ [][Next]_vars /\ WF_vars(AdapterStep)

----------------------------------------------------------------------------
Codes == {"none", "ok"} \cup ErrorCodes

\* Type correctness.
TypeOK ==
  /\ plan \in Plans
  /\ op \in {"provision", "healthcheck"} /\ pc \in 1..(Len(Steps) + 1) /\ polls \in 0..(MaxPolls + PutFileAttempts)
  /\ provider \in Providers /\ want \in Versions \cup {None} /\ short \in BOOLEAN
  /\ ver \in Versions /\ {seen, settled, hashed, copied} \subseteq Versions \cup {None}
  /\ engine \in {"down", "starting", "up", "dead"}
  /\ {loaded, intact, cancelled} \subseteq BOOLEAN /\ fenced \subseteq UNION plan.automation
  /\ sandbox \in {"up", "failing"}
  /\ answer \in Codes /\ health \in Codes \cup {"healthy", "unhealthy"}

\* Once the provision has succeeded, and for as long as the checks run, no
\* automation of the engine takes restored data away: each was told to keep still
\* before it could see the data.  Left out are the automations an adapter gives no
\* order about, which it can only count the losses of.
RestoredDataStays == answer = "ok" /\ Unheld \notin plan.automation => intact

\* What an adapter that waits for its artifact restores is never older than what it
\* found settled, and neither is what it put the checksum of into the evidence, where it
\* waits before it reads the artifact: a job that was done by then is restored, and
\* hashed, whole.  (One that had merely stalled may be restored half written.)
SettledIsRestored ==
  answer = "ok" /\ plan.settles # "no" =>
    /\ copied \in settled..Whole
    /\ plan.settles = "first" => hashed \in settled..Whole

\* A verdict against the backup has its cause in the backup or in what a tool of
\* the engine said about it: never in the request, in the sandbox, in a slow start,
\* in a transfer that ended early or in a cancellation.
Causes(on, code) == {t.fact : t \in {u \in TestsOf(plan.steps) : u.on \in on /\ u.code = code}}
CorruptHasCause ==
  answer = "source_corrupt" =>
    (facts \cup (IF intact THEN {} ELSE {"expired"})) \cap Causes({"source", "tool"}, "source_corrupt") # {}

\* The tests of a plan that hit, but for what a copy that was cut short makes of them.
Found ==
  {t \in TestsOf(plan.steps) :
     /\ t.fact \in facts \cup {Always} \cup (IF intact THEN {} ELSE {"expired"})
     /\ t.gaps \cap facts = {}}

\* What the adapter met that goes by a code: something it looks for and that holds, or
\* the slow engine, the writing job, the short transfer, the failing sandbox or the
\* cancellation it names.
Met(code) ==
  \/ code \in {t.code : t \in Found}
  \/ code = "engine_not_ready" /\ Now.do = "poll" /\ polls = MaxPolls
  \/ code = "source_unreadable" /\ Now.do = "settle" /\ seen # None /\ ver # seen
  \/ code = "sandbox_error" /\ (sandbox = "failing" \/ (want # None /\ (cancelled \/ polls + 1 = PutFileAttempts)))
  \/ code = "cancelled" /\ cancelled
  \/ Now.effect = "blame" /\ code = Now.tests[1].code /\ (cancelled \/ sandbox = "failing")

\* Every refusal has its cause, in its own terms, also when several things go wrong at
\* once.  Whether what an adapter looks for is a flaw of the backup is not the model's to
\* say: scylladb refuses a table that was never written to.
RefusalHasCause == answer \notin {"none", "ok"} => Met(answer)

----------------------------------------------------------------------------
\* What a plan owes for these to hold whatever meets it; each is a condition on the
\* steps alone, and the proofs show that it is enough.

\* A step whose failure counts.
Strict(s) == ~s.lenient

\* The orders that hold after the first n steps.
Holds(p, n, o) ==
  \E i \in 1..n :
    /\ Strict(p.steps[i]) /\ p.steps[i].effect # "release" /\ o \in p.steps[i].fences
    /\ \A j \in (i + 1)..n : ~(p.steps[j].effect = "release" /\ o \in p.steps[j].fences)
LoadsBy(p, n) == \E i \in 1..n : p.steps[i].effect \in {"load", "place"}
StartsBy(p, n) == \E i \in 1..n : p.steps[i].effect = "start" \/ p.steps[i].do = "poll"

\* Every automation of the engine is held from before data and engine meet.
FencesFirst(p) ==
  \A n \in 0..Len(p.steps) :
    LoadsBy(p, n) /\ StartsBy(p, n) =>
      \A orders \in p.automation : \E o \in orders : Holds(p, n, o)

\* The artifact is settled before it is transferred, and read before or after.
SettledBy(p, n) == \E i \in 1..n : p.steps[i].do = "settle"
CopiedBy(p, n) == \E i \in 1..n : p.steps[i].effect \in {"put", "place"} /\ SettledBy(p, i - 1)
HashedBy(p, n) == \E i \in 1..n : p.steps[i].effect = "hash" /\ SettledBy(p, i - 1)

SettlesFirst(p) ==
  /\ p.settles # "no" => CopiedBy(p, Len(p.steps))
  /\ p.settles = "first" => HashedBy(p, Len(p.steps))
  /\ p.settles = "no" => ~SettledBy(p, Len(p.steps))

\* The backup is blamed only for what was found in it, or by a tool that read it.
BlamesTheSource(p) ==
  /\ \A t \in TestsOf(p.steps) : t.code = "source_corrupt" => t.on \in {"source", "tool"} /\ t.fact # Always
  /\ \A i \in DOMAIN p.steps : p.steps[i].effect = "blame" => p.steps[i].tests[1].code # "source_corrupt"

Owes(p) ==
  /\ SettlesFirst(p) /\ BlamesTheSource(p)
  /\ Unheld \notin p.automation => FencesFirst(p)

\* The steps of the provision that are behind the adapter.
Done == IF op = "provision" THEN pc - 1 ELSE Len(plan.steps)

\* Only a provision that is through is answered, and only then is there a healthcheck.
OrderInv ==
  /\ answer = "ok" => Done = Len(plan.steps)
  /\ op = "healthcheck" => answer = "ok"

\* Between the halves of a step the adapter is still at that step; and no copy that was
\* cut short is taken for the file.
HalfwayInv ==
  /\ seen # None \/ want # None => op = "provision" /\ pc \in DOMAIN plan.steps
  /\ seen # None => Now.do = "settle"
  /\ want # None => Transfers /\ provider = "k8s"
  /\ ~short

\* The orders given hold, and data and engine are there only where a step brought them.
FencedInv ==
  /\ \A o \in UNION plan.automation : Holds(plan, Done, o) => o \in fenced
  /\ loaded => LoadsBy(plan, Done)
  /\ engine # "down" => StartsBy(plan, Done)
  /\ Unheld \notin plan.automation => intact

\* The bytes on the drill host only get newer than what was found settled, and so does
\* what is read and sent of them from then on.
SettledInv ==
  /\ SettledBy(plan, Done) => settled # None
  /\ settled # None => settled <= ver
  /\ CopiedBy(plan, Done) => copied \in settled..Whole
  /\ HashedBy(plan, Done) => hashed \in settled..Whole

\* The accounts of a provision under way, in lock step with the plan: what has been sent
\* and read is what the steps behind the adapter say, the orders they gave hold, and no
\* copy that was cut short passed for the file.  Owes is in it so that every plan the
\* adapters have is known to be one the theorems are about.
ProvisionInv == Owes(plan) /\ OrderInv /\ HalfwayInv /\ FencedInv /\ SettledInv

\* Every operation is answered, whatever is cancelled or fails.
Answered == answer # "none" /\ (op = "healthcheck" => health # "none")
=============================================================================
