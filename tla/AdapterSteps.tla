------------------------------ MODULE AdapterSteps ------------------------------
(***************************************************************************)
(* The vocabulary in which the engine adapters are described.  An adapter  *)
(* is a program of its own (adapters/<engine>): one process per operation, *)
(* which looks at the backup on the drill host and then drives the engine  *)
(* in the sandbox through the calls of the protocol.  Every adapter module *)
(* of this project writes its operations as a sequence of steps; module    *)
(* AdapterProvision says what a step does.                                 *)
(*                                                                         *)
(* What an adapter can find out is a fact: something that holds of the     *)
(* request, of the backup, of the sandbox or of a tool that ran there.  A  *)
(* test pairs a fact with the protocol error code the code answers when it *)
(* meets it; a step makes its tests in the order the code makes them.      *)
(* Many tests fire on positive evidence only: an answer that cannot be had *)
(* or read is passed over.  That is a fact too, the gap of the test.  What *)
(* no test of an adapter looks for is not a fact of its plans, and comes   *)
(* out as whatever the engine makes of it.                                 *)
(***************************************************************************)
EXTENDS Naturals, Sequences, FiniteSets

Test(on, fact, code) == [on |-> on, fact |-> fact, code |-> code, gaps |-> {}]

\* Tests on an answer that is passed over when it cannot be had or read.
Unless(gap, tests) == [i \in DOMAIN tests |-> [tests[i] EXCEPT !.gaps = @ \cup {gap}]]

Request(fact, code) == Test("request", fact, code)
Source(fact, code) == Test("source", fact, code)
Sandbox(fact, code) == Test("sandbox", fact, code)

\* A tool of the sandbox exits with a status none of the other tests explains.
Tool(code) == Test("tool", "tool_failed", code)

\* An operation the adapter refuses outright is a fact that always holds.
Always == "always"

Step(do, effect, fences, tests, lenient) ==
  [do |-> do, effect |-> effect, fences |-> fences, tests |-> tests, lenient |-> lenient]

\* Work on the drill host: no call, and no look at the cancellation.
Host(tests) == <<Step("host", "none", {}, tests, FALSE)>>
Hash(tests) == <<Step("host", "hash", {}, tests, FALSE)>>

\* assertSettled: two observations of the artifact, a window apart.
Settle(tests) == <<Step("settle", "none", {}, tests, FALSE)>>

\* One sandbox call each: a command, the transfer of the artifact, its transfer to
\* where the engine finds it, the load of the data into the engine, the start of the
\* engine, an order to an automation of the engine to keep still, the end of such an
\* order, and a call whose failure the code ignores.
Exec(tests) == <<Step("call", "none", {}, tests, FALSE)>>
Put(tests) == <<Step("call", "put", {}, tests, FALSE)>>
Place(tests) == <<Step("call", "place", {}, tests, FALSE)>>
Load(tests) == <<Step("call", "load", {}, tests, FALSE)>>
Start(fences, tests) == <<Step("call", "start", fences, tests, FALSE)>>
Fence(fences, tests) == <<Step("call", "fence", fences, tests, FALSE)>>
Release(fences, tests) == <<Step("call", "release", fences, tests, FALSE)>>
Attempt(effect, fences) == <<Step("call", effect, fences, <<>>, TRUE)>>

\* A call whose every failure, a cancellation included, is answered with one code.
Blame(fact, code) == <<Step("call", "blame", {}, <<Sandbox(fact, code)>>, FALSE)>>

\* An automation of the engine, as the set of the orders any one of which holds it.
HeldBy(orders) == {{o} : o \in orders}

\* An automation no order holds.
Unheld == {}

\* The readiness loop: calls until the engine answers or the budget is spent; the
\* tests are what the adapter reads in the engine's log when it gives up.
Await(tests) == <<Step("poll", "none", {}, tests, FALSE)>>

\* The healthcheck's question: an engine that does not answer is a valid result.
Ask == <<Step("call", "ask", {}, <<Tool("unhealthy")>>, FALSE)>>

\* The steps of a branch that is taken under a condition the plan fixes.
When(condition, steps) == IF condition THEN steps ELSE <<>>

\* The two ways a look at a path on the drill host can go wrong; reading what was
\* there a moment ago fails as unreadable.
Unreadable == <<Source("unreadable", "source_unreadable")>>
Readable == <<Source("missing", "source_not_found")>> \o Unreadable

\* backupSelection: source.params.select must name a policy the adapter knows, and a
\* kind that restores what source.path names has nothing to select.
Selection(selecting) ==
  Host(<<Request("select_unknown", "invalid_request")>>
       \o When(~selecting, <<Request("select_given", "invalid_request")>>))

\* accept and the decoding of an operation's payload: the version the core speaks,
\* and a payload of the operation's shape.  A healthcheck's payload is malformed too
\* when it does not name what the provision returned.
Speaks == Host(<<Request("version_unknown", "unsupported_protocol")>>)
Payload == Host(<<Request("payload_malformed", "invalid_request")>>)

\* A request the adapter cannot honour, refused before anything is looked at.
NoPITR == Host(<<Request("pitr_asked", "invalid_request")>>)
NoTimezone == Host(<<Request("timezone_given", "invalid_request")>>)

\* What a probe offers: the source kinds, and which of them recover to a point in time.
Offers(kinds, pitr) == [kinds |-> kinds, pitr |-> pitr]

\* What the model asks of an adapter for one source kind and one choice of options:
\* its steps, its healthcheck, the automations of the engine that would change restored
\* data, and whether the adapter looks if a job is still writing the artifact: "no",
\* "first" (before it reads the artifact) or "late".
Plan(steps, healthcheck, automation, settles) ==
  [steps |-> steps, health |-> healthcheck, automation |-> automation, settles |-> settles]

TestsOf(steps) == UNION {{steps[i].tests[j] : j \in DOMAIN steps[i].tests} : i \in DOMAIN steps}
FactsOf(steps) == UNION {{t.fact} \cup t.gaps : t \in TestsOf(steps)}
=============================================================================
