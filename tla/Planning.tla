------------------------------- MODULE Planning -------------------------------
(***************************************************************************)
(* The slow planner: what it remembers and tells the language model, how   *)
(* often it asks, what it makes of the answer, and the offline substitute  *)
(* it falls back on.  A call is the skill that it names and its arguments: *)
(* an object that fits the schema (good) or does not (wrong), some other   *)
(* JSON value (value), or no JSON at all (broken).                         *)
(***************************************************************************)
EXTENDS Integers, Sequences

CONSTANTS
  Replies,    \* what the model may answer: its tool calls, and calls in the text of its message
  Substitute, \* plans of MockLLM, all of registered skills
  Remembered,     \* entries of the short-term memory that a plan looks at
  Shown,      \* max_memories of the prompt
  MaxRetries, \* max_retries
  MaxCycles   \* bound on the plans of one command

Calls == [skill : {"known", "hidden", "unknown"}, args : {"good", "wrong", "value", "broken", "default"}]

ASSUME PlanningAssumption ==
  /\ {Remembered, Shown, MaxRetries, MaxCycles} \subseteq Nat
  /\ \A reply \in Replies : reply.calls \in Seq(Calls) /\ reply.text \in Seq(Calls)
  /\ Substitute \subseteq Seq(Calls)

VARIABLES
  llm,       \* RDB_LLM: openai, compatible or mock
  stage,     \* idle, deciding, asking or acting
  asks,      \* how often the model was asked in vain
  said,      \* the calls of the last answer, as they were parsed
  queue,     \* the plan
  degraded,  \* is_degraded
  memory,    \* short_term, as much of it as is ever looked at
  found,     \* what the search in the long-term memory has found
  prompt,    \* the memories in the prompt
  turned,    \* a call of this command was turned down
  cycles

planningVars == <<llm, stage, asks, said, queue, degraded, memory, found, prompt, turned, cycles>>

PlanningInit ==
  /\ llm \in {"openai", "compatible", "mock"} /\ stage = "idle" /\ asks = 0
  /\ said = <<>> /\ queue = <<>> /\ degraded = FALSE
  /\ memory = <<>> /\ found = <<>> /\ prompt = <<>> /\ turned = FALSE /\ cycles = 0

LastOf(s, n) == SubSeq(s, IF Len(s) > n THEN Len(s) - n + 1 ELSE 1, Len(s))
Remember(entries) == memory' = LastOf(memory \o entries, Remembered)

-----------------------------------------------------------------------------
(* The answer.                                                             *)

\* Arguments that are JSON, but no object, make no call: the whole answer counts for nothing.
Raises(reply) == \E i \in DOMAIN reply.calls : reply.calls[i].args = "value"

\* Whatever is not an object becomes an empty one, that is, the defaults of the skill.
FromText(text) == [i \in DOMAIN text |->
  IF text[i].args \in {"good", "wrong"} THEN text[i] ELSE [text[i] EXCEPT !.args = "default"]]

\* The calls at some places of a list, in their order.
Kept(calls, places) ==
  LET kept[n \in 0..Len(calls)] ==
        IF n = 0 THEN <<>> ELSE IF n \in places THEN Append(kept[n - 1], calls[n]) ELSE kept[n - 1]
  IN kept[Len(calls)]

\* _parse_response, and its like of the other client, which reads no text.
Parsed(reply) ==
  LET calls == Kept(reply.calls, {i \in DOMAIN reply.calls : reply.calls[i].args # "broken"})
  IN IF llm = "compatible" /\ calls = <<>> THEN FromText(reply.text) ELSE calls

\* Fault: only the name is looked up.
Accepts_NameOnly(call) == call.skill # "unknown"

\* A registered skill, shown to the model or not, and arguments that fit its schema.
Accepts(call) == call.skill # "unknown" /\ call.args \in {"good", "default"}
Validated(calls) == Kept(calls, {i \in DOMAIN calls : Accepts(calls[i])})

\* The planner validates the calls of any client once more, and remembers those it rejects.
TakePlan(calls) ==
  /\ stage' = "acting"
  /\ queue' = Validated(calls)
  /\ Remember([i \in 1..(Len(calls) - Len(Validated(calls))) |-> "rejected"] \o <<"plan", "decision">>)

-----------------------------------------------------------------------------
\* run_command and the first observation.
Command ==
  /\ stage = "idle"
  /\ stage' = "deciding" /\ cycles' = 1 /\ turned' = FALSE
  /\ Remember(<<"observation">>)
  /\ UNCHANGED <<llm, asks, said, queue, degraded, found, prompt>>

\* plan: the memories go first to the prompt as they are, which takes the first of them.
Ask ==
  /\ stage = "deciding"
  /\ prompt' = SubSeq(memory \o found, 1, IF Len(memory \o found) > Shown THEN Shown ELSE Len(memory \o found))
  /\ IF llm = "mock"
     THEN \E plan \in Substitute : said' = plan /\ TakePlan(plan) /\ UNCHANGED asks
     ELSE stage' = "asking" /\ asks' = 0 /\ UNCHANGED <<said, queue, memory>>
  /\ UNCHANGED <<llm, degraded, found, turned, cycles>>

\* Fault: a client that has recovered still counts as degraded.
Recovered_Never == UNCHANGED degraded

Recovered == degraded' = FALSE

\* An answer that can be read, of which the client keeps what its validator accepts.
Answered ==
  /\ stage = "asking"
  /\ \E reply \in Replies :
       /\ ~Raises(reply)
       /\ said' = Parsed(reply)
       /\ turned' = (turned \/ \E i \in DOMAIN reply.calls : ~Accepts(reply.calls[i]))
       /\ TakePlan(Validated(Parsed(reply)))
  /\ Recovered
  /\ UNCHANGED <<llm, asks, found, prompt, cycles>>

\* Fault: the attempts are not counted.
Unanswered_Uncounted ==
  /\ stage = "asking"
  /\ UNCHANGED planningVars

\* An HTTP error, an answer that cannot be read or none in thirty seconds: it is
\* asked again, and after the last time the substitute plans.
Unanswered ==
  /\ stage = "asking"
  /\ asks' = asks + 1
  /\ IF asks < MaxRetries
     THEN UNCHANGED <<stage, said, queue, degraded, memory>>
     ELSE /\ \E plan \in Substitute : said' = plan /\ TakePlan(plan)
          /\ degraded' = TRUE
  /\ UNCHANGED <<llm, found, prompt, turned, cycles>>

\* The command is cancelled at this await.
Cancelled ==
  /\ stage = "asking"
  /\ stage' = "idle" /\ queue' = <<>>
  /\ UNCHANGED <<llm, asks, said, degraded, memory, found, prompt, turned, cycles>>

\* validate, execute, observe and reflect of one call; a failed one asks for another
\* plan, before which the robot is observed once more.
ActOn ==
  /\ stage = "acting" /\ queue # <<>>
  /\ \/ /\ queue' = Tail(queue) /\ UNCHANGED <<stage, cycles>>
        /\ Remember(<<"validation", "observation", "result">>)
     \/ /\ cycles < MaxCycles
        /\ queue' = <<>> /\ stage' = "deciding" /\ cycles' = cycles + 1
        /\ Remember(<<"validation", "observation", "result", "replan", "observation">>)
  /\ UNCHANGED <<llm, asks, said, degraded, found, prompt, turned>>

\* _remember: the outcome goes into both memories, blocked and failed ones, too.
Record ==
  /\ stage = "acting"
  /\ stage' = "idle" /\ queue' = <<>>
  /\ found' \in {<<>>, <<"experience">>}
  /\ Remember(<<"outcome">>)
  /\ UNCHANGED <<llm, asks, said, degraded, prompt, turned, cycles>>

PlanningNext == Command \/ Ask \/ Answered \/ Unanswered \/ Cancelled \/ ActOn \/ Record

\* The wait for an answer has a timeout.
PlanningFairness == WF_planningVars(Unanswered)

PlanningSpec == PlanningInit /\ [][PlanningNext]_planningVars /\ PlanningFairness

-----------------------------------------------------------------------------
\* The mark: the substitute plans after the last vain attempt.
DegradedIsMarked == stage = "acting" => (degraded <=> asks > MaxRetries)

\* The plan: its calls were said, and their skills accept them.
PlanIsAccepted ==
  stage = "acting" =>
    \A i \in DOMAIN queue : /\ queue[i].skill \in {"known", "hidden"}
                            /\ queue[i].args \in {"good", "default"}
                            /\ \E j \in DOMAIN said : said[j] = queue[i]

(* Whatever the model answers, however often it fails and recovers, a plan is  *)
(* marked as degraded (is_degraded, which the audit trail and the dashboard    *)
(* show) exactly when the substitute has made it, and no call of it is left    *)
(* that its answer did not hold or that its skill would not accept.            *)
PlanIsMarked == DegradedIsMarked /\ PlanIsAccepted

(* A command that waits for the model gets on, be it with the substitute.      *)
PlanningEnds == stage = "asking" ~> stage # "asking"

(* "the rejected calls are written to the short-term memory for the next plan  *)
(* to see": a model that is asked again within a command in which a call of    *)
(* its was turned down reads of that in its prompt.                            *)
RejectionIsKnown ==
  stage = "asking" /\ turned => \E i \in DOMAIN prompt : prompt[i] = "rejected"
=============================================================================
