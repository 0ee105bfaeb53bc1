---------------------------- MODULE ToolRuntime -----------------------------
(***************************************************************************)
(* One run of the agent runtime: the model loop of                         *)
(* runtime/adapters/pydantic_ai.py, the executor that answers its tool     *)
(* calls (runtime/executor.py, policy.py), the bounded second attempts at  *)
(* a reply and the fallback of design_conversation/service.py.             *)
(*                                                                         *)
(* The model is free: it may ask for any tools, repeat a call id with the  *)
(* same or other arguments, and answer well or badly.  A tool call is its  *)
(* id, its tool and its arguments; a reply is what the checks on it find.  *)
(***************************************************************************)
EXTENDS Naturals, Sequences, FiniteSets

CONSTANTS
  Ids,          \* tool call ids the model uses
  Tools,        \* tool names the model uses
  Registered,   \* those that have a ToolSpec
  Allowed,      \* those the agent's allowed_tools and the ToolSpec's agents and
                \* session statuses allow
  ReadOnly, HighRisk, Forbidden,  \* their risk, LOW_RISK if none of these
  Args,         \* arguments the model sends
  ValidArgs,    \* those the input models accept
  MaxTotal,     \* max_total_tool_calls
  MaxPerTool,   \* max_calls_per_tool
  MaxByTool,    \* max_calls_by_tool: limits of single tools that replace it
  MaxPerRun,    \* ToolSpec.max_calls_per_run of each registered tool
  MaxRequests,  \* max_model_requests
  MaxBatch      \* bound on the tool calls of one response

\* What the constructors of a ToolSpec, a RuntimeBudget and an
\* AgentDefinition refuse to be without.
ToolSpec == MaxPerRun \in [Registered -> Nat \ {0}]

RuntimeBudget == MaxRequests \in Nat \ {0} /\ MaxTotal \in Nat /\ MaxPerTool \in Nat \ {0}

AgentDefinition ==
  /\ RuntimeBudget
  /\ DOMAIN MaxByTool \subseteq Allowed /\ \A t \in DOMAIN MaxByTool : MaxByTool[t] \in Nat \ {0}

ASSUME RuntimeAssumption ==
  /\ Registered \subseteq Tools /\ Allowed \subseteq Tools /\ ValidArgs \subseteq Args
  /\ (ReadOnly \cup HighRisk \cup Forbidden) \subseteq Tools
  /\ IsFiniteSet(Ids) /\ MaxBatch \in Nat \ {0}
  /\ ToolSpec /\ AgentDefinition

VARIABLES
  at,         \* where the run is
  calls,      \* tool calls of the last response, still to answer
  ledger,     \* ToolCallLedger.entries: the calls on record and their outcomes
  semantic,   \* ToolCallLedger.semantic_entries: tool and arguments
  usage,      \* RuntimeUsage
  requests,   \* requests that reached the provider
  malformed,  \* responses of the loop that its output schema refused
  wantsImage, \* the user's words ask for an image
  action,     \* the reply at hand proposes the image action
  status,     \* AgentRunResult.status, with the reason of a failure
  origin,     \* output_origin of the final output: whose words it is
  told,       \* observer: what the model was told of its calls
  done,       \* observer: how often tool and arguments were run with success
  unexpected  \* observer: the loop ended in UnexpectedModelBehavior

run     == <<wantsImage, action, status, origin>>
loop    == <<requests, malformed, unexpected>>
records == <<ledger, semantic, told, done>>
vars    == <<at, calls, usage, run, loop, records>>

Call     == [id : Ids, tool : Tools, args : Args]
Outcomes == {"ok", "limit", "not_found", "bad_input", "denied", "approval", "conflict",
             "timeout", "failed", "bad_output"}
Entry    == [call : Call, outcome : Outcomes]
Usage    == [model : Nat, total : Nat, requested : [Tools -> Nat], executed : [Tools -> Nat]]
Statuses == {"running", "completed", "pending", "no_requests", "provider_error",
             "unrepaired", "no_image_action"}
Origins  == {"none", "provider", "provider_repair", "system_fallback"}

Init ==
  /\ at = "model" /\ calls = <<>>
  /\ ledger = {} /\ semantic = {} /\ told = {} /\ done = [p \in Tools \X Args |-> 0]
  /\ usage = [model |-> 0, total |-> 0, requested |-> [t \in Tools |-> 0],
              executed |-> [t \in Tools |-> 0]]
  /\ requests = 0 /\ malformed = 0 /\ unexpected = FALSE
  /\ wantsImage \in BOOLEAN /\ action = FALSE /\ status = "running" /\ origin = "none"

-----------------------------------------------------------------------------
(* ToolExecutor.execute: answering the first of the pending calls.          *)

Recorded(call) == {entry \in ledger : entry.call.id = call.id}
Pair(call)     == <<call.tool, call.args>>

\* What the model is told; nothing else changes.
Tell(call, outcome) ==
  /\ told' = told \cup {[call |-> call, outcome |-> outcome]}
  /\ calls' = Tail(calls)

\* ToolCallLedger.record.
Record(call, outcome) ==
  /\ ledger' = (ledger \ Recorded(call)) \cup {[call |-> call, outcome |-> outcome]}
  /\ semantic' = IF outcome = "ok" /\ call.tool \in ReadOnly
                 THEN semantic \cup {Pair(call)} ELSE semantic
  /\ Tell(call, outcome)

\* The id is on record: the same answer again (approval included: the run
\* has ended by then), or a conflict, which is not recorded.
Replay(call) ==
  \E entry \in Recorded(call) :
    /\ Tell(call, IF entry.call = call THEN entry.outcome ELSE "conflict")
    /\ UNCHANGED <<at, usage, run, ledger, semantic, done>>

\* The answer of an earlier call, given to a new id and not recorded for it.
SemanticReplay(call) ==
  /\ Pair(call) \in semantic
  /\ Tell(call, "ok")
  /\ UNCHANGED <<at, usage, run, ledger, semantic, done>>

MaxCallsFor(tool) == IF tool \in DOMAIN MaxByTool THEN MaxByTool[tool] ELSE MaxPerTool

\* Mutant of OverBudget: the total is not looked at.
OverBudgetPerTool(call) == usage.requested[call.tool] >= MaxCallsFor(call.tool)

OverBudget(call) ==
  usage.total >= MaxTotal \/ usage.requested[call.tool] >= MaxCallsFor(call.tool)

\* Recorded, but not counted.
RefuseOverBudget(call) ==
  /\ OverBudget(call)
  /\ Record(call, "limit")
  /\ UNCHANGED <<at, usage, run, done>>

\* Mutant of Refusal: a high-risk tool is let through once it is allowed.
RefusalUnlessAllowed(call) ==
  IF call.tool \notin Registered THEN "not_found"
  ELSE IF call.args \notin ValidArgs THEN "bad_input"
  ELSE IF call.tool \notin Allowed THEN "denied"
  ELSE IF usage.executed[call.tool] >= MaxPerRun[call.tool] THEN "limit"
  ELSE "none"

\* ToolPolicy.authorize.
Authorize(call) ==
  IF call.tool \notin Allowed \/ call.tool \in Forbidden THEN "denied"
  ELSE IF call.tool \in HighRisk THEN "approval"
  ELSE "none"

\* Registry, input model, policy, the tool's own limit.
Refusal(call) ==
  IF call.tool \notin Registered THEN "not_found"
  ELSE IF call.args \notin ValidArgs THEN "bad_input"
  ELSE IF Authorize(call) # "none" THEN Authorize(call)
  ELSE IF usage.executed[call.tool] >= MaxPerRun[call.tool] THEN "limit"
  ELSE "none"

Counted(call) == [usage EXCEPT !.total = @ + 1, !.requested[call.tool] = @ + 1]

\* A call that is counted and not run.  One that needs approval ends the
\* run: _ApprovalPause leaves the framework's loop.
Refuse(call) ==
  /\ ~OverBudget(call) /\ Refusal(call) # "none"
  /\ usage' = Counted(call)
  /\ Record(call, Refusal(call))
  /\ IF Refusal(call) = "approval"
     THEN at' = "end" /\ status' = "pending" /\ UNCHANGED <<wantsImage, action, origin>>
     ELSE UNCHANGED <<at, run>>
  /\ UNCHANGED done

\* The handler runs and ends well, fails, returns something its output
\* model refuses, or is given up after timeout_seconds.
Dispatch(call) ==
  /\ ~OverBudget(call) /\ Refusal(call) = "none"
  /\ usage' = [Counted(call) EXCEPT !.executed[call.tool] = @ + 1]
  /\ \E outcome \in {"ok", "failed", "timeout", "bad_output"} :
       /\ Record(call, outcome)
       /\ done' = IF outcome = "ok" THEN [done EXCEPT ![Pair(call)] = @ + 1] ELSE done
  /\ UNCHANGED <<at, run>>

\* usage.model_requests was brought up to date by _make_invoke; see Respond.
ExecuteCall ==
  /\ at = "tools" /\ calls # <<>>
  /\ LET call == Head(calls)
     IN \/ Replay(call)
        \/ /\ Recorded(call) = {}
           /\ \/ SemanticReplay(call)
              \/ /\ Pair(call) \notin semantic
                 /\ RefuseOverBudget(call) \/ Refuse(call) \/ Dispatch(call)
  /\ UNCHANGED loop

\* Every call is answered: the model is asked again.
AskAgain ==
  /\ at = "tools" /\ calls = <<>>
  /\ at' = "model"
  /\ UNCHANGED <<calls, usage, run, loop, records>>

-----------------------------------------------------------------------------
(* The framework's loop: agent.run with UsageLimits(request_limit).         *)

Ask == requests < MaxRequests /\ requests' = requests + 1

\* The tools the framework is given: registered, not forbidden, and allowed
\* by the spec and by the agent.  A call of another one does not reach the
\* executor (see RespondMalformed).
Toolset == (Registered \cap Allowed) \ Forbidden
Offered == {call \in Call : call.tool \in Toolset}

\* The response is tool calls, answered one after the other.  _make_invoke
\* copies the requests made so far to the usage.
RespondCalls ==
  /\ at = "model" /\ Ask
  /\ \E batch \in UNION {[1..n -> Offered] : n \in 1..MaxBatch} : calls' = batch
  /\ at' = "tools" /\ usage' = [usage EXCEPT !.model = requests']
  /\ UNCHANGED <<run, malformed, unexpected, records>>

\* The response is a reply that the output schema takes; it stays in the
\* framework until run() has checked it.
RespondReply ==
  /\ at = "model" /\ Ask
  /\ at' = "reply" /\ usage' = [usage EXCEPT !.model = requests']
  /\ UNCHANGED <<calls, run, malformed, unexpected, records>>

\* The response does not fit the output schema: once it is asked for again,
\* then (or for a tool the framework does not know) UnexpectedModelBehavior.
RespondMalformed ==
  /\ at = "model" /\ Ask
  /\ \/ /\ malformed = 0 /\ malformed' = 1
        /\ UNCHANGED <<at, usage, unexpected>>
     \/ /\ at' = "retry" /\ unexpected' = TRUE
        /\ usage' = [usage EXCEPT !.model = IF @ = 0 THEN 1 ELSE @]
        /\ UNCHANGED malformed
  /\ UNCHANGED <<calls, run, records>>

-----------------------------------------------------------------------------
(* How a run ends (DesignConversationService.run_turn).                     *)

Fail(reason) == at' = "end" /\ status' = reason /\ UNCHANGED <<action, origin>>

Complete(whose, proposes) ==
  at' = "end" /\ status' = "completed" /\ origin' = whose /\ action' = proposes

\* system_fallback: a run that failed is completed with the system's words,
\* which propose nothing.
FallBack == Complete("system_fallback", FALSE)

\* UsageLimitExceeded, which becomes a fallback when a tool was refused for its
\* budget.
ReachLimit ==
  /\ at = "model" /\ requests = MaxRequests
  /\ IF \E entry \in told : entry.outcome = "limit" THEN FallBack ELSE Fail("no_requests")
  /\ UNCHANGED <<calls, usage, wantsImage, loop, records>>

\* Any other error of the loop: none of its codes is turned into a fallback.
ProviderFails ==
  /\ at = "model" /\ Ask
  /\ Fail("provider_error")
  /\ UNCHANGED <<calls, usage, wantsImage, malformed, unexpected, records>>

\* An output that cannot be repaired: a fallback if a tool was called.
Unrepaired == IF told # {} THEN FallBack ELSE Fail("unrepaired")

-----------------------------------------------------------------------------
(* PydanticAIRuntimeEngine.run, after the loop.                             *)

\* Mutant of Deliver: the reply is delivered without the image guard.
DeliverAnything(whose, proposes) == Complete(whose, proposes)

\* The guard that an explicit request for an image is met by its action.
Deliver(whose, proposes) ==
  IF wantsImage /\ ~proposes
  THEN at' = "image" /\ UNCHANGED <<action, status, origin>>
  ELSE Complete(whose, proposes)

\* The reply is valid, or has content that may be repaired, or none at all.
CheckReply ==
  /\ at = "reply"
  /\ \/ \E proposes \in BOOLEAN : Deliver("provider", proposes)
     \/ at' = "repair" /\ UNCHANGED <<action, status, origin>>
     \/ at' = "retry" /\ UNCHANGED <<action, status, origin>>
  /\ UNCHANGED <<calls, usage, wantsImage, loop, records>>

\* One request of a fresh agent, with a limit of one.  A request that fails
\* reached the provider and is not counted.
SecondRequest(counts) ==
  /\ usage.model < MaxRequests
  /\ requests' = requests + 1
  /\ usage' = IF counts THEN [usage EXCEPT !.model = @ + 1] ELSE usage

\* _repair_output: no request left, nothing usable, or one corrected reply.
RepairReply ==
  /\ at = "repair"
  /\ \/ SecondRequest(TRUE) /\ \E proposes \in BOOLEAN : Deliver("provider_repair", proposes)
     \/ \E counts \in BOOLEAN : SecondRequest(counts) /\ Unrepaired
     \/ Unrepaired /\ UNCHANGED <<usage, requests>>
  /\ UNCHANGED <<calls, wantsImage, malformed, unexpected, records>>

\* _retry_final_response for a reply without content.  After
\* UnexpectedModelBehavior its reply is returned as it is.
RetryReply ==
  /\ at = "retry"
  /\ \/ /\ SecondRequest(TRUE)
        /\ \E proposes \in BOOLEAN :
             IF unexpected THEN Complete("provider_repair", proposes)
             ELSE Deliver("provider_repair", proposes)
     \/ \E counts \in BOOLEAN : SecondRequest(counts) /\ Unrepaired
     \/ usage.model >= MaxRequests /\ Unrepaired /\ UNCHANGED <<usage, requests>>
  /\ UNCHANGED <<calls, wantsImage, malformed, unexpected, records>>

\* _retry_final_response for the image action: it is returned or the run
\* fails.
RetryImage ==
  /\ at = "image"
  /\ \/ SecondRequest(TRUE) /\ Complete("provider_repair", TRUE)
     \/ \E counts \in BOOLEAN : SecondRequest(counts) /\ Fail("no_image_action")
     \/ usage.model >= MaxRequests /\ Fail("no_image_action") /\ UNCHANGED <<usage, requests>>
  /\ UNCHANGED <<calls, wantsImage, malformed, unexpected, records>>

Next ==
  \/ ExecuteCall \/ AskAgain
  \/ RespondCalls \/ RespondReply \/ RespondMalformed
  \/ ReachLimit \/ ProviderFails
  \/ CheckReply \/ RepairReply \/ RetryReply \/ RetryImage

Spec == Init /\ [][Next]_vars

\* get_safe_run_display: the tools whose call was completed or replayed from
\* an earlier one are shown as used.
SafeToolEvents == {entry.call.tool : entry \in {e \in told : e.outcome = "ok"}}

-----------------------------------------------------------------------------
(* Properties.                                                              *)

TypeOK ==
  /\ at \in {"model", "tools", "reply", "repair", "retry", "image", "end"}
  /\ calls \in Seq(Call) /\ ledger \subseteq Entry /\ told \subseteq Entry
  /\ semantic \subseteq Tools \X Args /\ done \in [Tools \X Args -> Nat]
  /\ usage \in Usage /\ requests \in Nat /\ malformed \in 0..1
  /\ unexpected \in BOOLEAN /\ wantsImage \in BOOLEAN /\ action \in BOOLEAN
  /\ status \in Statuses /\ origin \in Origins

\* The budgets of a run hold however the model mixes new calls, repeated
\* ids and repeated arguments, and are used by calls on record only: replays
\* and conflicts consume nothing (executor.py:61-65).  The loop and the second
\* attempts at its reply, which count their requests apart, share one limit:
\* the retry after UnexpectedModelBehavior alone may pass it, and by one.
BudgetsHold ==
  /\ requests <= MaxRequests + IF unexpected THEN 1 ELSE 0
  /\ usage.total <= MaxTotal
  /\ Cardinality({entry \in ledger : entry.outcome # "limit"}) <= usage.total
  /\ usage.total <= Cardinality(ledger)
  /\ \A t \in Tools : /\ usage.requested[t] <= MaxCallsFor(t)
                      /\ usage.executed[t] <= usage.requested[t]
                      /\ usage.executed[t] > 0 => usage.executed[t] <= MaxPerRun[t]

\* A read-only tool is run to success at most once with the same arguments.
ReadsOnce == \A t \in ReadOnly, a \in Args : done[<<t, a>>] <= 1

\* No tool that needs approval, is forbidden or is not allowed has run, a run
\* that waits for approval has an entry that says so, and the user is shown as
\* used, whatever was replayed, only tools that ran to success in this run.
NoUnapprovedEffect ==
  /\ \A t \in SafeToolEvents : \E a \in ValidArgs : done[<<t, a>>] > 0
  /\ \A t \in Tools : usage.executed[t] > 0 => t \in Allowed \ (HighRisk \cup Forbidden)
  /\ status = "pending" <=> \E entry \in ledger : entry.outcome = "approval"

\* A user who asked for an image in so many words gets no reply of the model
\* that passes over it, but the one of the retry after UnexpectedModelBehavior,
\* which returns before the guard (pydantic_ai.py:113).  What else completes
\* such a run without a proposal are the words of the system (service.py:44),
\* which stand in for a reply only after the model has used a tool.
ImageNotPassedOver ==
  status = "completed" =>
    /\ wantsImage /\ ~action => unexpected \/ origin = "system_fallback"
    /\ origin = "system_fallback" => told # {} /\ ~action

=============================================================================
