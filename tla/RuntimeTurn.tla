----------------------------- MODULE RuntimeTurn -----------------------------
(***************************************************************************)
(* Assistant turns of one agent session: runs, messages and context        *)
(* summaries (backend/services/agent_runtime_turn_service.py over          *)
(* backend/services/agent_runtime_repository.py, with the context builder  *)
(* of backend/agents/context).                                             *)
(*                                                                         *)
(* A turn is a coroutine of one server process.  It holds the event loop   *)
(* of its process from create_or_get_run until it awaits the model, since  *)
(* neither the repository nor the default summarizer suspends; every       *)
(* transaction on the locked session row is one action, so that turns of   *)
(* different processes interleave between them and turns of one process    *)
(* only while the model is called.                                         *)
(*                                                                         *)
(* A message is the turn it belongs to, its role and its task; a summary   *)
(* is the set of log positions it condenses.  A scope is a task, or None   *)
(* for the messages of the conversation itself.                            *)
(***************************************************************************)
EXTENDS Naturals, Sequences, FiniteSets

CONSTANTS
  Processes,    \* server processes, one event loop each
  Handlers,     \* requests that can be in progress at once
  Turns,        \* client_turn_id values
  Tasks,        \* design tasks of the session
  None,         \* SQL NULL
  MinRecent,    \* ContextBudget.min_recent_messages: 2 in the code
  MaxRecent,    \* ContextBudget.max_recent_messages: 10 in the code
  MaxDialogue,  \* bound on messages of the confirmation dialogue
  MaxLost       \* bound on turns that crash or raise

ASSUME RuntimeAssumption ==
  /\ MinRecent \in Nat /\ MaxRecent \in Nat \ {0} /\ MinRecent <= MaxRecent
  /\ MaxDialogue \in Nat /\ MaxLost \in Nat
  /\ None \notin Turns \cup Tasks

VARIABLES
  active, closed,  \* active_task_id of the session, and the closed tasks
  runs,            \* agent_runtime_runs, by client_turn_id
  log,             \* agent_messages in sequence_no order
  summary,         \* the active row of agent_context_summaries of a scope
  job,             \* the handlers
  modelCalls,      \* observer: how often a turn was given to the model
  dialogue, lost   \* what the bounds count

vars == <<active, closed, runs, log, summary, job, modelCalls, dialogue, lost>>

Scopes  == Tasks \cup {None}
\* "ended" stands for completed, pending_approval and failed, which nothing
\* here tells apart.
Run     == [status : {"absent", "running", "ended"}, task : Scopes]
Message == [turn : Turns \cup {None}, role : {"user", "assistant"}, task : Scopes]
Summary == [covers : SUBSET Nat, end : Nat, count : Nat]
Nothing == [covers |-> {}, end |-> 0, count |-> 0]

\* Where a handler holds its event loop; at "model" it awaits the provider.
Sync == {"messages", "summary", "compress", "store"}
Job  == [at : Sync \cup {"idle", "model"}, process : Processes \cup {None},
         turn : Turns \cup {None}, seen : Nat, prev : Summary, next : Summary]
At(where, p, t) == [at |-> where, process |-> p, turn |-> t, seen |-> 0,
                    prev |-> Nothing, next |-> Nothing]
Idle == At("idle", None, None)

\* The event loop of p can take up a handler.
Free(p) == \A h \in Handlers : job[h].process = p => job[h].at \notin Sync

ScopeOf(h) == runs[job[h].turn].task

\* The rows of scope s among the first n messages.
Rows(messages, s, n) == {i \in 1..n : messages[i].task = s}

\* design_service.run_turn is awaited: the loop is free again.
AskModel(h) ==
  /\ job' = [job EXCEPT ![h] = At("model", job[h].process, job[h].turn)]
  /\ modelCalls' = [modelCalls EXCEPT ![job[h].turn] = @ + 1]

Init ==
  /\ active = None /\ closed = {}
  /\ runs = [t \in Turns |-> [status |-> "absent", task |-> None]]
  /\ log = <<>> /\ summary = [s \in Scopes |-> Nothing]
  /\ job = [h \in Handlers |-> Idle]
  /\ modelCalls = [t \in Turns |-> 0] /\ dialogue = 0 /\ lost = 0

-----------------------------------------------------------------------------
(* POST .../assistant-turns: run_turn.                                      *)

\* Mutant of StartTurn: the retry of a turn still running starts it again.
StartTurnAgain(h, p, t) ==
  \E asked \in Scopes :
    LET task == IF asked = None THEN active ELSE asked
    IN /\ job[h].at = "idle" /\ Free(p)
       /\ task \notin closed
       /\ runs[t].status # "ended"
       /\ runs' = [runs EXCEPT ![t] = [status |-> "running", task |-> task]]
       /\ job' = [job EXCEPT ![h] = At("messages", p, t)]
       /\ UNCHANGED <<active, closed, log, summary, modelCalls, dialogue, lost>>

\* create_or_get_run of a new client_turn_id.  A turn already stored is
\* answered with its run, whatever its status, and nothing runs.
StartTurn(h, p, t) ==
  \E asked \in Scopes :
    LET task == IF asked = None THEN active ELSE asked
    IN /\ job[h].at = "idle" /\ Free(p)
       /\ task \notin closed
       /\ runs[t].status = "absent"
       /\ runs' = [runs EXCEPT ![t] = [status |-> "running", task |-> task]]
       /\ job' = [job EXCEPT ![h] = At("messages", p, t)]
       /\ UNCHANGED <<active, closed, log, summary, modelCalls, dialogue, lost>>

\* RuntimeContextBuilder.build: the rows of the session...
ReadMessages(h) ==
  /\ job[h].at = "messages"
  /\ job' = [job EXCEPT ![h].at = "summary", ![h].seen = Len(log)]
  /\ UNCHANGED <<active, closed, runs, log, summary, modelCalls, dialogue, lost>>

\* ... then the active summary of the scope.
ReadSummary(h) ==
  /\ job[h].at = "summary"
  /\ job' = [job EXCEPT ![h].at = "compress", ![h].prev = summary[ScopeOf(h)]]
  /\ UNCHANGED <<active, closed, runs, log, summary, modelCalls, dialogue, lost>>

\* What _select_recent may keep of the rows m: always the last MinRecent,
\* and of the older ones whatever the token budget has room for.
Recent(m) ==
  {r \in SUBSET m : /\ Cardinality(r) <= MaxRecent
                    /\ \A i \in m : Cardinality({j \in m : j > i}) < MinRecent => i \in r}

\* _contiguous_summary_prefix: the rows before the first recent one.
Prefix(after, recent) == {i \in after : \A j \in recent \cap after : i < j}

\* ContextSummaryValidator, as far as it concerns the range summarized.
Valid(candidate, previous, m) ==
  /\ candidate.count >= previous.count
  /\ candidate.end \in m
  /\ candidate.count = Cardinality({i \in m : i <= candidate.end})

\* The rows after the summary are read, and what precedes the recent ones is
\* condensed into it.
Compress(h) ==
  LET m     == Rows(log, ScopeOf(h), job[h].seen)
      prev  == job[h].prev
      after == {i \in Rows(log, ScopeOf(h), Len(log)) : i > prev.end}
  IN /\ job[h].at = "compress"
     /\ \E recent \in Recent(m) :
          LET prefix == Prefix(after, recent)
          IN \E last \in prefix :
               LET next == [covers |-> prev.covers \cup prefix, end |-> last,
                            count |-> prev.count + Cardinality(prefix)]
               IN /\ \A i \in prefix : i <= last
                  /\ Valid(next, prev, m)
                  /\ job' = [job EXCEPT ![h].at = "store", ![h].next = next]
     /\ UNCHANGED <<active, closed, runs, log, summary, modelCalls, dialogue, lost>>

\* Below the budget that triggers a compression, or the candidate and its
\* fallback were rejected: the turn goes on with the summary it read.
KeepSummary(h) ==
  /\ job[h].at = "compress"
  /\ AskModel(h)
  /\ UNCHANGED <<active, closed, runs, log, summary, dialogue, lost>>

\* Mutant of StoreSummary: the scope is taken from the session's active task.
StoreInActiveScope(h) ==
  /\ job[h].at = "store"
  /\ summary' = [summary EXCEPT ![active] = job[h].next]
  /\ AskModel(h)
  /\ UNCHANGED <<active, closed, runs, log, dialogue, lost>>

\* create_summary_version: the scope's active row is replaced.
StoreSummary(h) ==
  /\ job[h].at = "store"
  /\ summary' = [summary EXCEPT ![ScopeOf(h)] = job[h].next]
  /\ AskModel(h)
  /\ UNCHANGED <<active, closed, runs, log, dialogue, lost>>

Question(t) == [turn |-> t, role |-> "user", task |-> runs[t].task]
Answer(t)   == [turn |-> t, role |-> "assistant", task |-> runs[t].task]

\* Mutant of CompleteRun: the messages go to the session's active task.
CompleteInActive(h) ==
  LET t == job[h].turn
  IN /\ job[h].at = "model" /\ Free(job[h].process)
     /\ IF runs[t].status = "running"
        THEN /\ runs' = [runs EXCEPT ![t].status = "ended"]
             /\ log' = Append(Append(log, [Question(t) EXCEPT !.task = active]),
                              [Answer(t) EXCEPT !.task = active])
        ELSE UNCHANGED <<runs, log>>
     /\ job' = [job EXCEPT ![h] = Idle]
     /\ UNCHANGED <<active, closed, summary, modelCalls, dialogue, lost>>

\* Mutant of CompleteRun: the answer to a task closed meanwhile is dropped.
CompleteOpenRun(h) ==
  LET t == job[h].turn
  IN /\ job[h].at = "model" /\ Free(job[h].process)
     /\ IF runs[t].status = "running" /\ runs[t].task \notin closed
        THEN /\ runs' = [runs EXCEPT ![t].status = "ended"]
             /\ log' = Append(Append(log, Question(t)), Answer(t))
        ELSE UNCHANGED <<runs, log>>
     /\ job' = [job EXCEPT ![h] = Idle]
     /\ UNCHANGED <<active, closed, summary, modelCalls, dialogue, lost>>

\* The model answers or fails, and complete_run stores the result with the
\* two messages of the turn, unless the run has ended already.
CompleteRun(h) ==
  LET t == job[h].turn
  IN /\ job[h].at = "model" /\ Free(job[h].process)
     /\ IF runs[t].status = "running"
        THEN /\ runs' = [runs EXCEPT ![t].status = "ended"]
             /\ log' = Append(Append(log, Question(t)), Answer(t))
        ELSE UNCHANGED <<runs, log>>
     /\ job' = [job EXCEPT ![h] = Idle]
     /\ UNCHANGED <<active, closed, summary, modelCalls, dialogue, lost>>

\* The process dies, or an exception escapes run_turn: the database refuses
\* a write, or the client_turn_id is one the dialogue has used.
LoseTurn(h) ==
  /\ job[h].at # "idle" /\ lost < MaxLost
  /\ lost' = lost + 1
  /\ job' = [job EXCEPT ![h] = Idle]
  /\ UNCHANGED <<active, closed, runs, log, summary, modelCalls, dialogue>>

-----------------------------------------------------------------------------
(* The other requests of the session, as far as they touch this state.      *)

\* select_active_task.
SelectTask(k) ==
  /\ k \notin closed
  /\ active' = k
  /\ UNCHANGED <<closed, runs, log, summary, job, modelCalls, dialogue, lost>>

\* execute_approved_action with archive_task.
CloseTask(k) ==
  /\ k \notin closed
  /\ closed' = closed \cup {k}
  /\ active' = IF active = k THEN None ELSE active
  /\ UNCHANGED <<runs, log, summary, job, modelCalls, dialogue, lost>>

\* append_user_message and the other messages of the confirmation dialogue,
\* of either role.
DialogueMessage ==
  /\ dialogue < MaxDialogue
  /\ dialogue' = dialogue + 1
  /\ log' = Append(log, [turn |-> None, role |-> "user", task |-> None])
  /\ UNCHANGED <<active, closed, runs, summary, job, modelCalls, lost>>

HandlerStep(h) ==
  \/ ReadMessages(h) \/ ReadSummary(h) \/ Compress(h) \/ KeepSummary(h)
  \/ StoreSummary(h) \/ CompleteRun(h)

OtherRequest ==
  /\ \E p \in Processes : Free(p)
  /\ \/ \E k \in Tasks : SelectTask(k) \/ CloseTask(k)
     \/ DialogueMessage

Next ==
  \/ \E h \in Handlers : \/ \E p \in Processes, t \in Turns : StartTurn(h, p, t)
                         \/ HandlerStep(h) \/ LoseTurn(h)
  \/ OtherRequest

Spec == Init /\ [][Next]_vars

\* A handler runs on: the loop serves its coroutines in turn and the client
\* of the model has a timeout.
Fairness == \A h \in Handlers : WF_vars(HandlerStep(h))
FairSpec == Spec /\ Fairness

-----------------------------------------------------------------------------
(* Properties                                                               *)

TypeOK ==
  /\ closed \subseteq Tasks /\ active \in (Tasks \ closed) \cup {None}
  /\ runs \in [Turns -> Run] /\ log \in Seq(Message)
  /\ summary \in [Scopes -> Summary] /\ job \in [Handlers -> Job]
  /\ modelCalls \in [Turns -> Nat]
  /\ dialogue \in 0..MaxDialogue /\ lost \in 0..MaxLost

\* complete_run and the retries of create_or_get_run: a run that ended has
\* its question and its answer in the log once, side by side, in the task it
\* was started for; a run that has not ended has left nothing there.
TurnRecorded == \A t \in Turns :
  IF runs[t].status = "ended"
  THEN \E i \in 1..Len(log) :
         /\ i < Len(log) /\ log[i] = Question(t) /\ log[i + 1] = Answer(t)
         /\ \A j \in 1..Len(log) : log[j].turn = t => j \in {i, i + 1}
  ELSE \A j \in 1..Len(log) : log[j].turn # t

\* However often a client sends a turn, the model is asked once at most, and
\* no run ends without having asked it.
OneModelTurn == \A t \in Turns :
  modelCalls[t] <= 1 /\ (runs[t].status = "ended" => modelCalls[t] = 1)

Condenses(messages, s, sum) ==
  /\ sum.end <= Len(messages)
  /\ sum.covers = Rows(messages, s, sum.end)
  /\ sum.count = Cardinality(sum.covers)

\* A summary condenses exactly the rows of its own scope up to its end: no
\* hole, nothing of another task, nothing counted twice, whatever other
\* turns stored between the reads of the context builder.
SummaryIsPrefix == \A s \in Scopes : Condenses(log, s, summary[s])

\* The validator's source_range_regressed: an active summary is never
\* replaced by one that ends earlier.
SummaryAdvances == \A s \in Scopes : summary'[s].end >= summary[s].end
SummaryGrows    == [][SummaryAdvances]_vars

\* A run does not stay "running", unless a turn was lost and this run is
\* without a handler: the loss of one turn does not hold up the others.
RunsEnd == \A t \in Turns :
  runs[t].status = "running" ~>
    runs[t].status = "ended" \/ (lost > 0 /\ \A h \in Handlers : job[h].turn # t)
=============================================================================
