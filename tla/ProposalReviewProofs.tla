------------------------ MODULE ProposalReviewProofs ------------------------
(***************************************************************************)
(* Safety of assistant turns, and of the review of the actions they        *)
(* propose, for any number of processes, handlers, turns, tasks, commands, *)
(* any context budget and any window.                                      *)
(*                                                                         *)
(* First the turns alone: the inductive invariant adds to the properties   *)
(* of RuntimeTurn who works for a run (TurnInv) and what a handler has     *)
(* read of the log and of the summary (ReadInv).                           *)
(*                                                                         *)
(* Then the composition: it keeps what is proved of the turns, and a       *)
(* proposal is executed as it was shown and frozen.  Its inductive         *)
(* invariant says that a run proposes one command at most and its output   *)
(* stays (ShownInv), that a turn has one row (RowInv), that a request in   *)
(* progress holds the proposal its row was frozen with (FlowInv), and what *)
(* the snapshot of a row was taken from (SnapshotInv).                     *)
(***************************************************************************)
EXTENDS ProposalReview, FiniteSetTheorems, TLAPS

\* A handler works for a running turn, alone, and asks the model once.
TurnInv ==
  /\ \A h \in Handlers : job[h].at # "idle" =>
       /\ job[h].turn \in Turns /\ job[h].process \in Processes
       /\ runs[job[h].turn].status = "running"
       /\ modelCalls[job[h].turn] = IF job[h].at = "model" THEN 1 ELSE 0
  /\ \A g, h \in Handlers :
       job[g].at # "idle" /\ job[h].at # "idle" /\ job[g].turn = job[h].turn => g = h
  /\ \A t \in Turns : runs[t].status = "absent" => modelCalls[t] = 0

\* What a handler has read is still true of the log.
ReadInv == \A h \in Handlers :
  /\ job[h].seen <= Len(log)
  /\ job[h].at \in {"compress", "store"} => Condenses(log, ScopeOf(h), job[h].prev)
  /\ job[h].at = "store" => Condenses(log, ScopeOf(h), job[h].next)

IInv == TypeOK /\ TurnInv /\ OneModelTurn /\ TurnRecorded /\ SummaryIsPrefix /\ ReadInv

-----------------------------------------------------------------------------
(* The log only grows.                                                      *)

Extends(l, m) == Len(l) <= Len(m) /\ \A i \in 1..Len(l) : m[i] = l[i]

LEMMA CondensesLonger ==
  ASSUME NEW l \in Seq(Message), NEW m \in Seq(Message), Extends(l, m),
         NEW s, NEW sum \in Summary, Condenses(l, s, sum)
  PROVE  Condenses(m, s, sum)
<1>1. Len(l) \in Nat /\ Len(m) \in Nat /\ sum.end \in Nat
  BY DEF Summary
<1>2. \A i \in 1..sum.end : m[i] = l[i]
  BY <1>1 DEF Extends, Condenses
<1>3. Rows(m, s, sum.end) = Rows(l, s, sum.end)
  BY <1>2 DEF Rows
<1> QED
  BY <1>1, <1>3 DEF Extends, Condenses

LEMMA LogGrows == TypeOK /\ [Next]_vars => Extends(log, log')
<1> SUFFICES ASSUME TypeOK, [Next]_vars PROVE Extends(log, log')
  OBVIOUS
<1> USE DEF TypeOK, Extends
<1>1. CASE UNCHANGED log
  BY <1>1
<1>2. CASE \E a, b : log' = Append(Append(log, a), b)
  <2> PICK a, b : log' = Append(Append(log, a), b)
    BY <1>2
  <2> QED OBVIOUS
<1>3. CASE \E a : log' = Append(log, a)
  <2> PICK a : log' = Append(log, a)
    BY <1>3
  <2> QED OBVIOUS
<1>4. UNCHANGED log \/ (\E a, b : log' = Append(Append(log, a), b))
        \/ (\E a : log' = Append(log, a))
  BY DEF Next, vars, StartTurn, HandlerStep, ReadMessages, ReadSummary, Compress,
         KeepSummary, StoreSummary, CompleteRun, LoseTurn, OtherRequest, SelectTask,
         CloseTask, DialogueMessage
<1> QED
  BY <1>1, <1>2, <1>3, <1>4

-----------------------------------------------------------------------------
(* Types.                                                                   *)

LEMMA InitTypeOK == Init => TypeOK
  BY RuntimeAssumption
  DEF Init, TypeOK, Scopes, Run, Message, Summary, Nothing, Job, Sync, Idle, At

LEMMA FiniteRange ==
  ASSUME NEW n \in Nat, NEW S, S \subseteq 1..n
  PROVE  IsFiniteSet(S) /\ Cardinality(S) \in Nat
<1>1. IsFiniteSet(1..n)
  BY FS_Interval
<1>2. IsFiniteSet(S)
  BY <1>1, FS_Subset
<1> QED
  BY <1>2, FS_CardinalityType

LEMMA NextTypeOK == TypeOK /\ TurnInv /\ [Next]_vars => TypeOK'
<1> SUFFICES ASSUME TypeOK, TurnInv, [Next]_vars PROVE TypeOK'
  OBVIOUS
<1> USE RuntimeAssumption DEF TypeOK
<1>2. ASSUME NEW h \in Handlers, NEW p \in Processes, NEW t \in Turns, StartTurn(h, p, t)
      PROVE  TypeOK'
  <2>1. PICK asked \in Scopes :
          runs' = [runs EXCEPT ![t] = [status |-> "running",
                                       task |-> IF asked = None THEN active ELSE asked]]
    BY <1>2 DEF StartTurn
  <2>2. runs' \in [Turns -> Run]
    BY <2>1 DEF Scopes, Run
  <2>3. job' \in [Handlers -> Job]
    BY <1>2 DEF StartTurn, Job, Sync, At, Nothing, Summary
  <2> QED
    BY <1>2, <2>2, <2>3 DEF StartTurn
<1>3. ASSUME NEW h \in Handlers, HandlerStep(h) PROVE TypeOK'
  <2>0. /\ job[h] \in Job /\ job[h].prev \in Summary /\ job[h].next \in Summary
        /\ Nothing \in Summary
    BY DEF Job, Nothing, Summary
  <2>a. ASSUME job[h].at # "idle" PROVE ScopeOf(h) \in Scopes /\ job[h].turn \in Turns
    BY <2>a DEF TurnInv, ScopeOf, Run
  <2>1. CASE ReadMessages(h)
    <3>1. Len(log) \in Nat
      OBVIOUS
    <3>2. job' \in [Handlers -> Job]
      BY <2>0, <2>1, <3>1 DEF ReadMessages, Job, Sync
    <3> QED BY <2>1, <3>2 DEF ReadMessages
  <2>2. CASE ReadSummary(h)
    <3>1. summary[ScopeOf(h)] \in Summary
      BY <2>2, <2>a DEF ReadSummary
    <3>2. job' \in [Handlers -> Job]
      BY <2>0, <2>2, <3>1 DEF ReadSummary, Job, Sync
    <3> QED BY <2>2, <3>2 DEF ReadSummary
  <2>3. CASE Compress(h)
    <3> DEFINE m == Rows(log, ScopeOf(h), job[h].seen)
               after == {i \in Rows(log, ScopeOf(h), Len(log)) : i > job[h].prev.end}
    <3>1. PICK recent \in Recent(m) : \E last \in Prefix(after, recent) :
            job' = [job EXCEPT ![h].at = "store", ![h].next =
                     [covers |-> job[h].prev.covers \cup Prefix(after, recent),
                      end |-> last,
                      count |-> job[h].prev.count + Cardinality(Prefix(after, recent))]]
      BY <2>3 DEF Compress
    <3>2. Prefix(after, recent) \subseteq 1..Len(log)
      BY DEF Prefix, Rows
    <3>3. Cardinality(Prefix(after, recent)) \in Nat
      <4>1. Len(log) \in Nat
        OBVIOUS
      <4> QED BY <3>2, <4>1, FiniteRange
    <3> HIDE DEF after
    <3>4. PICK last \in Prefix(after, recent) :
            job' = [job EXCEPT ![h].at = "store", ![h].next =
                     [covers |-> job[h].prev.covers \cup Prefix(after, recent),
                      end |-> last,
                      count |-> job[h].prev.count + Cardinality(Prefix(after, recent))]]
      BY <3>1
    <3> DEFINE next == [covers |-> job[h].prev.covers \cup Prefix(after, recent),
                        end |-> last,
                        count |-> job[h].prev.count + Cardinality(Prefix(after, recent))]
    <3>6. next \in Summary
      BY <2>0, <3>2, <3>3 DEF Summary
    <3> HIDE DEF next
    <3>7. job' = [job EXCEPT ![h].at = "store", ![h].next = next]
      BY <3>4 DEF next
    <3>5. job' \in [Handlers -> Job]
      BY <2>0, <3>6, <3>7 DEF Job, Sync
    <3> QED
      BY <2>3, <3>5 DEF Compress
  <2>4. CASE KeepSummary(h)
    BY <2>4 DEF KeepSummary, AskModel, At, Job, Nothing, Summary, TurnInv
  <2>5. CASE StoreSummary(h)
    <3>1. summary' \in [Scopes -> Summary]
      BY <2>0, <2>5, <2>a DEF StoreSummary
    <3>2. job' \in [Handlers -> Job]
      BY <2>0, <2>5 DEF StoreSummary, AskModel, At, Job
    <3>3. modelCalls' \in [Turns -> Nat]
      BY <2>5, <2>a DEF StoreSummary, AskModel
    <3> QED BY <2>5, <3>1, <3>2, <3>3 DEF StoreSummary
  <2>6. CASE CompleteRun(h)
    <3>1. job' \in [Handlers -> Job]
      BY <2>0, <2>6 DEF CompleteRun, Idle, At, Job
    <3>2. Question(job[h].turn) \in Message /\ Answer(job[h].turn) \in Message
      BY <2>6, <2>a DEF CompleteRun, Question, Answer, Message, ScopeOf
    <3>3. log' \in Seq(Message)
      <4>1. runs[job[h].turn].status = "running"
        BY <2>6 DEF CompleteRun, TurnInv
      <4>2. log' = Append(Append(log, Question(job[h].turn)), Answer(job[h].turn))
        BY <2>6, <4>1 DEF CompleteRun
      <4> QED BY <3>2, <4>2
    <3>4. runs' \in [Turns -> Run]
      <4>1. runs[job[h].turn].status = "running" /\ job[h].turn \in Turns
        BY <2>6, <2>a DEF CompleteRun, TurnInv
      <4>2. runs' = [runs EXCEPT ![job[h].turn].status = "ended"]
        BY <2>6, <4>1 DEF CompleteRun
      <4>3. runs[job[h].turn] \in Run
        BY <4>1
      <4> QED BY <4>2, <4>3 DEF Run
    <3> QED BY <2>6, <3>1, <3>3, <3>4 DEF CompleteRun
  <2> QED
    BY <1>3, <2>1, <2>2, <2>3, <2>4, <2>5, <2>6 DEF HandlerStep
<1>4. ASSUME NEW h \in Handlers, LoseTurn(h) PROVE TypeOK'
  BY <1>4 DEF LoseTurn, Job, Idle, At, Nothing, Summary
<1>5. ASSUME NEW k \in Tasks, SelectTask(k) PROVE TypeOK'
  BY <1>5 DEF SelectTask
<1>6. ASSUME NEW k \in Tasks, CloseTask(k) PROVE TypeOK'
  BY <1>6 DEF CloseTask
<1>7. CASE DialogueMessage
  BY <1>7 DEF DialogueMessage, Message, Scopes
<1>8. CASE UNCHANGED vars
  BY <1>8 DEF vars
<1> QED
  BY <1>2, <1>3, <1>4, <1>5, <1>6, <1>7, <1>8 DEF Next, OtherRequest

-----------------------------------------------------------------------------
(* One handler and one model call for a run.                                *)

\* A step that keeps the turn of handler h, its process and its side of the
\* model call.
Moves(h) ==
  /\ job[h].at \in Sync /\ job'[h].at \in Sync
  /\ job'[h].turn = job[h].turn /\ job'[h].process = job[h].process
  /\ \A g \in Handlers \ {h} : job'[g] = job[g]
  /\ UNCHANGED <<active, closed, runs, log, summary, modelCalls>>

LEMMA ReadsMove ==
  ASSUME TypeOK, NEW h \in Handlers, ReadMessages(h) \/ ReadSummary(h) \/ Compress(h)
  PROVE  Moves(h)
<1>1. CASE ReadMessages(h)
  BY <1>1 DEF ReadMessages, Moves, TypeOK, Sync, Job
<1>2. CASE ReadSummary(h)
  BY <1>2 DEF ReadSummary, Moves, TypeOK, Sync, Job
<1>3. CASE Compress(h)
  <2>1. PICK next : job' = [job EXCEPT ![h].at = "store", ![h].next = next]
    BY <1>3 DEF Compress
  <2> QED
    BY <1>3, <2>1 DEF Compress, Moves, TypeOK, Sync, Job
<1> QED
  BY <1>1, <1>2, <1>3

LEMMA NextTurnInv ==
  TypeOK /\ TurnInv /\ OneModelTurn /\ [Next]_vars => TurnInv' /\ OneModelTurn'
<1> SUFFICES ASSUME TypeOK, TurnInv, OneModelTurn, [Next]_vars
             PROVE  TurnInv' /\ OneModelTurn'
  OBVIOUS
<1> USE RuntimeAssumption DEF TypeOK, TurnInv, OneModelTurn
<1>1. ASSUME NEW h \in Handlers, NEW p \in Processes, NEW t \in Turns, StartTurn(h, p, t)
      PROVE  TurnInv' /\ OneModelTurn'
  <2>1. PICK task \in Scopes : runs' = [runs EXCEPT ![t] = [status |-> "running", task |-> task]]
    BY <1>1 DEF StartTurn, Scopes
  <2>2. /\ job' = [job EXCEPT ![h] = At("messages", p, t)]
        /\ modelCalls' = modelCalls /\ runs[t].status = "absent"
    BY <1>1 DEF StartTurn
  <2>3. \A g \in Handlers : job[g].at # "idle" => job[g].turn # t
    BY <2>2
  <2> QED
    BY <2>1, <2>2, <2>3 DEF At
<1>2. ASSUME NEW h \in Handlers, HandlerStep(h) PROVE TurnInv' /\ OneModelTurn'
  <2>1. CASE Moves(h)
    <3>1. \A g \in Handlers :
            /\ job'[g].turn = job[g].turn /\ job'[g].process = job[g].process
            /\ job'[g].at = "idle" <=> job[g].at = "idle"
            /\ job'[g].at = "model" <=> job[g].at = "model"
      BY <2>1 DEF Moves, Sync
    <3>2. runs' = runs /\ modelCalls' = modelCalls
      BY <2>1 DEF Moves
    <3>3. \A g \in Handlers : job'[g].at # "idle" =>
            /\ job'[g].turn \in Turns /\ job'[g].process \in Processes
            /\ runs'[job'[g].turn].status = "running"
            /\ modelCalls'[job'[g].turn] = (IF job'[g].at = "model" THEN 1 ELSE 0)
      BY <3>1, <3>2
    <3>4. \A f, g \in Handlers :
            job'[f].at # "idle" /\ job'[g].at # "idle" /\ job'[f].turn = job'[g].turn => f = g
      BY <3>1
    <3>5. TurnInv'
      BY <3>2, <3>3, <3>4
    <3>6. OneModelTurn'
      BY <3>2
    <3> QED
      BY <3>5, <3>6
  <2>2. CASE KeepSummary(h) \/ StoreSummary(h)
    <3>1. /\ job[h].at \in Sync /\ runs' = runs
          /\ job' = [job EXCEPT ![h] = At("model", job[h].process, job[h].turn)]
          /\ modelCalls' = [modelCalls EXCEPT ![job[h].turn] = @ + 1]
      BY <2>2 DEF KeepSummary, StoreSummary, AskModel, Sync
    <3>2. modelCalls[job[h].turn] = 0 /\ job[h].turn \in Turns
      BY <3>1 DEF Sync
    <3>3. modelCalls'[job[h].turn] = 1
      BY <3>1, <3>2
    <3>4. \A t \in Turns \ {job[h].turn} : modelCalls'[t] = modelCalls[t]
      BY <3>1
    <3> QED
      BY <3>1, <3>2, <3>3, <3>4 DEF At, Sync
  <2>3. CASE CompleteRun(h)
    <3>1. /\ job[h].at = "model" /\ job' = [job EXCEPT ![h] = Idle]
          /\ modelCalls' = modelCalls
          /\ runs' = [runs EXCEPT ![job[h].turn].status = "ended"]
      BY <2>3 DEF CompleteRun
    <3>2. modelCalls[job[h].turn] = 1 /\ job[h].turn \in Turns
      BY <3>1
    <3>3. \A g \in Handlers \ {h} : job[g].at # "idle" => job[g].turn # job[h].turn
      BY <3>1
    <3> QED
      BY <3>1, <3>2, <3>3 DEF Idle, At, Run
  <2> QED
    BY <1>2, <2>1, <2>2, <2>3, ReadsMove DEF HandlerStep
<1>3. ASSUME NEW h \in Handlers, LoseTurn(h) PROVE TurnInv' /\ OneModelTurn'
  BY <1>3 DEF LoseTurn, Idle, At
<1>4. ASSUME UNCHANGED <<runs, job, modelCalls>> PROVE TurnInv' /\ OneModelTurn'
  BY <1>4
<1> QED
  BY <1>1, <1>2, <1>3, <1>4
  DEF Next, OtherRequest, SelectTask, CloseTask, DialogueMessage, vars

-----------------------------------------------------------------------------
(* The messages of a turn.                                                  *)

\* What TurnRecorded says of one turn.
Recorded(t) ==
  IF runs[t].status = "ended"
  THEN \E i \in 1..Len(log) :
         /\ i < Len(log) /\ log[i] = Question(t) /\ log[i + 1] = Answer(t)
         /\ \A j \in 1..Len(log) : log[j].turn = t => j \in {i, i + 1}
  ELSE \A j \in 1..Len(log) : log[j].turn # t

\* Messages that are not of turn t change nothing for it.
LEMMA OthersMessages ==
  ASSUME TypeOK, TypeOK', Extends(log, log'), NEW t \in Turns, Recorded(t),
         runs'[t].status = "ended" <=> runs[t].status = "ended",
         runs[t].status = "ended" => runs'[t].task = runs[t].task,
         \A j \in 1..Len(log') : j > Len(log) => log'[j].turn # t
  PROVE  Recorded(t)'
<1>1. Len(log) \in Nat /\ Len(log') \in Nat /\ Len(log) <= Len(log')
  BY DEF TypeOK, Extends
<1>2. \A j \in 1..Len(log') : log'[j].turn = t => j \in 1..Len(log) /\ log'[j] = log[j]
  BY <1>1 DEF Extends
<1>3. CASE runs[t].status = "ended"
  <2>1. PICK i \in 1..Len(log) :
          /\ i < Len(log) /\ log[i] = Question(t) /\ log[i + 1] = Answer(t)
          /\ \A j \in 1..Len(log) : log[j].turn = t => j \in {i, i + 1}
    BY <1>3 DEF Recorded
  <2>2. log'[i] = log[i] /\ log'[i + 1] = log[i + 1]
    BY <1>1, <2>1 DEF Extends
  <2>3. Question(t)' = Question(t) /\ Answer(t)' = Answer(t)
    BY <1>3 DEF Question, Answer
  <2>4. \A j \in 1..Len(log') : log'[j].turn = t => j \in {i, i + 1}
    BY <1>2, <2>1
  <2>5. i \in 1..Len(log') /\ i < Len(log')
    BY <1>1, <2>1
  <2> QED
    BY <1>3, <2>1, <2>2, <2>3, <2>4, <2>5 DEF Recorded
<1>4. CASE runs[t].status # "ended"
  BY <1>2, <1>4 DEF Recorded
<1> QED
  BY <1>3, <1>4

LEMMA NextTurnRecorded ==
  TypeOK /\ TypeOK' /\ TurnInv /\ TurnRecorded /\ [Next]_vars => TurnRecorded'
<1> SUFFICES ASSUME TypeOK, TypeOK', TurnInv, TurnRecorded, [Next]_vars, NEW t \in Turns
             PROVE  Recorded(t)'
  BY DEF TurnRecorded, Recorded
<1>0. Recorded(t) /\ Extends(log, log') /\ Len(log) \in Nat
  BY LogGrows DEF TurnRecorded, Recorded, TypeOK
<1>1. CASE UNCHANGED log /\ runs'[t] = runs[t]
  BY <1>0, <1>1, OthersMessages
<1>2. ASSUME NEW h \in Handlers, NEW p \in Processes, NEW u \in Turns, StartTurn(h, p, u)
      PROVE  Recorded(t)'
  <2>1. PICK task : runs' = [runs EXCEPT ![u] = [status |-> "running", task |-> task]]
    BY <1>2 DEF StartTurn
  <2>2. log' = log /\ runs[u].status = "absent"
    BY <1>2 DEF StartTurn
  <2>3. runs'[t].status = "ended" <=> runs[t].status = "ended"
    BY <2>1, <2>2 DEF TypeOK
  <2>4. runs[t].status = "ended" => runs'[t].task = runs[t].task
    BY <2>1, <2>2 DEF TypeOK
  <2> QED
    BY <1>0, <2>2, <2>3, <2>4, OthersMessages
<1>3. ASSUME NEW h \in Handlers, CompleteRun(h) PROVE Recorded(t)'
  <2> DEFINE u == job[h].turn
  <2>1. u \in Turns /\ runs[u].status = "running"
    BY <1>3 DEF CompleteRun, TurnInv
  <2>2. /\ runs' = [runs EXCEPT ![u].status = "ended"]
        /\ log' = Append(Append(log, Question(u)), Answer(u))
    BY <1>3, <2>1 DEF CompleteRun
  <2>3. /\ Len(log') = Len(log) + 2
        /\ log'[Len(log) + 1] = Question(u) /\ log'[Len(log) + 2] = Answer(u)
    BY <2>2 DEF TypeOK
  <2>4. CASE t = u
    <3>1. \A j \in 1..Len(log) : log'[j].turn # t
      BY <1>0, <2>1, <2>4 DEF Recorded, Extends
    <3>2. Question(t)' = Question(u) /\ Answer(t)' = Answer(u) /\ runs'[t].status = "ended"
      BY <2>1, <2>2, <2>4 DEF Question, Answer, TypeOK, Run
    <3>3. \A j \in 1..Len(log') : log'[j].turn = t => j \in {Len(log) + 1, Len(log) + 2}
      BY <1>0, <2>3, <3>1
    <3> HIDE DEF u
    <3> QED
      BY <1>0, <2>3, <3>2, <3>3 DEF Recorded
  <2>5. CASE t # u
    <3>1. runs'[t] = runs[t]
      BY <2>2, <2>5 DEF TypeOK
    <3>2. \A j \in 1..Len(log') : j > Len(log) => log'[j].turn = u
      BY <1>0, <2>3 DEF Question, Answer
    <3> QED
      BY <1>0, <2>5, <3>1, <3>2, OthersMessages
  <2> QED
    BY <2>4, <2>5
<1>4. CASE DialogueMessage
  <2>1. \A j \in 1..Len(log') : j > Len(log) => log'[j].turn = None
    BY <1>0, <1>4 DEF DialogueMessage, TypeOK
  <2>2. runs'[t] = runs[t] /\ None # t
    BY <1>4, RuntimeAssumption DEF DialogueMessage
  <2> QED
    BY <1>0, <2>1, <2>2, OthersMessages
<1> QED
  BY <1>1, <1>2, <1>3, <1>4
  DEF Next, HandlerStep, ReadMessages, ReadSummary, Compress, KeepSummary, StoreSummary,
      LoseTurn, OtherRequest, SelectTask, CloseTask, vars

-----------------------------------------------------------------------------
(* Summaries.                                                               *)

\* What is condensed by a candidate the validator accepts: the rows before
\* the first recent one follow the previous summary without a hole.
LEMMA CandidateCondenses ==
  ASSUME TypeOK, NEW s \in Scopes, NEW n \in 0..Len(log), NEW prev \in Summary,
         Condenses(log, s, prev), NEW recent,
         NEW last \in Prefix({i \in Rows(log, s, Len(log)) : i > prev.end}, recent),
         \A i \in Prefix({j \in Rows(log, s, Len(log)) : j > prev.end}, recent) : i <= last,
         NEW next, next.end = last,
         next.covers = prev.covers \cup
                         Prefix({i \in Rows(log, s, Len(log)) : i > prev.end}, recent),
         Valid(next, prev, Rows(log, s, n))
  PROVE  Condenses(log, s, next)
<1> DEFINE after  == {i \in Rows(log, s, Len(log)) : i > prev.end}
           prefix == Prefix(after, recent)
<1>0. Len(log) \in Nat /\ prev.end \in Nat
  BY DEF TypeOK, Summary
<1>1. /\ last \in 1..Len(log) /\ last > prev.end
      /\ \A j \in recent \cap after : last < j
  BY <1>0 DEF Prefix, Rows
<1>2. ASSUME NEW i, i \in Rows(log, s, last) PROVE i \in next.covers
  <2>1. CASE i <= prev.end
    BY <1>0, <1>1, <1>2, <2>1 DEF Rows, Condenses
  <2>2. CASE i > prev.end
    <3>1. i \in after /\ i <= last
      BY <1>0, <1>1, <1>2, <2>2 DEF Rows
    <3>2. \A j \in recent \cap after : i < j
      BY <1>0, <1>1, <3>1 DEF Rows
    <3> QED
      BY <3>1, <3>2 DEF Prefix
  <2> QED
    BY <1>0, <1>2, <2>1, <2>2 DEF Rows
<1>3. ASSUME NEW i, i \in next.covers PROVE i \in Rows(log, s, last)
  <2>1. CASE i \in prev.covers
    BY <1>0, <1>1, <2>1 DEF Rows, Condenses
  <2>2. CASE i \in prefix
    <3>1. i \in after /\ i <= last
      BY <2>2 DEF Prefix
    <3> QED
      BY <1>0, <1>1, <3>1 DEF Rows
  <2> QED
    BY <1>3, <2>1, <2>2
<1>4. next.covers = Rows(log, s, last)
  BY <1>2, <1>3
<1>5. {i \in Rows(log, s, n) : i <= last} = Rows(log, s, last)
  <2>1. last \in Rows(log, s, n)
    BY DEF Valid
  <2> QED
    BY <1>0, <1>1, <2>1 DEF Rows
<1>6. next.count = Cardinality(Rows(log, s, last))
  <2>1. {i \in Rows(log, s, n) : i <= next.end} = Rows(log, s, last)
    BY <1>5
  <2> QED
    BY <2>1 DEF Valid
<1>7. next.end <= Len(log) /\ Rows(log, s, next.end) = Rows(log, s, last)
  BY <1>0, <1>1
<1> QED
  BY <1>4, <1>6, <1>7 DEF Condenses

LEMMA NextReadInv ==
  TypeOK /\ TypeOK' /\ TurnInv /\ TurnInv' /\ SummaryIsPrefix /\ ReadInv /\ [Next]_vars
    => SummaryIsPrefix' /\ ReadInv'
<1> SUFFICES ASSUME TypeOK, TypeOK', TurnInv, TurnInv', SummaryIsPrefix, ReadInv, [Next]_vars
             PROVE  SummaryIsPrefix' /\ ReadInv'
  OBVIOUS
<1>0. /\ Extends(log, log') /\ log \in Seq(Message) /\ log' \in Seq(Message)
      /\ Len(log) \in Nat /\ Len(log') \in Nat /\ Len(log) <= Len(log')
  BY LogGrows DEF TypeOK, Extends
<1>1. \A s, sum : sum \in Summary /\ Condenses(log, s, sum) => Condenses(log', s, sum)
  BY <1>0, CondensesLonger
<1>2. \A h \in Handlers : /\ job[h].prev \in Summary /\ job[h].next \in Summary
                          /\ job'[h].prev \in Summary /\ job'[h].next \in Summary
                          /\ job[h].seen \in Nat /\ job'[h].seen \in Nat
  BY DEF TypeOK, Job
\* A handler that goes on working keeps the scope it works in.
<1>3. \A h \in Handlers : job[h].at # "idle" /\ job'[h].at # "idle"
                            /\ job'[h].turn = job[h].turn => ScopeOf(h)' = ScopeOf(h)
  <2>1. \A t \in Turns : runs[t].status = "running" => runs'[t].task = runs[t].task
    <3>1. ASSUME NEW h \in Handlers, NEW p \in Processes, NEW u \in Turns, StartTurn(h, p, u)
          PROVE  \A t \in Turns : runs[t].status = "running" => runs'[t].task = runs[t].task
      <4>1. PICK task : runs' = [runs EXCEPT ![u] = [status |-> "running", task |-> task]]
        BY <3>1 DEF StartTurn
      <4>2. runs[u].status = "absent"
        BY <3>1 DEF StartTurn
      <4> QED
        BY <4>1, <4>2 DEF TypeOK
    <3>2. ASSUME NEW h \in Handlers, CompleteRun(h)
          PROVE  \A t \in Turns : runs[t].status = "running" => runs'[t].task = runs[t].task
      <4>1. job[h].turn \in Turns /\ runs' = [runs EXCEPT ![job[h].turn].status = "ended"]
        BY <3>2 DEF CompleteRun, TurnInv
      <4> QED
        BY <4>1 DEF TypeOK, Run
    <3>3. ASSUME UNCHANGED runs
          PROVE  \A t \in Turns : runs[t].status = "running" => runs'[t].task = runs[t].task
      BY <3>3
    <3> QED
      BY <3>1, <3>2, <3>3
      DEF Next, HandlerStep, ReadMessages, ReadSummary, Compress, KeepSummary,
          StoreSummary, LoseTurn, OtherRequest, SelectTask, CloseTask, DialogueMessage, vars
  <2> QED
    BY <2>1 DEF ScopeOf, TurnInv
\* A handler untouched by the step.
<1>4. ASSUME NEW h \in Handlers, job'[h] = job[h]
      PROVE  /\ job'[h].seen <= Len(log')
             /\ job'[h].at \in {"compress", "store"} => Condenses(log', ScopeOf(h)', job'[h].prev)
             /\ job'[h].at = "store" => Condenses(log', ScopeOf(h)', job'[h].next)
  <2>1. job'[h].seen <= Len(log')
    BY <1>0, <1>2, <1>4 DEF ReadInv
  <2>2. job[h].at \in {"compress", "store"} => ScopeOf(h)' = ScopeOf(h)
    BY <1>3, <1>4
  <2> QED
    BY <1>1, <1>2, <1>4, <2>1, <2>2 DEF ReadInv
\* A handler back at the model, or new, or gone has read nothing it keeps.
<1>5. ASSUME NEW h \in Handlers, NEW where \in {"idle", "messages", "model"}, NEW p, NEW t,
             job'[h] = At(where, p, t)
      PROVE  /\ job'[h].seen <= Len(log')
             /\ job'[h].at \notin {"compress", "store"}
  BY <1>0, <1>5 DEF At
<1>6. SummaryIsPrefix'
  <2>1. CASE UNCHANGED summary
    BY <1>1, <2>1 DEF SummaryIsPrefix, TypeOK
  <2>2. ASSUME NEW h \in Handlers, StoreSummary(h) PROVE SummaryIsPrefix'
    <3>1. summary' = [summary EXCEPT ![ScopeOf(h)] = job[h].next] /\ job[h].at = "store"
      BY <2>2 DEF StoreSummary
    <3>2. Condenses(log', ScopeOf(h), job[h].next)
      BY <1>1, <1>2, <3>1 DEF ReadInv
    <3>3. \A s \in Scopes : Condenses(log', s, summary[s])
      BY <1>1 DEF SummaryIsPrefix, TypeOK
    <3>4. \A s \in Scopes : summary'[s] = IF s = ScopeOf(h) THEN job[h].next ELSE summary[s]
      BY <3>1 DEF TypeOK
    <3> QED
      BY <3>2, <3>3, <3>4 DEF SummaryIsPrefix
  <2> QED
    BY <2>1, <2>2
    DEF Next, HandlerStep, StartTurn, ReadMessages, ReadSummary, Compress, KeepSummary,
        CompleteRun, LoseTurn, OtherRequest, SelectTask, CloseTask, DialogueMessage, vars
<1>7. ASSUME NEW h \in Handlers, NEW where \in {"idle", "messages", "model"}, NEW p, NEW t,
             job' = [job EXCEPT ![h] = At(where, p, t)]
      PROVE  ReadInv'
  <2>1. \A g \in Handlers : IF g = h THEN job'[g] = At(where, p, t) ELSE job'[g] = job[g]
    BY <1>7 DEF TypeOK
  <2> QED
    BY <1>4, <1>5, <2>1 DEF ReadInv
<1>8. ASSUME NEW h \in Handlers, ReadMessages(h) PROVE ReadInv'
  <2>1. /\ job'[h].seen = Len(log) /\ job'[h].at = "summary"
        /\ \A g \in Handlers \ {h} : job'[g] = job[g]
    BY <1>8 DEF ReadMessages, TypeOK, Job
  <2> QED
    BY <1>0, <1>4, <2>1 DEF ReadInv
<1>9. ASSUME NEW h \in Handlers, ReadSummary(h) PROVE ReadInv'
  <2>1. /\ job'[h].seen = job[h].seen /\ job'[h].at = "compress"
        /\ job[h].at = "summary" /\ job'[h].turn = job[h].turn
        /\ job'[h].prev = summary[ScopeOf(h)] /\ log' = log
        /\ \A g \in Handlers \ {h} : job'[g] = job[g]
    BY <1>9 DEF ReadSummary, TypeOK, Job
  <2>2. ScopeOf(h) \in Scopes /\ ScopeOf(h)' = ScopeOf(h)
    BY <1>3, <2>1 DEF ScopeOf, TurnInv, TypeOK, Run
  <2>3. Condenses(log', ScopeOf(h)', job'[h].prev)
    BY <2>1, <2>2 DEF SummaryIsPrefix
  <2>4. job'[h].seen <= Len(log')
    BY <2>1 DEF ReadInv
  <2> QED
    BY <1>4, <2>1, <2>3, <2>4 DEF ReadInv
<1>10. ASSUME NEW h \in Handlers, Compress(h) PROVE ReadInv'
  <2> DEFINE s      == ScopeOf(h)
             m      == Rows(log, s, job[h].seen)
             prev   == job[h].prev
             after  == {i \in Rows(log, s, Len(log)) : i > prev.end}
  <2>1. PICK recent \in Recent(m) : \E last \in Prefix(after, recent) :
          LET next == [covers |-> prev.covers \cup Prefix(after, recent), end |-> last,
                       count |-> prev.count + Cardinality(Prefix(after, recent))]
          IN /\ \A i \in Prefix(after, recent) : i <= last
             /\ Valid(next, prev, m)
             /\ job' = [job EXCEPT ![h].at = "store", ![h].next = next]
    BY <1>10 DEF Compress
  <2>2. PICK last \in Prefix(after, recent) :
          LET next == [covers |-> prev.covers \cup Prefix(after, recent), end |-> last,
                       count |-> prev.count + Cardinality(Prefix(after, recent))]
          IN /\ \A i \in Prefix(after, recent) : i <= last
             /\ Valid(next, prev, m)
             /\ job' = [job EXCEPT ![h].at = "store", ![h].next = next]
    BY <2>1
  <2> DEFINE next == [covers |-> prev.covers \cup Prefix(after, recent), end |-> last,
                      count |-> prev.count + Cardinality(Prefix(after, recent))]
  <2>3. /\ next.end = last /\ next.covers = prev.covers \cup Prefix(after, recent)
        /\ Valid(next, prev, m) /\ job' = [job EXCEPT ![h].at = "store", ![h].next = next]
    BY <2>2
  <2>4. job[h].at = "compress" /\ log' = log
    BY <1>10 DEF Compress
  <2>5. s \in Scopes /\ job[h].seen \in 0..Len(log) /\ Condenses(log, s, prev)
    BY <1>2, <2>4 DEF ReadInv, TurnInv, TypeOK, ScopeOf, Run
  <2>6. Condenses(log, s, next)
    BY <1>2, <2>2, <2>3, <2>5, CandidateCondenses
  <2> HIDE DEF next
  <2>7. /\ job'[h].seen = job[h].seen /\ job'[h].at = "store" /\ job'[h].prev = prev
        /\ job'[h].turn = job[h].turn /\ job'[h].next = next
        /\ \A g \in Handlers \ {h} : job'[g] = job[g]
    BY <2>3 DEF TypeOK, Job
  <2>8. ScopeOf(h)' = s
    BY <1>3, <2>4, <2>7
  <2> QED
    BY <1>0, <1>4, <2>4, <2>5, <2>6, <2>7, <2>8 DEF ReadInv
<1>11. ASSUME UNCHANGED job PROVE ReadInv'
  <2>1. \A h \in Handlers : job'[h] = job[h]
    BY <1>11
  <2> QED
    BY <1>4, <2>1 DEF ReadInv
<1>12. ReadInv'
  <2>1. ASSUME NEW h \in Handlers, NEW p \in Processes, NEW t \in Turns, StartTurn(h, p, t)
        PROVE  ReadInv'
    <3>1. job' = [job EXCEPT ![h] = At("messages", p, t)]
      BY <2>1 DEF StartTurn
    <3> QED
      BY <1>7, <3>1
  <2>2. ASSUME NEW h \in Handlers, KeepSummary(h) \/ StoreSummary(h) PROVE ReadInv'
    <3>1. job' = [job EXCEPT ![h] = At("model", job[h].process, job[h].turn)]
      BY <2>2 DEF KeepSummary, StoreSummary, AskModel
    <3> QED
      BY <1>7, <3>1
  <2>3. ASSUME NEW h \in Handlers, CompleteRun(h) \/ LoseTurn(h) PROVE ReadInv'
    <3>1. job' = [job EXCEPT ![h] = At("idle", None, None)]
      BY <2>3 DEF CompleteRun, LoseTurn, Idle
    <3> QED
      BY <1>7, <3>1
  <2>4. ASSUME OtherRequest \/ UNCHANGED vars PROVE ReadInv'
    BY <1>11, <2>4 DEF OtherRequest, SelectTask, CloseTask, DialogueMessage, vars
  <2> QED
    BY <1>8, <1>9, <1>10, <2>1, <2>2, <2>3, <2>4 DEF Next, HandlerStep
<1> QED
  BY <1>6, <1>12

-----------------------------------------------------------------------------
(* The theorems.                                                            *)

LEMMA InitIInv == Init => IInv
<1> SUFFICES ASSUME Init PROVE IInv
  OBVIOUS
<1>1. TypeOK
  BY InitTypeOK
<1>2. TurnInv /\ OneModelTurn /\ TurnRecorded
  BY DEF Init, TurnInv, OneModelTurn, TurnRecorded, Idle, At
<1>3. \A s : Rows(log, s, 0) = {}
  BY DEF Rows
<1>4. SummaryIsPrefix
  <2>1. /\ log = <<>> /\ \A s \in Scopes : summary[s] = Nothing
    BY DEF Init
  <2>2. \A s : Condenses(log, s, Nothing)
    BY <1>3, <2>1, FS_EmptySet DEF Condenses, Nothing
  <2> QED
    BY <2>1, <2>2 DEF SummaryIsPrefix
<1>5. ReadInv
  BY DEF Init, ReadInv, Idle, At
<1> QED
  BY <1>1, <1>2, <1>4, <1>5 DEF IInv

LEMMA NextIInv == IInv /\ [Next]_vars => IInv'
  BY NextTypeOK, NextTurnInv, NextTurnRecorded, NextReadInv DEF IInv

\* The inductive invariant of assistant turns.
THEOREM Invariance == Spec => []IInv
  BY InitIInv, NextIInv, PTL DEF Spec

\* Every reachable state is typed, and the active task of the session is one
\* that is not closed.
THEOREM TypeCorrect == Spec => []TypeOK
<1>1. IInv => TypeOK
  BY DEF IInv
<1> QED
  BY <1>1, Invariance, PTL

\* A turn is in the log with its question and its answer, or not at all, in
\* the task it was started for, whatever task is selected or closed while
\* the model works.
THEOREM TurnsRecorded == Spec => []TurnRecorded
<1>1. IInv => TurnRecorded
  BY DEF IInv
<1> QED
  BY <1>1, Invariance, PTL

\* However often clients send a turn again, the model is asked once for it.
THEOREM ModelAskedOnce == Spec => []OneModelTurn
<1>1. IInv => OneModelTurn
  BY DEF IInv
<1> QED
  BY <1>1, Invariance, PTL

\* A summary condenses the rows of its scope up to its end, no others and
\* none twice, however the builders of several processes interleave.
THEOREM SummariesArePrefixes == Spec => []SummaryIsPrefix
<1>1. IInv => SummaryIsPrefix
  BY DEF IInv
<1> QED
  BY <1>1, Invariance, PTL

-----------------------------------------------------------------------------
(* One process: the event loop orders the compressions.                     *)

\* A process is in the hands of one handler at a time.
LoopInv == \A g, h \in Handlers :
  job[g].at \in Sync /\ job[h].at \in Sync /\ job[g].process = job[h].process => g = h

\* What the handler read of the summary is still the active one.
FreshInv == \A h \in Handlers :
  /\ job[h].at \in {"compress", "store"} => job[h].prev = summary[ScopeOf(h)]
  /\ job[h].at = "store" => job[h].next.end >= job[h].prev.end

LEMMA NextLoopInv == TypeOK /\ TurnInv /\ LoopInv /\ [Next]_vars => LoopInv'
<1> SUFFICES ASSUME TypeOK, TurnInv, LoopInv, [Next]_vars PROVE LoopInv'
  OBVIOUS
<1>1. ASSUME NEW h \in Handlers, NEW p \in Processes, NEW t \in Turns, StartTurn(h, p, t)
      PROVE  LoopInv'
  BY <1>1 DEF StartTurn, Free, At, LoopInv, TypeOK
<1>2. ASSUME NEW h \in Handlers, Moves(h) PROVE LoopInv'
  <2>1. \A g \in Handlers : job'[g].process = job[g].process
                           /\ (job'[g].at \in Sync <=> job[g].at \in Sync)
    BY <1>2 DEF Moves
  <2> QED
    BY <2>1 DEF LoopInv
<1>3. ASSUME NEW h \in Handlers, NEW where \in {"idle", "model"}, NEW p, NEW t,
             job' = [job EXCEPT ![h] = At(where, p, t)]
      PROVE  LoopInv'
  BY <1>3 DEF LoopInv, At, Sync, TypeOK
<1>4. ASSUME UNCHANGED job PROVE LoopInv'
  BY <1>4 DEF LoopInv
<1>5. ASSUME NEW h \in Handlers, HandlerStep(h) \/ LoseTurn(h) PROVE LoopInv'
  BY <1>2, <1>3, <1>5, ReadsMove
  DEF HandlerStep, KeepSummary, StoreSummary, AskModel, CompleteRun, LoseTurn, Idle
<1> QED
  BY <1>1, <1>4, <1>5
  DEF Next, OtherRequest, SelectTask, CloseTask, DialogueMessage, vars

LEMMA NextFreshInv ==
  ASSUME NEW p, Processes = {p}
  PROVE  TypeOK /\ TurnInv /\ LoopInv /\ FreshInv /\ [Next]_vars => FreshInv'
<1> SUFFICES ASSUME TypeOK, TurnInv, LoopInv, FreshInv, [Next]_vars PROVE FreshInv'
  OBVIOUS
<1>1. \A g, h \in Handlers : job[g].at \in Sync /\ job[h].at \in Sync => g = h
  BY DEF LoopInv, TurnInv, Sync
<1>2. ASSUME NEW g \in Handlers, NEW q \in Processes, NEW t \in Turns, StartTurn(g, q, t)
      PROVE  FreshInv'
  <2>1. \A h \in Handlers : job[h].at \notin Sync
    BY <1>2 DEF StartTurn, Free, TurnInv, Sync
  <2>2. \A h \in Handlers : job'[h].at \notin {"compress", "store"}
    BY <1>2, <2>1 DEF StartTurn, At, Sync, TypeOK
  <2> QED
    BY <2>2 DEF FreshInv
\* A step of a handler that leaves the loop, or of the one that compresses:
\* no other handler has read the summary.
<1>3. ASSUME NEW g \in Handlers, NEW where \in {"idle", "model"}, NEW q, NEW t,
             job' = [job EXCEPT ![g] = At(where, q, t)],
             UNCHANGED <<runs, summary>> \/ \A h \in Handlers \ {g} : job[h].at \notin Sync
      PROVE  FreshInv'
  <2>1. \A h \in Handlers : IF h = g THEN job'[h].at = where ELSE job'[h] = job[h]
    BY <1>3 DEF At, TypeOK
  <2> QED
    BY <1>3, <2>1 DEF FreshInv, Sync, ScopeOf
<1>4. ASSUME NEW g \in Handlers, ReadMessages(g) \/ ReadSummary(g) \/ Compress(g)
      PROVE  FreshInv'
  <2>1. Moves(g)
    BY <1>4, ReadsMove
  <2>2. \A h \in Handlers \ {g} : job'[h].at \notin {"compress", "store"}
    BY <1>1, <2>1 DEF Moves, Sync
  <2>3. ScopeOf(g)' = ScopeOf(g) /\ summary' = summary
    BY <2>1 DEF Moves, ScopeOf
  <2>4. CASE ReadMessages(g)
    <3>1. job'[g].at = "summary"
      BY <2>4 DEF ReadMessages, TypeOK, Job
    <3> QED
      BY <2>2, <3>1 DEF FreshInv
  <2>5. CASE ReadSummary(g)
    <3>1. job'[g].at = "compress" /\ job'[g].prev = summary[ScopeOf(g)]
      BY <2>5 DEF ReadSummary, TypeOK, Job
    <3> QED
      BY <2>2, <2>3, <3>1 DEF FreshInv
  <2>6. CASE Compress(g)
    <3>1. \E next : /\ next.end >= job[g].prev.end
                   /\ job' = [job EXCEPT ![g].at = "store", ![g].next = next]
      <4> DEFINE after == {i \in Rows(log, ScopeOf(g), Len(log)) : i > job[g].prev.end}
      <4>1. PICK recent : \E last \in Prefix(after, recent) :
              job' = [job EXCEPT ![g].at = "store", ![g].next =
                       [covers |-> job[g].prev.covers \cup Prefix(after, recent), end |-> last,
                        count |-> job[g].prev.count + Cardinality(Prefix(after, recent))]]
        BY <2>6 DEF Compress
      <4>2. \A last \in Prefix(after, recent) : last >= job[g].prev.end
        BY DEF Prefix, Rows, TypeOK, Job, Summary
      <4> HIDE DEF after
      <4>3. PICK last \in Prefix(after, recent) :
              job' = [job EXCEPT ![g].at = "store", ![g].next =
                       [covers |-> job[g].prev.covers \cup Prefix(after, recent), end |-> last,
                        count |-> job[g].prev.count + Cardinality(Prefix(after, recent))]]
        BY <4>1
      <4> QED
        BY <4>2, <4>3
    <3>2. /\ job'[g].prev = job[g].prev /\ job[g].at = "compress"
          /\ job'[g].next.end >= job'[g].prev.end
      BY <2>6, <3>1 DEF Compress, TypeOK, Job
    <3> QED
      BY <2>2, <2>3, <3>2 DEF FreshInv
  <2> QED
    BY <1>4, <2>4, <2>5, <2>6
<1>5. ASSUME NEW g \in Handlers, KeepSummary(g) \/ StoreSummary(g) PROVE FreshInv'
  <2>1. job[g].at \in Sync
    BY <1>5 DEF KeepSummary, StoreSummary, Sync
  <2>2. \A h \in Handlers \ {g} : job[h].at \notin Sync
    BY <1>1, <2>1
  <2>3. job' = [job EXCEPT ![g] = At("model", job[g].process, job[g].turn)]
    BY <1>5 DEF KeepSummary, StoreSummary, AskModel
  <2> QED
    BY <1>3, <2>2, <2>3
<1>6. ASSUME NEW g \in Handlers, CompleteRun(g) PROVE FreshInv'
  <2>1. \A h \in Handlers : job[h].at \notin Sync
    BY <1>6 DEF CompleteRun, Free, TurnInv, Sync
  <2>2. job' = [job EXCEPT ![g] = At("idle", None, None)]
    BY <1>6 DEF CompleteRun, Idle
  <2> QED
    BY <1>3, <2>1, <2>2
<1>7. ASSUME NEW g \in Handlers, LoseTurn(g) PROVE FreshInv'
  <2>1. job' = [job EXCEPT ![g] = At("idle", None, None)] /\ UNCHANGED <<runs, summary>>
    BY <1>7 DEF LoseTurn, Idle
  <2> QED
    BY <1>3, <2>1
<1>8. ASSUME UNCHANGED <<job, runs, summary>> PROVE FreshInv'
  BY <1>8 DEF FreshInv, ScopeOf
<1> QED
  BY <1>2, <1>4, <1>5, <1>6, <1>7, <1>8
  DEF Next, HandlerStep, OtherRequest, SelectTask, CloseTask, DialogueMessage, vars

\* With one process the active summary of a scope never goes back to an
\* earlier end: no turn can store between what another one read and what it
\* stores.
THEOREM OneProcessAdvances ==
  ASSUME NEW p, Processes = {p}
  PROVE  Spec => SummaryGrows
<1>1. Init => LoopInv /\ FreshInv
  BY DEF Init, LoopInv, FreshInv, Idle, At, Sync
<1>2. IInv /\ LoopInv /\ FreshInv /\ [Next]_vars => LoopInv' /\ FreshInv'
  BY NextLoopInv, NextFreshInv DEF IInv
<1>3. IInv /\ FreshInv /\ [Next]_vars => [SummaryAdvances]_vars
  <2> SUFFICES ASSUME IInv, FreshInv, [Next]_vars PROVE SummaryAdvances
    OBVIOUS
  <2>1. \A s \in Scopes : summary[s].end \in Nat
    BY DEF IInv, TypeOK, Summary
  <2>2. CASE UNCHANGED summary
    BY <2>1, <2>2 DEF SummaryAdvances
  <2>3. ASSUME NEW h \in Handlers, StoreSummary(h) PROVE SummaryAdvances
    <3>1. /\ summary' = [summary EXCEPT ![ScopeOf(h)] = job[h].next]
          /\ job[h].next.end >= summary[ScopeOf(h)].end
      BY <2>3 DEF StoreSummary, FreshInv
    <3> QED
      BY <2>1, <3>1 DEF SummaryAdvances, IInv, TypeOK
  <2> QED
    BY <2>2, <2>3
    DEF Next, HandlerStep, StartTurn, ReadMessages, ReadSummary, Compress, KeepSummary,
        CompleteRun, LoseTurn, OtherRequest, SelectTask, CloseTask, DialogueMessage, vars
<1> QED
  BY <1>1, <1>2, <1>3, Invariance, PTL DEF Spec, SummaryGrows

-----------------------------------------------------------------------------
(* The composition with ProposalReview.                                      *)

OutputInv == output \in [Turns -> Output]

\* What is shown was proposed by a run that has ended.
ShownInv ==
  /\ shown \in [Turns -> Proposal \cup {NoProposal}]
  /\ \A t \in Turns : shown[t] # NoProposal => Proposes(t, shown[t].command)

\* A row belongs to the turn that proposed it, and no other row does.
RowInv ==
  /\ actions \subseteq Row
  /\ \A a \in actions : /\ a.key = RequestKey(a.turn) /\ a.task = runs[a.turn].task
                        /\ Proposes(a.turn, a.snapshot.command)
  /\ \A a, b \in actions : a.turn = b.turn => a = b

\* A click has seen what its row was frozen with.
FlowInv ==
  /\ flow \in [Turns -> [key : Nat, agreed : Proposal \cup {NoProposal}]]
  /\ \A a \in actions : /\ flow[a.turn] # NoFlow => flow[a.turn].agreed = a.snapshot
                        /\ a.agreed # NoProposal => a.agreed = a.snapshot

\* What was frozen is an image of the scope's messages, or has its content.
Frozen(a) ==
  /\ a.snapshot.command = Image =>
       /\ a.snapshot.task = a.task
       /\ \A i \in a.snapshot.sources : i \in 1..Len(log) /\ log[i].task = a.task
       /\ \E q \in 1..Len(log) : /\ log[q] = Question(a.turn)
                                 /\ q \notin a.snapshot.sources =>
                                      \A i \in a.snapshot.sources : i > q
  /\ a.snapshot.command \in {Image, "save_brief", "save_design_text"} => a.snapshot.content
SnapshotInv == \A a \in actions : Frozen(a)

ReviewInv == OutputInv /\ ShownInv /\ RowInv /\ FlowInv /\ SnapshotInv

-----------------------------------------------------------------------------
(* The turns go on as without proposals.                                    *)

LEMMA ReviewStep == [ReviewNext]_reviewVars => [Next]_vars
<1> SUFFICES ASSUME [ReviewNext]_reviewVars PROVE [Next]_vars
  OBVIOUS
<1>1. CASE UNCHANGED reviewVars
  BY <1>1 DEF reviewVars
<1>2. ASSUME NEW h \in Handlers, TurnStep(h) PROVE Next
  BY <1>2 DEF TurnStep, Next, HandlerStep
<1>3. CASE RuntimeRequest
  BY <1>3 DEF RuntimeRequest, Next
<1>4. CASE ReviewRequest
  BY <1>4 DEF ReviewRequest, ShowProposal, Click, GiveUp, ApproveClicked, ApproveResumed, Execute
<1> QED
  BY <1>1, <1>2, <1>3, <1>4 DEF ReviewNext

\* Whatever clients do with proposals, the turns behave as RuntimeTurn says:
\* every theorem about Spec holds of the composition.
THEOREM Composition == ReviewSpec => Spec
<1>1. ReviewInit => Init
  BY DEF ReviewInit
<1> QED
  BY <1>1, ReviewStep, PTL DEF ReviewSpec, Spec

-----------------------------------------------------------------------------
(* What a run proposes.                                                     *)

LEMMA OutputTyped == Outputs \subseteq Output
<1>1. NoOutput \in Output
  BY DEF NoOutput, Output, Attachments, NoAction
<1>2. ASSUME NEW raw \in ProviderReply
      PROVE  Adapt(raw).artifact \in Attachments /\ Adapt(raw).action \in BusinessAction \cup {NoAction}
  <2>1. raw.action \in ProviderAction \cup {NoProviderAction} /\ raw.artifact \in Attachments
    BY DEF ProviderReply
  <2>2. Normalized(raw.action) \in BusinessAction \cup {NoAction}
    <3>1. CASE raw.action = NoProviderAction
      BY <3>1 DEF NoProviderAction, Normalized, NoAction
    <3>2. CASE raw.action \in ProviderAction
      <4>1. raw.action.command \in ActionTypes \cup LegacyCommands /\ raw.action.content \in BOOLEAN
        BY <3>2 DEF ProviderAction
      <4> QED
        BY <4>1 DEF Normalized, BusinessAction
    <3> QED
      BY <2>1, <3>1, <3>2
  <2> QED
    BY <2>1, <2>2 DEF Adapt
<1>3. \A reply \in ConversationReplies :
        reply.artifact \in Attachments /\ reply.action \in BusinessAction \cup {NoAction}
  BY <1>2 DEF ConversationReplies
<1> QED
  BY <1>1, <1>3 DEF Outputs, Output

\* The command of an action is the model's, and of the attachments only a
\* brief can be saved.
LEMMA OneCommand ==
  ASSUME OutputInv, NEW t \in Turns, NEW c \in ActionTypes, NEW d \in ActionTypes,
         Proposes(t, c), Proposes(t, d)
  PROVE  c = d
<1>1. output[t].artifact \in Attachments
  BY DEF OutputInv, Output
<1> QED
  BY <1>1 DEF Proposes, SavedBy, Attachments

LEMMA ProposalTyped ==
  ASSUME TypeOK, OutputInv, NEW t \in Turns, NEW c \in ActionTypes, Proposes(t, c)
  PROVE  RuntimeProposal(t, c) \in Proposal
<1>1. runs[t].task \in Scopes /\ None \in Scopes
  BY DEF TypeOK, Run, Scopes
<1>2. Sources(t) \subseteq Nat
  BY DEF Sources, Rows
<1>3. (c = Image \/ output[t].action = NoAction \/ output[t].action.content) \in BOOLEAN
  BY DEF OutputInv, Output, BusinessAction, NoAction
<1>4. (IF output[t].action = NoAction THEN SavedBy(c) ELSE c)
        \in ActionTypes \cup {"brief", "product_design_text"}
  BY DEF Proposes, OutputInv, Output, Attachments, SavedBy
<1> QED
  BY <1>1, <1>2, <1>3, <1>4 DEF RuntimeProposal, Proposal

\* The newest rows of a scope: a row that is not among them is older.
LEMMA NewestRows ==
  ASSUME TypeOK, NEW t \in Turns, NEW i \in Sources(t),
         NEW q \in Rows(log, runs[t].task, Len(log)), q \notin Sources(t)
  PROVE  i > q
<1> DEFINE rows     == Rows(log, runs[t].task, Len(log))
           After(k) == {j \in rows : j > k}
<1>0. Len(log) \in Nat /\ rows \subseteq 1..Len(log)
  BY DEF TypeOK, Rows
<1>1. \A k : IsFiniteSet(After(k)) /\ Cardinality(After(k)) \in Nat
  BY <1>0, FiniteRange
<1>2. Cardinality(After(i)) < Window /\ ~(Cardinality(After(q)) < Window) /\ i \in rows
  BY DEF Sources
<1>3. CASE i <= q
  <2>1. After(q) \subseteq After(i)
    BY <1>0, <1>2, <1>3
  <2>2. Cardinality(After(q)) <= Cardinality(After(i))
    BY <1>1, <2>1, FS_Subset
  <2>3. Cardinality(After(i)) \in Nat /\ Cardinality(After(q)) \in Nat /\ Window \in Nat
    BY <1>1, ReviewAssumption
  <2> HIDE DEF After
  <2> QED
    BY <1>2, <2>2, <2>3
<1> QED
  BY <1>0, <1>2, <1>3

\* What is frozen at a click that the policy lets pass.
LEMMA ProposalFrozen ==
  ASSUME TypeOK, TurnRecorded, OutputInv, NEW t \in Turns, NEW c \in ActionTypes,
         Proposes(t, c), PolicyAllows(RuntimeProposal(t, c), runs[t].task), NEW a,
         a.turn = t, a.task = runs[t].task, a.snapshot = RuntimeProposal(t, c)
  PROVE  Frozen(a)
<1>1. a.snapshot.command = c
  BY DEF RuntimeProposal
<1>2. a.snapshot.content = (c = Image \/ output[t].action = NoAction \/ output[t].action.content)
  BY DEF RuntimeProposal
<1>3. CASE c = Image
  <2>1. a.snapshot.task = runs[t].task /\ a.snapshot.sources = Sources(t)
    BY <1>3 DEF RuntimeProposal
  <2>2. a.snapshot.content
    BY <1>2, <1>3
  <2>3. \A i \in Sources(t) : i \in 1..Len(log) /\ log[i].task = runs[t].task
    BY DEF Sources, Rows
  <2>4. PICK q \in 1..Len(log) : log[q] = Question(t)
    BY DEF TurnRecorded, Proposes
  <2>5. q \in Rows(log, runs[t].task, Len(log))
    BY <2>4 DEF Rows, Question
  <2>6. q \notin Sources(t) => \A i \in Sources(t) : i > q
    BY <2>5, NewestRows
  <2> QED
    BY <1>1, <2>1, <2>2, <2>3, <2>4, <2>6 DEF Frozen
<1>4. CASE c # Image
  <2>1. c \in {"save_brief", "save_design_text"} => output[t].action = NoAction
    BY DEF PolicyAllows, RuntimeProposal
  <2>2. c \in {"save_brief", "save_design_text"} => a.snapshot.content
    BY <1>2, <2>1
  <2> QED
    BY <1>1, <1>4, <2>2 DEF Frozen
<1> QED
  BY <1>3, <1>4

-----------------------------------------------------------------------------
(* Steps of the turns.                                                      *)

\* A run that has ended keeps its scope and its output.
LEMMA EndedStays ==
  ASSUME TypeOK, TurnInv, OutputInv, [ReviewNext]_reviewVars,
         NEW t \in Turns, runs[t].status = "ended"
  PROVE  runs'[t] = runs[t] /\ output'[t] = output[t]
<1>1. CASE UNCHANGED runs /\ UNCHANGED output
  BY <1>1
<1>2. ASSUME NEW h \in Handlers, NEW p \in Processes, NEW u \in Turns, StartTurn(h, p, u),
             UNCHANGED review
      PROVE  runs'[t] = runs[t] /\ output'[t] = output[t]
  BY <1>2 DEF StartTurn, TypeOK, review
<1>3. ASSUME NEW h \in Handlers, CompleteRun(h), StoreOutput(h)
      PROVE  runs'[t] = runs[t] /\ output'[t] = output[t]
  <2>1. runs[job[h].turn].status = "running"
    BY <1>3 DEF CompleteRun, TurnInv
  <2>2. t # job[h].turn
    BY <2>1
  <2>3. runs' = [runs EXCEPT ![job[h].turn].status = "ended"]
    BY <1>3, <2>1 DEF CompleteRun
  <2>4. PICK result : output' = [output EXCEPT ![job[h].turn] = result]
    BY <1>3, <2>1 DEF StoreOutput
  <2> QED
    BY <2>2, <2>3, <2>4 DEF TypeOK, OutputInv
<1> QED
  BY <1>1, <1>2, <1>3
  DEF ReviewNext, TurnStep, RuntimeRequest, ReviewRequest, ReadMessages, ReadSummary, Compress,
      KeepSummary, StoreSummary, LoseTurn, OtherRequest, SelectTask, CloseTask, DialogueMessage,
      ShowProposal, Click, GiveUp, ApproveClicked, ApproveResumed, Execute, reviewVars, vars,
      review

LEMMA NextOutputInv == TypeOK /\ TurnInv /\ OutputInv /\ [ReviewNext]_reviewVars => OutputInv'
<1> SUFFICES ASSUME TypeOK, TurnInv, OutputInv, [ReviewNext]_reviewVars PROVE OutputInv'
  OBVIOUS
<1>1. CASE UNCHANGED output
  BY <1>1 DEF OutputInv
<1>2. ASSUME NEW h \in Handlers, StoreOutput(h) PROVE OutputInv'
  BY <1>2, OutputTyped DEF StoreOutput, OutputInv
<1> QED
  BY <1>1, <1>2
  DEF ReviewNext, TurnStep, RuntimeRequest, ReviewRequest, ShowProposal, Click, GiveUp,
      ApproveClicked, ApproveResumed, Execute, reviewVars, review

\* What has been proposed stays proposed.
LEMMA ProposesStays ==
  ASSUME TypeOK, TurnInv, OutputInv, [ReviewNext]_reviewVars,
         NEW t \in Turns, NEW c, Proposes(t, c)
  PROVE  Proposes(t, c)' /\ runs'[t] = runs[t]
  BY EndedStays DEF Proposes

\* What a row was frozen with stays true of the log.
LEMMA FrozenStays ==
  ASSUME TypeOK, TypeOK', Extends(log, log'), NEW a, runs'[a.turn] = runs[a.turn], Frozen(a),
         NEW b, b.turn = a.turn, b.task = a.task, b.snapshot = a.snapshot
  PROVE  Frozen(b)'
<1>1. \A i \in 1..Len(log) : i \in 1..Len(log') /\ log'[i] = log[i]
  BY DEF TypeOK, Extends
<1>2. Question(b.turn)' = Question(a.turn)
  BY DEF Question
<1> QED
  BY <1>1, <1>2 DEF Frozen

\* A step that leaves cards, requests and rows alone.
LEMMA ReviewAlone ==
  ASSUME IInv, IInv', ReviewInv, [ReviewNext]_reviewVars, UNCHANGED <<shown, flow, actions>>
  PROVE  ReviewInv'
<1> USE DEF IInv, ReviewInv
<1>1. OutputInv'
  BY NextOutputInv
<1>2. ShownInv'
  BY ProposesStays DEF ShownInv
<1>3. ASSUME NEW a \in actions
      PROVE  /\ runs'[a.turn] = runs[a.turn] /\ Proposes(a.turn, a.snapshot.command)'
             /\ Frozen(a)'
  <2>1. a.turn \in Turns /\ Proposes(a.turn, a.snapshot.command)
    BY DEF RowInv, Row
  <2>2. runs'[a.turn] = runs[a.turn] /\ Proposes(a.turn, a.snapshot.command)'
    BY <2>1, ProposesStays
  <2>3. Extends(log, log')
    BY ReviewStep, LogGrows
  <2> QED
    BY <2>2, <2>3, FrozenStays DEF SnapshotInv
<1>4. RowInv'
  BY <1>3 DEF RowInv, RequestKey
<1>5. FlowInv' /\ SnapshotInv'
  BY <1>3 DEF FlowInv, SnapshotInv
<1> QED
  BY <1>1, <1>2, <1>4, <1>5

-----------------------------------------------------------------------------
(* Steps of the clients.                                                    *)

LEMMA ShowKeeps ==
  ASSUME TypeOK, ReviewInv, NEW t \in Turns, NEW c \in Commands, ShowProposal(t, c)
  PROVE  ReviewInv'
<1> USE DEF ReviewInv
<1>1. UNCHANGED <<vars, output, flow, actions>> /\ Proposes(t, c) /\ c \in ActionTypes
  BY ReviewAssumption DEF ShowProposal
<1>2. RuntimeProposal(t, c) \in Proposal /\ RuntimeProposal(t, c).command = c
  BY <1>1, ProposalTyped DEF RuntimeProposal
<1>3. shown' = [shown EXCEPT ![t] = RuntimeProposal(t, c)]
  BY DEF ShowProposal
<1>4. \A u \in Turns : \A d : Proposes(u, d)' <=> Proposes(u, d)
  BY <1>1 DEF Proposes, vars
<1>5. ShownInv'
  BY <1>1, <1>2, <1>3, <1>4 DEF ShownInv
<1>6. RowInv'
  BY <1>1 DEF RowInv, Row, RequestKey, Proposes, vars
<1>7. OutputInv' /\ FlowInv' /\ SnapshotInv'
  BY <1>1 DEF OutputInv, FlowInv, SnapshotInv, Frozen, Question, vars
<1> QED
  BY <1>5, <1>6, <1>7

\* A click finds the row of its turn frozen with what it shows, or adds it.
LEMMA ClickKeeps ==
  ASSUME TypeOK, TurnRecorded, ReviewInv, NEW t \in Turns, NEW task \in Scopes, Click(t, task)
  PROVE  ReviewInv'
<1> USE DEF ReviewInv
<1> DEFINE c   == shown[t].command
           now == RuntimeProposal(t, c)
           old == Requested(t, task, c)
           row == [turn |-> t, key |-> RequestKey(t), task |-> task, snapshot |-> now,
                   status |-> "requested", agreed |-> NoProposal]
<1>1. /\ shown[t] # NoProposal /\ shown[t] = now /\ task = runs[t].task
      /\ PolicyAllows(now, task) /\ \A a \in old : a.snapshot = now
      /\ actions' = IF old # {} THEN actions ELSE actions \cup {row}
      /\ flow' = [flow EXCEPT ![t] = [key |-> RequestKey(t), agreed |-> shown[t]]]
      /\ UNCHANGED <<vars, output, shown>>
  BY DEF Click, Matches, SameRequest
<1>2. shown[t] \in Proposal /\ c \in ActionTypes /\ Proposes(t, c)
  BY <1>1 DEF ShownInv, Proposal
<1>3. now \in Proposal /\ now.command = c
  BY <1>1, <1>2
<1>4. ASSUME NEW a \in actions, a.turn = t PROVE a \in old /\ a.snapshot = now
  <2>1. a.snapshot.command \in ActionTypes /\ Proposes(t, a.snapshot.command)
    BY <1>4 DEF RowInv, Row, Proposal
  <2>2. a.snapshot.command = c
    BY <1>2, <2>1, OneCommand
  <2>3. a \in old
    BY <1>1, <1>4, <2>2 DEF RowInv, Requested
  <2> QED
    BY <1>1, <2>3
<1>5. row \in Row /\ Frozen(row)
  <2>1. row \in Row
    BY <1>3 DEF Row, RequestKey
  <2>2. /\ row.turn = t /\ row.task = runs[t].task /\ row.snapshot = RuntimeProposal(t, c)
        /\ PolicyAllows(RuntimeProposal(t, c), runs[t].task)
    BY <1>1
  <2> HIDE DEF row, c
  <2> QED
    BY <1>2, <2>1, <2>2, ProposalFrozen
<1>6. ASSUME NEW a \in actions' PROVE a \in actions \/ (a = row /\ \A b \in actions : b.turn # t)
  BY <1>1, <1>4
<1>7. OutputInv' /\ ShownInv'
  BY <1>1 DEF OutputInv, ShownInv, Proposes, vars
<1>8. RowInv'
  <2>1. \A a \in actions' : a \in Row
    BY <1>5, <1>6 DEF RowInv
  <2>2. \A a \in actions' : /\ a.key = RequestKey(a.turn) /\ a.task = runs[a.turn].task
                           /\ Proposes(a.turn, a.snapshot.command)
    BY <1>1, <1>2, <1>3, <1>6 DEF RowInv
  <2>3. \A a, b \in actions' : a.turn = b.turn => a = b
    BY <1>6 DEF RowInv
  <2>4. runs' = runs /\ output' = output
    BY <1>1 DEF vars
  <2> QED
    BY <2>1, <2>2, <2>3, <2>4 DEF RowInv, Proposes, RequestKey
<1>9. FlowInv'
  <2>1. flow' \in [Turns -> [key : Nat, agreed : Proposal \cup {NoProposal}]]
    BY <1>1, <1>2 DEF FlowInv, RequestKey
  <2>2. flow'[t].agreed = now /\ \A u \in Turns \ {t} : flow'[u] = flow[u]
    BY <1>1 DEF FlowInv
  <2>3. ASSUME NEW a \in actions'
        PROVE  /\ flow'[a.turn] # NoFlow => flow'[a.turn].agreed = a.snapshot
               /\ a.agreed # NoProposal => a.agreed = a.snapshot
    <3>1. CASE a = row
      BY <2>2, <3>1
    <3>2. CASE a \in actions
      <4>1. a.turn \in Turns
        BY <3>2 DEF RowInv, Row
      <4> QED
        BY <1>4, <2>2, <3>2, <4>1 DEF FlowInv
    <3> QED
      BY <1>6, <3>1, <3>2
  <2> QED
    BY <2>1, <2>3 DEF FlowInv
<1>10. SnapshotInv'
  <2>1. \A a \in actions' : Frozen(a)
    BY <1>5, <1>6 DEF SnapshotInv
  <2>2. log' = log /\ runs' = runs
    BY <1>1 DEF vars
  <2> QED
    BY <2>1, <2>2 DEF SnapshotInv, Frozen, Question
<1> QED
  BY <1>7, <1>8, <1>9, <1>10

\* A step on a row changes its status, and notes what its click has seen.
LEMMA BecomesKeeps ==
  ASSUME ReviewInv, NEW a \in actions, NEW status \in {"requested", "approved", "executed"},
         NEW agreed \in {NoProposal, a.snapshot}, Becomes(a, status, agreed),
         UNCHANGED <<vars, output, shown>>,
         flow' = flow \/ flow' = [flow EXCEPT ![a.turn] = NoFlow]
  PROVE  ReviewInv'
<1> USE DEF ReviewInv
<1> DEFINE next == [a EXCEPT !.status = status, !.agreed = agreed]
<1>1. a \in Row /\ a.turn \in Turns /\ a.snapshot \in Proposal
  BY DEF RowInv, Row
<1>2. /\ next \in Row /\ next.turn = a.turn /\ next.key = a.key /\ next.task = a.task
      /\ next.snapshot = a.snapshot /\ next.agreed = agreed
  BY <1>1 DEF Row
<1>3. actions' = (actions \ {a}) \cup {next}
  BY DEF Becomes
<1> HIDE DEF next
<1>4. runs' = runs /\ output' = output /\ log' = log /\ shown' = shown
  BY DEF vars
<1>5. OutputInv' /\ ShownInv'
  BY <1>4 DEF OutputInv, ShownInv, Proposes
<1>6. RowInv'
  <2>1. \A b \in actions' : /\ b \in Row /\ b.key = RequestKey(b.turn)
                           /\ b.task = runs[b.turn].task /\ Proposes(b.turn, b.snapshot.command)
    BY <1>2, <1>3 DEF RowInv, RequestKey
  <2>2. \A b, d \in actions' : b.turn = d.turn => b = d
    BY <1>2, <1>3 DEF RowInv
  <2> QED
    BY <1>4, <2>1, <2>2 DEF RowInv, Proposes, RequestKey
<1>7. FlowInv'
  <2>1. \A u \in Turns : flow'[u] # NoFlow => flow'[u] = flow[u]
    BY DEF FlowInv
  <2>2. flow' \in [Turns -> [key : Nat, agreed : Proposal \cup {NoProposal}]]
    BY DEF FlowInv, NoFlow
  <2>3. \A b \in actions' : b.turn \in Turns
    BY <1>2, <1>1, <1>3 DEF RowInv, Row
  <2>4. ASSUME NEW b \in actions'
        PROVE  /\ flow'[b.turn] # NoFlow => flow'[b.turn].agreed = b.snapshot
               /\ b.agreed # NoProposal => b.agreed = b.snapshot
    BY <1>2, <1>3, <2>1, <2>3 DEF FlowInv
  <2> QED
    BY <2>2, <2>4 DEF FlowInv
<1>8. SnapshotInv'
  <2>1. Frozen(next)
    BY <1>2 DEF SnapshotInv, Frozen
  <2>2. \A b \in actions' : Frozen(b)
    BY <1>3, <2>1 DEF SnapshotInv
  <2> QED
    BY <1>4, <2>2 DEF SnapshotInv, Frozen, Question
<1> QED
  BY <1>5, <1>6, <1>7, <1>8

LEMMA NextReviewInv == IInv /\ IInv' /\ ReviewInv /\ [ReviewNext]_reviewVars => ReviewInv'
<1> SUFFICES ASSUME IInv, IInv', ReviewInv, [ReviewNext]_reviewVars PROVE ReviewInv'
  OBVIOUS
<1>0. TypeOK /\ TurnRecorded
  BY DEF IInv
<1>1. CASE UNCHANGED <<shown, flow, actions>>
  BY <1>1, ReviewAlone
<1>2. ASSUME NEW t \in Turns, NEW c \in Commands, ShowProposal(t, c) PROVE ReviewInv'
  BY <1>0, <1>2, ShowKeeps
<1>3. ASSUME NEW t \in Turns, NEW task \in Scopes, Click(t, task) PROVE ReviewInv'
  BY <1>0, <1>3, ClickKeeps
<1>4. ASSUME NEW t \in Turns, GiveUp(t) PROVE ReviewInv'
  <2>1. flow' = [flow EXCEPT ![t] = NoFlow] /\ UNCHANGED <<vars, output, shown, actions>>
    BY <1>4 DEF GiveUp
  <2>2. FlowInv'
    BY <2>1 DEF ReviewInv, FlowInv, NoFlow, RowInv, Row
  <2> QED
    BY <2>1, <2>2
    DEF ReviewInv, OutputInv, ShownInv, RowInv, SnapshotInv, Frozen, Question, Proposes,
        RequestKey, vars
<1>5. ASSUME NEW a \in actions, ApproveClicked(a) PROVE ReviewInv'
  <2>1. flow[a.turn] # NoFlow /\ flow[a.turn].agreed = a.snapshot
    BY <1>5 DEF ApproveClicked, InFlow, NoFlow, NoProposal, ReviewInv, RowInv, FlowInv, RequestKey
  <2> QED
    BY <1>5, <2>1, BecomesKeeps DEF ApproveClicked
<1>6. ASSUME NEW a \in actions, ApproveResumed(a) PROVE ReviewInv'
  BY <1>6, BecomesKeeps DEF ApproveResumed
<1>7. ASSUME NEW a \in actions, Execute(a) PROVE ReviewInv'
  <2>1. a.agreed \in {NoProposal, a.snapshot}
    BY DEF ReviewInv, FlowInv
  <2> QED
    BY <1>7, <2>1, BecomesKeeps DEF Execute
<1> QED
  BY <1>1, <1>2, <1>3, <1>4, <1>5, <1>6, <1>7
  DEF ReviewNext, TurnStep, RuntimeRequest, ReviewRequest, StoreOutput, reviewVars, review

-----------------------------------------------------------------------------
(* The theorems.                                                            *)

LEMMA InitReviewInv == ReviewInit => ReviewInv
<1> SUFFICES ASSUME ReviewInit PROVE ReviewInv
  OBVIOUS
<1>1. NoOutput \in Outputs
  BY DEF Outputs
<1>2. OutputInv
  BY <1>1, OutputTyped DEF ReviewInit, OutputInv
<1> QED
  BY <1>2 DEF ReviewInit, ReviewInv, ShownInv, RowInv, FlowInv, SnapshotInv, NoFlow

\* The inductive invariant of proposals and the rows made of them.
THEOREM ReviewInvariance == ReviewSpec => [](IInv /\ ReviewInv)
<1>1. ReviewSpec => []IInv
  BY Composition, Invariance
<1> QED
  BY <1>1, InitReviewInv, NextReviewInv, PTL DEF ReviewSpec

\* Outputs, cards, requests and rows are typed in every reachable state.
THEOREM ReviewTypeCorrect == ReviewSpec => []ReviewTypeOK
<1>1. ReviewInv => ReviewTypeOK
  BY DEF ReviewInv, OutputInv, ShownInv, FlowInv, RowInv, ReviewTypeOK
<1> QED
  BY <1>1, ReviewInvariance, PTL

\* What is executed is what the user had on the screen, once for each turn,
\* whatever turns, tabs and retries come in between.
THEOREM ShownIsExecuted == ReviewSpec => []ExecutedAsShown
<1>1. ReviewInv => ExecutedAsShown
  BY DEF ReviewInv, FlowInv, RowInv, ExecutedAsShown
<1> QED
  BY <1>1, ReviewInvariance, PTL

\* An approved image is drawn from messages of its own scope, with the turn
\* that proposed it among them or older, and an approved save has its content.
THEOREM FrozenWholly == ReviewSpec => []FrozenWhole
<1>1. ReviewInv => FrozenWhole
  BY DEF ReviewInv, SnapshotInv, Frozen, FrozenWhole, Executable
<1> QED
  BY <1>1, ReviewInvariance, PTL
=============================================================================
