---------------------- MODULE GenerationAttemptProofs ----------------------
(***************************************************************************)
(* Idempotency keys and durable results of the generation endpoint, for    *)
(* any number of requests, keys, processes, retries and faults.            *)
(*                                                                         *)
(* The inductive invariant has three parts beside the types.  KeyInv: only *)
(* a request with an attempt row gets to the provider, and of the requests *)
(* of one key one has a row.  MetricInv: how many metrics a handler has    *)
(* written follows from where it is.  ResultInv: an attempt that succeeded *)
(* is that of an answered request, whose row and file stay; a lost         *)
(* acknowledgement may leave a row without file or attempt, and nothing    *)
(* ever leads to that row.                                                 *)
(***************************************************************************)
EXTENDS GenerationAttempt, TLAPS

\* Where a handler is only with an attempt row, if its route has one.
Started == {"retrieval", "call", "ok", "bad", "file", "log", "cleanup", "finish", "failing"}

Held(r) == attempts[r].status # "absent"

KeyInv ==
  /\ \A r \in Requests : job[r].at = "new" => ~Held(r) /\ calls[r] = 0
  /\ \A r \in Requests : ~Tracked(job[r].mode) => job[r].key = None /\ job[r].at \notin {"start", "ok", "bad"}
  /\ \A r \in Requests : Held(r) => /\ attempts[r].key = job[r].key
                                    /\ attempts[r].mode = job[r].mode /\ Tracked(job[r].mode)
  /\ \A r \in Requests : Tracked(job[r].mode) /\ (job[r].at \in Started \/ calls[r] > 0) => Held(r)
  /\ \A r, q \in Requests : /\ Held(r) /\ Held(q)
                            /\ attempts[r].key # None /\ attempts[r].key = attempts[q].key
                            => r = q

\* The stages before one, and those that are over at a place.
Before(stage) ==
  CASE stage = "text" -> {} [] stage \in {"image", "reference"} -> {"text"}
    [] OTHER -> {"text", "reference"}

MetricAt(r) ==
  /\ job[r].at \in {"new", "start", "retrieval"} => job[r].stage = "text"
  /\ job[r].at \in {"call", "ok", "bad", "file", "log", "finish"} =>
       /\ job[r].stage = "image" => job[r].mode # "edited"
       /\ job[r].stage \in {"reference", "edit"} => job[r].mode = "edited"
  /\ job[r].at \in {"file", "log", "finish"} => LastStage(r)
  /\ Tracked(job[r].mode) /\ job[r].at \in {"call", "ok", "bad"} =>
       \A s \in Before(job[r].stage) : <<r, s>> \in metrics
  /\ Tracked(job[r].mode) /\ job[r].at \in {"file", "log", "finish"} =>
       \A s \in StagesOf(job[r].mode) : <<r, s>> \in metrics

MetricInv == \A r \in Requests : MetricAt(r)

\* A log row whose request was answered for it, or is about to be.
Durable(l, r) == l \in DOMAIN logs /\ logs[l] = r /\ r \in files

ResultAt(r) ==
  /\ job[r].at = "log" => r \in files
  /\ job[r].at = "finish" => Durable(job[r].log, r)
  /\ attempts[r].status = "SUCCEEDED" =>
       /\ job[r].at = "answered" /\ Durable(attempts[r].log, r)
       /\ \A s \in StagesOf(job[r].mode) : <<r, s>> \in metrics
  /\ job[r].at = "replay" =>
       /\ job[r].log \in DOMAIN logs
       /\ LET writer == logs[job[r].log]
          IN /\ writer \in Requests /\ attempts[writer].status = "SUCCEEDED"
             /\ attempts[writer].log = job[r].log
             /\ job[writer].key = job[r].key /\ job[writer].mode = job[r].mode
  /\ job[r].answer = "success" =>
       /\ job[r].at = "answered" /\ job[r].log \in DOMAIN logs
       /\ LET writer == logs[job[r].log]
          IN /\ writer \in files /\ job[writer].at = "answered"
             /\ writer # r => job[writer].key = job[r].key /\ job[writer].mode = job[r].mode

ResultInv == \A r \in Requests : ResultAt(r)

IInv == TypeOK /\ KeyInv /\ MetricInv /\ ResultInv

LEMMA ErrorAnswers == \A stage \in Stages : ProviderErrors(stage) \subseteq {"retryable", "final"}
  BY DEF ProviderErrors, Outcome, TextErrors, ImageErrors

LEMMA InitIInv == Init => IInv
<1> SUFFICES ASSUME Init PROVE IInv
  OBVIOUS
<1> USE GenerationAssumption DEF Init
<1>1. TypeOK
  BY DEF TypeOK, Attempt, Job, Statuses, Modes, Stages, Answers, Steps
<1>2. KeyInv /\ MetricInv /\ ResultInv
  BY DEF KeyInv, MetricInv, MetricAt, ResultInv, ResultAt, Held, Started, Tracked
<1> QED BY <1>1, <1>2 DEF IInv

\* A step of one handler moves no other one and no other one's row or file.
Only(r) ==
  /\ \A q \in Requests \ {r} : /\ job'[q] = job[q] /\ attempts'[q] = attempts[q]
                               /\ calls'[q] = calls[q] /\ (q \in files <=> q \in files')
  /\ metrics \subseteq metrics'
  /\ logs' = logs \/ logs' = Append(logs, r)

(***************************************************************************)
(* A step of a handler that has not answered keeps each part, if it keeps  *)
(* the part of its own request.                                            *)
(***************************************************************************)
LEMMA KeyFrame ==
  ASSUME IInv, NEW r \in Requests, Only(r),
         Held(r)' <=> Held(r), attempts'[r].key = attempts[r].key, attempts'[r].mode = attempts[r].mode,
         job'[r].key = job[r].key, job'[r].mode = job[r].mode, job'[r].at # "new",
         ~Tracked(job[r].mode) => job'[r].at \notin {"start", "ok", "bad"},
         Tracked(job[r].mode) /\ (job'[r].at \in Started \/ calls'[r] > 0) => Held(r)
  PROVE  KeyInv'
  BY DEF IInv, KeyInv, Only, Held

LEMMA MetricFrame ==
  ASSUME IInv, NEW r \in Requests, Only(r), MetricAt(r)'
  PROVE  MetricInv'
  BY DEF IInv, MetricInv, MetricAt, Only, LastStage

LEMMA ResultFrame ==
  ASSUME IInv, NEW r \in Requests, Only(r), job[r].at # "answered", ResultAt(r)'
  PROVE  ResultInv'
<1> SUFFICES ASSUME NEW q \in Requests \ {r} PROVE ResultAt(q)'
  BY DEF ResultInv
<1>1. ResultAt(q) /\ job'[q] = job[q] /\ attempts'[q] = attempts[q] /\ (q \in files <=> q \in files')
  BY DEF IInv, ResultInv, Only
<1>2. logs \in Seq(Requests)
  BY DEF IInv, TypeOK
<1>3. \A l \in DOMAIN logs : l \in DOMAIN logs' /\ logs'[l] = logs[l] /\ logs[l] \in Requests
  BY <1>2 DEF Only
<1>4. \A l, o : o # r /\ o \in Requests /\ Durable(l, o) => Durable(l, o)'
  BY <1>3 DEF Durable, Only
<1>5. \A o \in Requests : attempts[o].status = "SUCCEEDED" => o # r
  BY DEF IInv, ResultInv, ResultAt
<1>6. ASSUME job[q].at = "replay" PROVE /\ logs[job[q].log] \in Requests \ {r}
                                        /\ logs'[job[q].log] = logs[job[q].log]
                                        /\ job[q].log \in DOMAIN logs'
  BY <1>1, <1>3, <1>5, <1>6 DEF ResultAt
<1>7. ASSUME job[q].answer = "success" PROVE /\ logs[job[q].log] \in Requests \ {r}
                                             /\ logs'[job[q].log] = logs[job[q].log]
                                             /\ job[q].log \in DOMAIN logs'
  BY <1>1, <1>3, <1>7 DEF ResultAt
<1>8. metrics \subseteq metrics'
  BY DEF Only
<1> QED BY <1>1, <1>4, <1>6, <1>7, <1>8 DEF ResultAt, Only
-----------------------------------------------------------------------------
(* The actions of a handler.                                                *)

\* A handler that only goes on, with another answer perhaps.
LEMMA JobType ==
  ASSUME TypeOK, NEW r \in Requests, NEW at \in Steps \cup {"new", "answered", "dead"},
         NEW how \in Answers
  PROVE  /\ [job EXCEPT ![r].at = at, ![r].tries = 0, ![r].answer = how] \in [Requests -> Job]
         /\ [job EXCEPT ![r].at = at, ![r].tries = 0] \in [Requests -> Job]
         /\ [job EXCEPT ![r].at = at] \in [Requests -> Job]
<1>1. job \in [Requests -> Job] /\ 0 \in 0..Retries
  BY GenerationAssumption DEF TypeOK
<1>2. ASSUME NEW j \in Job
      PROVE  [j EXCEPT !.at = at] \in Job
  BY DEF Job
<1>3. ASSUME NEW j \in Job
      PROVE  [j EXCEPT !.tries = 0] \in Job
  BY <1>1 DEF Job
<1>4. ASSUME NEW j \in Job
      PROVE  [j EXCEPT !.answer = how] \in Job
  BY DEF Job
<1> QED BY <1>1, <1>2, <1>3, <1>4

\* What a handler's step leaves of its record.
Moves(r, at, how) ==
  /\ job' \in [Requests -> Job]
  /\ \A q \in Requests \ {r} : job'[q] = job[q]
  /\ job'[r].at = at /\ job'[r].answer = how
  /\ job'[r].key = job[r].key /\ job'[r].mode = job[r].mode
  /\ job'[r].stage = job[r].stage /\ job'[r].log = job[r].log

LEMMA GotoMoves ==
  ASSUME TypeOK, NEW r \in Requests, NEW at \in Steps \cup {"new", "answered", "dead"}, Goto(r, at)
  PROVE  Moves(r, at, job[r].answer)
<1>1. job' \in [Requests -> Job]
  BY JobType DEF Goto, Answers
<1> QED BY <1>1 DEF Goto, Moves, TypeOK, Job

LEMMA FailMoves ==
  ASSUME TypeOK, NEW r \in Requests, NEW at \in Steps \cup {"new", "answered", "dead"},
         NEW how \in Answers, FailWith(r, at, how)
  PROVE  Moves(r, at, how)
<1>1. job' \in [Requests -> Job]
  BY JobType DEF FailWith
<1> QED BY <1>1 DEF FailWith, Moves, TypeOK, Job

LEMMA AgainMoves ==
  ASSUME TypeOK, NEW r \in Requests, job[r].tries < Retries, Again(r)
  PROVE  Moves(r, job[r].at, job[r].answer)
<1>1. job \in [Requests -> Job]
  BY DEF TypeOK
<1>2. job[r].tries + 1 \in 0..Retries
  BY <1>1, GenerationAssumption DEF Job
<1>3. [job[r] EXCEPT !.tries = job[r].tries + 1] \in Job
  BY <1>1, <1>2 DEF Job
<1>4. job' = [job EXCEPT ![r] = [job[r] EXCEPT !.tries = job[r].tries + 1]]
  BY <1>1 DEF Again
<1> QED BY <1>1, <1>3, <1>4 DEF Moves, Job

LEMMA RetrieveStep == ASSUME IInv, NEW r \in Requests, Retrieve(r) PROVE IInv'
<1>0. TypeOK /\ KeyInv /\ MetricAt(r) /\ ResultAt(r)
  BY DEF IInv, MetricInv, ResultInv
<1>1. PICK at \in {"call", "failing"}, how \in Answers : Moves(r, at, how) /\ how # "success"
  BY <1>0, GotoMoves, FailMoves DEF Retrieve, Reply, Steps, Answers, ResultAt, TypeOK, Job
<1> USE DEF Retrieve, Moves, store
<1>2. TypeOK'
  BY <1>0, <1>1 DEF TypeOK
<1>3. Only(r)
  BY <1>1 DEF Only
<1>4. KeyInv'
  BY <1>0, <1>1, <1>3, KeyFrame DEF KeyInv, Started, Held
<1>5. MetricAt(r)'
  BY <1>0, <1>1 DEF MetricAt, Tracked, LastStage, Before
<1>6. ResultAt(r)'
  BY <1>0, <1>1 DEF ResultAt, Durable
<1> QED BY <1>2, <1>3, <1>4, <1>5, <1>6, MetricFrame, ResultFrame DEF IInv

LEMMA ReplayStep == ASSUME IInv, NEW r \in Requests, Replay(r) PROVE IInv'
<1>0. TypeOK /\ KeyInv /\ MetricAt(r) /\ ResultAt(r)
  BY DEF IInv, MetricInv, ResultInv
<1>1. PICK how \in {"success", "retryable"} :
        Moves(r, "answered", how) /\ (how = "success" => job[r].log \in DOMAIN logs)
  BY <1>0, FailMoves DEF Replay, Reply, Answers
<1>a. faults' \in Nat /\ faulty' \subseteq Requests /\ UNCHANGED <<store, calls>>
  BY <1>0 DEF Replay, Fault, NoFault, TypeOK
<1> USE <1>a DEF Moves, store
<1>2. TypeOK'
  BY <1>0, <1>1 DEF TypeOK
<1>3. Only(r)
  BY <1>1 DEF Only
<1>4. KeyInv'
  BY <1>0, <1>1, <1>3, KeyFrame DEF KeyInv, Started, Held, Replay
<1>5. MetricAt(r)'
  BY <1>1 DEF MetricAt
<1>6. ResultAt(r)'
  <2>1. attempts[r].status # "SUCCEEDED"
    BY <1>0 DEF ResultAt, Replay
  <2>2. ASSUME how = "success"
        PROVE  LET writer == logs[job[r].log]
               IN writer # r /\ writer \in files /\ job[writer].at = "answered"
                  /\ writer \in Requests /\ job[writer].key = job[r].key /\ job[writer].mode = job[r].mode
    BY <1>0 DEF ResultAt, ResultInv, IInv, Durable, Replay
  <2> QED BY <1>1, <2>1, <2>2 DEF ResultAt
<1>7. job[r].at # "answered"
  BY DEF Replay
<1> QED BY <1>2, <1>3, <1>4, <1>5, <1>6, <1>7, MetricFrame, ResultFrame DEF IInv

LEMMA ReadExistingStep == ASSUME IInv, NEW r \in Requests, ReadExisting(r) PROVE IInv'
<1>0. TypeOK /\ KeyInv /\ MetricAt(r) /\ ResultAt(r)
  BY DEF IInv, MetricInv, ResultInv
<1>a. /\ faults' \in Nat /\ faulty' \subseteq Requests /\ UNCHANGED <<store, calls>>
      /\ job[r].at = "existing"
  BY <1>0 DEF ReadExisting, Fault, NoFault, TypeOK
<1> USE <1>a DEF store
<1>1. CASE \E how \in {"final", "retryable"} : Reply(r, how)
  <2>1. PICK how \in {"final", "retryable"} : Moves(r, "answered", how)
    BY <1>0, <1>1, FailMoves DEF Reply, Answers
  <2> USE DEF Moves
  <2>2. TypeOK'
    BY <1>0, <2>1 DEF TypeOK
  <2>3. Only(r)
    BY <2>1 DEF Only
  <2>4. KeyInv'
    BY <1>0, <2>1, <2>3, KeyFrame DEF KeyInv, Started, Held
  <2>5. MetricAt(r)' /\ ResultAt(r)'
    BY <1>0, <2>1 DEF MetricAt, ResultAt
  <2> QED BY <2>2, <2>3, <2>4, <2>5, MetricFrame, ResultFrame DEF IInv
<1>2. CASE \E q \in Requests :
             /\ attempts[q].status = "SUCCEEDED" /\ attempts[q].key = job[r].key
             /\ attempts[q].mode = job[r].mode
             /\ job' = [job EXCEPT ![r].at = "replay", ![r].log = attempts[q].log]
  <2>1. PICK q \in Requests :
          /\ attempts[q].status = "SUCCEEDED" /\ attempts[q].key = job[r].key
          /\ attempts[q].mode = job[r].mode
          /\ job' = [job EXCEPT ![r].at = "replay", ![r].log = attempts[q].log]
    BY <1>2
  <2>2. job \in [Requests -> Job] /\ attempts[q].log \in Nat
    BY <1>0 DEF TypeOK, Attempt
  <2>3. [job[r] EXCEPT !.at = "replay"] \in Job
    BY <2>2 DEF Job, Steps
  <2>4. [[job[r] EXCEPT !.at = "replay"] EXCEPT !.log = attempts[q].log] \in Job
    BY <2>2, <2>3 DEF Job
  <2>5. job' \in [Requests -> Job]
    BY <2>1, <2>2, <2>4
  <2>6. /\ job'[r].at = "replay" /\ job'[r].log = attempts[q].log /\ job'[r].answer = job[r].answer
        /\ job'[r].key = job[r].key /\ job'[r].mode = job[r].mode
        /\ \A o \in Requests \ {r} : job'[o] = job[o]
    BY <2>1, <2>2 DEF Job
  <2>7. TypeOK'
    BY <1>0, <2>5 DEF TypeOK
  <2>8. Only(r)
    BY <2>6 DEF Only
  <2>9. KeyInv'
    BY <1>0, <2>6, <2>8, KeyFrame DEF KeyInv, Started, Held
  <2>10. MetricAt(r)'
    BY <2>6 DEF MetricAt
  <2>11. /\ q # r /\ Durable(attempts[q].log, q) /\ attempts[r].status # "SUCCEEDED"
         /\ job[q].key = attempts[q].key /\ job[q].mode = attempts[q].mode
         /\ job[r].answer # "success"
    BY <1>0, <2>1 DEF IInv, ResultInv, ResultAt, KeyInv, Held
  <2>12. ResultAt(r)'
    BY <2>1, <2>6, <2>11 DEF ResultAt, Durable
  <2> QED BY <2>7, <2>8, <2>9, <2>10, <2>12, MetricFrame, ResultFrame DEF IInv
<1>3. \A q \in Requests : attempts[q].status \in Statuses
  BY <1>0 DEF TypeOK, Attempt
<1> QED BY <1>1, <1>2, <1>3 DEF ReadExisting, Statuses

LEMMA CallProviderStep == ASSUME IInv, NEW r \in Requests, CallProvider(r) PROVE IInv'
<1>0. TypeOK /\ KeyInv /\ MetricAt(r) /\ ResultAt(r)
  BY DEF IInv, MetricInv, ResultInv
<1>a. /\ calls' \in [Requests -> Nat] /\ \A q \in Requests \ {r} : calls'[q] = calls[q]
      /\ Tracked(job[r].mode) /\ job[r].at = "call" /\ UNCHANGED <<store, faulty, faults>>
  BY <1>0 DEF CallProvider, Call, TypeOK
<1>b. job[r].stage \in Stages /\ job[r].answer \in Answers
  BY <1>0 DEF TypeOK, Job
<1>1. PICK at \in {"ok", "bad", "failing"}, how \in Answers : Moves(r, at, how) /\ how # "success"
  <2>1. \A how \in ProviderErrors(job[r].stage) : how \in Answers /\ how # "success"
    BY <1>b, ErrorAnswers DEF Answers
  <2>2. job[r].answer # "success"
    BY <1>0, <1>a DEF ResultAt
  <2> QED BY <1>0, <1>b, <2>1, <2>2, GotoMoves, FailMoves DEF CallProvider, Steps, Answers
<1> USE <1>a DEF Moves, store
<1>2. TypeOK'
  BY <1>0, <1>1 DEF TypeOK
<1>3. Only(r)
  BY <1>1 DEF Only
<1>4. KeyInv'
  BY <1>0, <1>1, <1>3, KeyFrame DEF KeyInv, Started, Held
<1>5. MetricAt(r)'
  BY <1>0, <1>1 DEF MetricAt, LastStage
<1>6. ResultAt(r)'
  BY <1>0, <1>1 DEF ResultAt
<1> QED BY <1>2, <1>3, <1>4, <1>5, <1>6, MetricFrame, ResultFrame DEF IInv

\* A completed stage leads to the next one, or to the file.
LEMMA AdvanceMoves ==
  ASSUME TypeOK, NEW r \in Requests, Advance(r)
  PROVE  /\ job' \in [Requests -> Job]
         /\ \A q \in Requests \ {r} : job'[q] = job[q]
         /\ job'[r].at = IF LastStage(r) THEN "file" ELSE "call"
         /\ job'[r].stage = IF LastStage(r) THEN job[r].stage ELSE NextStage(r)
         /\ job'[r].key = job[r].key /\ job'[r].mode = job[r].mode
         /\ job'[r].answer = job[r].answer /\ job'[r].log = job[r].log
<1> DEFINE at == IF LastStage(r) THEN "file" ELSE "call"
           stage == IF LastStage(r) THEN job[r].stage ELSE NextStage(r)
<1>1. job \in [Requests -> Job] /\ at \in Steps /\ 0 \in 0..Retries
  BY GenerationAssumption DEF TypeOK, Steps
<1>2. stage \in Stages
  BY <1>1 DEF NextStage, Stages, Job
<1>3. [job[r] EXCEPT !.at = at] \in Job
  BY <1>1 DEF Job
<1>4. [[job[r] EXCEPT !.at = at] EXCEPT !.tries = 0] \in Job
  BY <1>1, <1>3 DEF Job
<1>5. [[[job[r] EXCEPT !.at = at] EXCEPT !.tries = 0] EXCEPT !.stage = stage] \in Job
  BY <1>2, <1>4 DEF Job
<1>6. job' = [job EXCEPT ![r] = [[[job[r] EXCEPT !.at = at] EXCEPT !.tries = 0] EXCEPT !.stage = stage]]
  BY <1>1 DEF Advance, Job
<1> QED BY <1>1, <1>5, <1>6 DEF Job

LEMMA CallLegacyStep == ASSUME IInv, NEW r \in Requests, CallLegacy(r) PROVE IInv'
<1>0. TypeOK /\ KeyInv /\ MetricAt(r) /\ ResultAt(r)
  BY DEF IInv, MetricInv, ResultInv
<1>a. /\ calls' \in [Requests -> Nat] /\ \A q \in Requests \ {r} : calls'[q] = calls[q]
      /\ ~Tracked(job[r].mode) /\ job[r].at = "call" /\ UNCHANGED <<store, faulty, faults>>
  BY <1>0 DEF CallLegacy, Call, TypeOK
<1>b. job[r].stage \in Stages /\ attempts[r].status # "SUCCEEDED" /\ job[r].answer # "success"
  BY <1>0, <1>a DEF TypeOK, Job, ResultAt
<1>1. CASE Advance(r)
  <2>1. TypeOK'
    BY <1>0, <1>a, <1>1, AdvanceMoves DEF TypeOK, store
  <2>2. Only(r)
    BY <1>0, <1>a, <1>1, AdvanceMoves DEF Only, store
  <2>3. KeyInv'
    BY <1>0, <1>a, <1>1, <2>2, AdvanceMoves, KeyFrame DEF KeyInv, Held, store
  <2>4. MetricAt(r)'
    BY <1>0, <1>a, <1>b, <1>1, AdvanceMoves DEF MetricAt, LastStage, NextStage, Stages, Tracked, store
  <2>5. ResultAt(r)'
    BY <1>0, <1>a, <1>b, <1>1, AdvanceMoves DEF ResultAt, store
  <2> QED BY <1>a, <2>1, <2>2, <2>3, <2>4, <2>5, MetricFrame, ResultFrame DEF IInv
<1>2. CASE \E how \in ProviderErrors(job[r].stage) \cup {"final"} : Reply(r, how)
  <2>1. PICK how \in {"retryable", "final"} : Moves(r, "answered", how)
    BY <1>0, <1>b, <1>2, ErrorAnswers, FailMoves DEF Reply, Answers
  <2>2. TypeOK'
    BY <1>0, <1>a, <2>1 DEF TypeOK, Moves, store
  <2>3. Only(r)
    BY <1>a, <2>1 DEF Only, Moves, store
  <2>4. KeyInv'
    BY <1>0, <1>a, <2>1, <2>3, KeyFrame DEF KeyInv, Started, Held, Moves, store
  <2>5. MetricAt(r)' /\ ResultAt(r)'
    BY <1>0, <1>a, <1>b, <2>1 DEF MetricAt, ResultAt, Moves, store
  <2> QED BY <1>a, <2>2, <2>3, <2>4, <2>5, MetricFrame, ResultFrame DEF IInv
<1> QED BY <1>1, <1>2 DEF CallLegacy

\* A faulty try commits or not; only one that may be repeated is.
LEMMA TryCases ==
  ASSUME NEW r \in Requests, NEW duplicate \in BOOLEAN, NEW try \in Tries(r, duplicate)
  PROVE  /\ try.committed \in BOOLEAN /\ (duplicate => ~try.committed)
         /\ try.result = "again" => job[r].tries < Retries
<1>1. CASE try = [committed |-> FALSE, result |-> "none"]
  BY <1>1
<1>2. CASE /\ ~duplicate
           /\ try \in {[committed |-> c, result |-> IF job[r].tries < Retries THEN "again" ELSE "none"]
                         : c \in BOOLEAN}
  BY <1>2
<1> QED BY <1>1, <1>2 DEF Tries

LEMMA RecordMetricStep == ASSUME IInv, NEW r \in Requests, RecordMetric(r) PROVE IInv'
<1>0. TypeOK /\ KeyInv /\ MetricAt(r) /\ ResultAt(r)
  BY DEF IInv, MetricInv, ResultInv
<1> DEFINE metric == <<r, job[r].stage>>
<1>a. /\ job[r].at \in {"ok", "bad"} /\ UNCHANGED <<attempts, logs, files, scraps, calls>>
      /\ faults' \in Nat /\ faulty' \subseteq Requests
  BY <1>0 DEF RecordMetric, Fault, NoFault, TypeOK
<1>b. /\ Tracked(job[r].mode) /\ Held(r) /\ attempts[r].status # "SUCCEEDED"
      /\ job[r].answer \in Answers \ {"success"} /\ job[r].stage \in Stages /\ job[r].mode \in Modes
  BY <1>0, <1>a DEF TypeOK, Job, ResultAt, KeyInv, Started
<1>c. metrics \subseteq metrics' /\ metrics' \subseteq Requests \X Stages
  BY <1>0, <1>b DEF RecordMetric, TypeOK
<1>1. CASE job[r].at = "ok" /\ Advance(r) /\ metric \in metrics'
  <2> USE AdvanceMoves
  <2>1. TypeOK'
    BY <1>0, <1>a, <1>c, <1>1 DEF TypeOK
  <2>2. Only(r)
    BY <1>0, <1>a, <1>c, <1>1 DEF Only
  <2>3. KeyInv'
    BY <1>0, <1>a, <1>b, <1>1, <2>2, KeyFrame DEF KeyInv, Held
  <2>4. MetricAt(r)'
    <3>1. \A s \in Before(job[r].stage) : <<r, s>> \in metrics'
      BY <1>0, <1>b, <1>c, <1>1 DEF MetricAt
    <3>2. LastStage(r) => \A s \in StagesOf(job[r].mode) : <<r, s>> \in metrics'
      BY <1>0, <1>1, <3>1 DEF MetricAt, LastStage, StagesOf, Before
    <3>3. ~LastStage(r) => \A s \in Before(NextStage(r)) : <<r, s>> \in metrics'
      BY <1>0, <1>1, <1>b, <3>1 DEF MetricAt, LastStage, NextStage, Before, Stages
    <3> QED BY <1>0, <1>b, <1>1, <3>2, <3>3 DEF MetricAt, LastStage, NextStage, Stages
  <2>5. ResultAt(r)'
    BY <1>0, <1>a, <1>b, <1>1 DEF ResultAt
  <2> QED BY <1>a, <2>1, <2>2, <2>3, <2>4, <2>5, MetricFrame, ResultFrame DEF IInv
<1>2. CASE \E at \in {job[r].at, "failing"}, how \in Answers : Moves(r, at, how) /\ how # "success"
  <2>1. PICK at \in {job[r].at, "failing"}, how \in Answers : Moves(r, at, how) /\ how # "success"
    BY <1>2
  <2> USE DEF Moves
  <2>2. TypeOK'
    BY <1>0, <1>a, <1>c, <2>1 DEF TypeOK
  <2>3. Only(r)
    BY <1>0, <1>a, <1>c, <2>1 DEF Only
  <2>4. KeyInv'
    BY <1>0, <1>a, <1>b, <2>1, <2>3, KeyFrame DEF KeyInv, Held
  <2>5. MetricAt(r)'
    BY <1>0, <1>a, <1>c, <2>1 DEF MetricAt
  <2>6. ResultAt(r)'
    BY <1>0, <1>a, <1>b, <2>1 DEF ResultAt
  <2> QED BY <1>a, <2>2, <2>3, <2>4, <2>5, <2>6, MetricFrame, ResultFrame DEF IInv
<1>3. \/ job[r].at = "ok" /\ Advance(r) /\ metric \in metrics'
      \/ Goto(r, "failing") \/ FailWith(r, "failing", "retryable")
      \/ job[r].tries < Retries /\ Again(r)
  <2>1. \A try \in Tries(r, metric \in metrics) : try.result = "again" => job[r].tries < Retries
    <3>1. CASE metric \in metrics
      <4>1. Tries(r, metric \in metrics) = Tries(r, TRUE)
        BY <3>1 DEF Tries
      <4> QED BY <4>1, TryCases
    <3>2. CASE metric \notin metrics
      <4>1. Tries(r, metric \in metrics) = Tries(r, FALSE)
        BY <3>2 DEF Tries
      <4> QED BY <4>1, TryCases
    <3> QED BY <3>1, <3>2
  <2> QED BY <1>a, <2>1 DEF RecordMetric
<1>4. /\ job[r].at \in Steps \cup {"new", "answered", "dead"}
      /\ "failing" \in Steps /\ "retryable" \in Answers
  BY <1>a DEF Steps, Answers
<1> QED BY <1>0, <1>1, <1>2, <1>3, <1>4, <1>b, GotoMoves, FailMoves, AgainMoves

LEMMA PersistImageStep == ASSUME IInv, NEW r \in Requests, PersistImage(r) PROVE IInv'
<1>0. TypeOK /\ KeyInv /\ MetricAt(r) /\ ResultAt(r)
  BY DEF IInv, MetricInv, ResultInv
<1>a. /\ job[r].at = "file" /\ UNCHANGED <<attempts, metrics, logs, calls>>
      /\ faults' \in Nat /\ faulty' \subseteq Requests /\ scraps' \subseteq Requests
      /\ files \subseteq files' /\ files' \subseteq files \cup {r}
  BY <1>0 DEF PersistImage, Fault, NoFault, TypeOK
<1>b. job[r].answer \in Answers \ {"success"} /\ attempts[r].status # "SUCCEEDED"
  BY <1>0, <1>a DEF ResultAt, TypeOK, Job
<1>1. PICK at \in {"log", "failing", "answered"}, how \in Answers \ {"success"} :
        /\ Moves(r, at, how) /\ (at = "log" => r \in files')
  BY <1>0, <1>b, GotoMoves, FailMoves DEF PersistImage, Unfinished, Steps, Answers
<1> USE <1>a DEF Moves
<1>2. TypeOK'
  BY <1>0, <1>1 DEF TypeOK
<1>3. Only(r)
  BY <1>1 DEF Only
<1>4. KeyInv'
  BY <1>0, <1>1, <1>3, KeyFrame DEF KeyInv, Started, Held
<1>5. MetricAt(r)'
  BY <1>0, <1>1 DEF MetricAt, LastStage
<1>6. ResultAt(r)'
  BY <1>0, <1>b, <1>1 DEF ResultAt
<1> QED BY <1>2, <1>3, <1>4, <1>5, <1>6, MetricFrame, ResultFrame DEF IInv

LEMMA CleanupStep == ASSUME IInv, NEW r \in Requests, Cleanup(r) PROVE IInv'
<1>0. TypeOK /\ KeyInv /\ MetricAt(r) /\ ResultAt(r)
  BY DEF IInv, MetricInv, ResultInv
<1>a. /\ job[r].at = "cleanup" /\ UNCHANGED <<attempts, metrics, logs, scraps, calls>>
      /\ faults' \in Nat /\ faulty' \subseteq Requests
      /\ files \ {r} \subseteq files' /\ files' \subseteq files
  BY <1>0 DEF Cleanup, Fault, NoFault, TypeOK
<1>b. job[r].answer \in Answers \ {"success"} /\ attempts[r].status # "SUCCEEDED"
  BY <1>0, <1>a DEF ResultAt, TypeOK, Job
<1>1. PICK at \in {"failing", "answered"} : Moves(r, at, job[r].answer)
  BY <1>0, <1>b, FailMoves DEF Cleanup, Unfinished, Steps
<1> USE <1>a DEF Moves
<1>2. TypeOK'
  BY <1>0, <1>1 DEF TypeOK
<1>3. Only(r)
  BY <1>1 DEF Only
<1>4. KeyInv'
  BY <1>0, <1>1, <1>3, KeyFrame DEF KeyInv, Started, Held
<1>5. MetricAt(r)'
  BY <1>0, <1>1 DEF MetricAt, LastStage
<1>6. ResultAt(r)'
  BY <1>0, <1>b, <1>1 DEF ResultAt
<1> QED BY <1>2, <1>3, <1>4, <1>5, <1>6, MetricFrame, ResultFrame DEF IInv

LEMMA CrashStep == ASSUME IInv, NEW r \in Requests, Crash(r) PROVE IInv'
<1>0. TypeOK /\ KeyInv /\ MetricAt(r) /\ ResultAt(r)
  BY DEF IInv, MetricInv, ResultInv
<1>a. /\ UNCHANGED <<store, calls>> /\ job[r].at \in Steps
      /\ faults' \in Nat /\ faulty' \subseteq Requests
  BY <1>0 DEF Crash, Active, Fault, TypeOK
<1>b. job[r].answer # "success" /\ attempts[r].status # "SUCCEEDED" /\ job[r].at # "answered"
  BY <1>0, <1>a DEF ResultAt, Steps
<1>1. Moves(r, "dead", job[r].answer)
  <2>1. job' \in [Requests -> Job]
    BY <1>0, JobType DEF Crash, Answers
  <2> QED BY <1>0, <2>1 DEF Crash, Moves, TypeOK, Job
<1> USE <1>a DEF Moves, store
<1>2. TypeOK'
  BY <1>0, <1>1 DEF TypeOK
<1>3. Only(r)
  BY <1>1 DEF Only
<1>4. KeyInv'
  BY <1>0, <1>1, <1>3, KeyFrame DEF KeyInv, Started, Held
<1>5. MetricAt(r)'
  BY <1>1 DEF MetricAt
<1>6. ResultAt(r)'
  BY <1>b, <1>1 DEF ResultAt
<1> QED BY <1>b, <1>2, <1>3, <1>4, <1>5, <1>6, MetricFrame, ResultFrame DEF IInv

\* The log row gets the next id, and the handler goes on with it.
LEMMA InsertRowStep ==
  ASSUME IInv, NEW r \in Requests, NEW at \in {"finish", "answered"}, NEW answer \in {"none", "success"},
         InsertRow(r, at, answer),
         at = "finish" => answer = "none" /\ Tracked(job[r].mode),
         at = "answered" => answer = "success" /\ ~Tracked(job[r].mode)
  PROVE  IInv'
<1>0. TypeOK /\ KeyInv /\ MetricAt(r) /\ ResultAt(r)
  BY DEF IInv, MetricInv, ResultInv
<1>a. /\ job[r].at = "log" /\ UNCHANGED <<attempts, metrics, files, scraps, calls>>
      /\ faults' \in Nat /\ faulty' \subseteq Requests
      /\ logs' \in Seq(Requests) /\ (logs' = logs \/ logs' = Append(logs, r))
  <2>1. logs \in Seq(Requests) /\ faults \in Nat /\ faulty \subseteq Requests
    BY <1>0 DEF TypeOK
  <2>2. Append(logs, r) \in Seq(Requests)
    BY <2>1
  <2>3. logs' = logs \/ logs' = Append(logs, r)
    BY DEF InsertRow
  <2>4. NoFault \/ Fault(r)
    BY DEF InsertRow
  <2>5. job[r].at = "log" /\ UNCHANGED <<attempts, metrics, files, scraps, calls>>
    BY DEF InsertRow
  <2> QED BY <2>1, <2>2, <2>3, <2>4, <2>5 DEF Fault, NoFault
<1>b. job[r].answer \in Answers \ {"success"} /\ attempts[r].status # "SUCCEEDED" /\ r \in files
  BY <1>0, <1>a DEF ResultAt, TypeOK, Job
<1>1. CASE /\ logs' = Append(logs, r)
           /\ job' = [job EXCEPT ![r].at = at, ![r].tries = 0, ![r].log = Len(logs) + 1,
                                 ![r].answer = answer]
  <2>1. job \in [Requests -> Job] /\ at \in Steps \cup {"answered"} /\ answer \in Answers
    BY <1>0 DEF TypeOK, Steps, Answers
  <2>2. Len(logs) + 1 \in DOMAIN logs' /\ logs'[Len(logs) + 1] = r /\ Len(logs) + 1 \in Nat
    BY <1>0, <1>1 DEF TypeOK
  <2>3. [job[r] EXCEPT !.at = at, !.tries = 0] \in Job
    <3>1. [job EXCEPT ![r].at = at, ![r].tries = 0] \in [Requests -> Job]
      BY <1>0, <2>1, JobType
    <3> QED BY <2>1, <3>1
  <2>4. [[job[r] EXCEPT !.at = at, !.tries = 0] EXCEPT !.log = Len(logs) + 1] \in Job
    BY <2>2, <2>3 DEF Job
  <2>5. [[[job[r] EXCEPT !.at = at, !.tries = 0] EXCEPT !.log = Len(logs) + 1] EXCEPT !.answer = answer] \in Job
    BY <2>1, <2>4 DEF Job
  <2>6. job' \in [Requests -> Job]
    BY <1>1, <2>1, <2>5
  <2>7. /\ job'[r].at = at /\ job'[r].log = Len(logs) + 1 /\ job'[r].answer = answer
        /\ job'[r].key = job[r].key /\ job'[r].mode = job[r].mode /\ job'[r].stage = job[r].stage
        /\ \A q \in Requests \ {r} : job'[q] = job[q]
    BY <1>1, <2>1 DEF Job
  <2>8. TypeOK'
    BY <1>0, <1>a, <2>6 DEF TypeOK
  <2>9. Only(r)
    BY <1>1, <1>a, <2>7 DEF Only
  <2>10. KeyInv'
    BY <1>0, <1>a, <2>7, <2>9, KeyFrame DEF KeyInv, Started, Held
  <2>11. MetricAt(r)'
    BY <1>0, <1>a, <2>7 DEF MetricAt, LastStage
  <2>12. ResultAt(r)'
    BY <1>a, <1>b, <2>2, <2>7 DEF ResultAt, Durable
  <2> QED BY <1>a, <2>8, <2>9, <2>10, <2>11, <2>12, MetricFrame, ResultFrame DEF IInv
<1>2. CASE \/ FailWith(r, "cleanup", "retryable")
           \/ job[r].tries < Retries /\ Again(r)
  <2>1. PICK to \in {"log", "cleanup"}, how \in Answers : Moves(r, to, how) /\ how # "success"
    BY <1>0, <1>2, <1>a, <1>b, FailMoves, AgainMoves DEF Steps, Answers
  <2>2. TypeOK'
    BY <1>0, <1>a, <2>1 DEF TypeOK, Moves
  <2>3. Only(r)
    BY <1>a, <2>1 DEF Only, Moves
  <2>4. KeyInv'
    BY <1>0, <1>a, <2>1, <2>3, KeyFrame DEF KeyInv, Started, Held, Moves
  <2>5. MetricAt(r)'
    BY <1>0, <1>a, <2>1 DEF MetricAt, LastStage, Moves
  <2>6. ResultAt(r)'
    BY <1>a, <1>b, <2>1 DEF ResultAt, Moves
  <2> QED BY <1>a, <2>2, <2>3, <2>4, <2>5, <2>6, MetricFrame, ResultFrame DEF IInv
<1>3. \A try \in Tries(r, FALSE) : try.result = "again" => job[r].tries < Retries
  BY TryCases
<1> QED BY <1>1, <1>2, <1>3 DEF InsertRow

LEMMA SucceedStep == ASSUME IInv, NEW r \in Requests, Succeed(r) PROVE IInv'
<1>0. TypeOK /\ KeyInv /\ MetricAt(r) /\ ResultAt(r)
  BY DEF IInv, MetricInv, ResultInv
<1>a. /\ job[r].at = "finish" /\ UNCHANGED <<metrics, logs, files, scraps, calls>>
      /\ faults' \in Nat /\ faulty' \subseteq Requests
  BY <1>0 DEF Succeed, Finish, Fault, NoFault, TypeOK
<1>b. /\ Tracked(job[r].mode) \/ attempts[r].status = "absent"
      /\ Durable(job[r].log, r) /\ job[r].log \in Nat
      /\ attempts[r].status # "SUCCEEDED" /\ attempts[r] \in Attempt
  BY <1>0, <1>a DEF ResultAt, TypeOK, Job, KeyInv, Held
<1>1. Moves(r, "answered", "success")
  BY <1>0, FailMoves DEF Succeed, Reply, Answers
<1>c. /\ attempts' \in [Requests -> Attempt] /\ \A q \in Requests \ {r} : attempts'[q] = attempts[q]
      /\ attempts'[r].key = attempts[r].key /\ attempts'[r].mode = attempts[r].mode
      /\ Held(r)' <=> Held(r)
      /\ attempts'[r].status = "SUCCEEDED" =>
           /\ attempts'[r].log = job[r].log /\ Held(r)
  <2>1. CASE UNCHANGED attempts
    BY <1>0, <1>b, <2>1 DEF TypeOK, Held
  <2>2. CASE /\ attempts[r].status = "RUNNING"
             /\ attempts' = [attempts EXCEPT ![r] = [@ EXCEPT !.status = "SUCCEEDED", !.log = job[r].log]]
    <3>1. [attempts[r] EXCEPT !.status = "SUCCEEDED"] \in Attempt
      BY <1>b DEF Attempt, Statuses
    <3>2. [[attempts[r] EXCEPT !.status = "SUCCEEDED"] EXCEPT !.log = job[r].log] \in Attempt
      BY <1>b, <3>1 DEF Attempt
    <3> QED BY <1>0, <1>b, <2>2, <3>2 DEF TypeOK, Attempt, Held
  <2> QED BY <1>0, <2>1, <2>2 DEF Succeed, Finish, TypeOK
<1> USE <1>a DEF Moves
<1>2. TypeOK'
  BY <1>0, <1>1, <1>c DEF TypeOK
<1>3. Only(r)
  BY <1>1, <1>c DEF Only
<1>4. KeyInv'
  BY <1>0, <1>1, <1>3, <1>c, KeyFrame DEF KeyInv, Started
<1>5. MetricAt(r)'
  BY <1>1 DEF MetricAt
<1>6. ResultAt(r)'
  BY <1>0, <1>1, <1>b, <1>c DEF ResultAt, Durable, MetricAt, Held
<1> QED BY <1>2, <1>3, <1>4, <1>5, <1>6, MetricFrame, ResultFrame DEF IInv

LEMMA FailStep == ASSUME IInv, NEW r \in Requests, Fail(r) PROVE IInv'
<1>0. TypeOK /\ KeyInv /\ MetricAt(r) /\ ResultAt(r)
  BY DEF IInv, MetricInv, ResultInv
<1>a. /\ job[r].at = "failing" /\ UNCHANGED <<metrics, logs, files, scraps, calls>>
      /\ faults' \in Nat /\ faulty' \subseteq Requests
  BY <1>0 DEF Fail, Finish, Fault, NoFault, TypeOK
<1>b. /\ job[r].answer \in Answers \ {"success"}
      /\ attempts[r].status # "SUCCEEDED" /\ attempts[r] \in Attempt
  BY <1>0, <1>a DEF ResultAt, TypeOK, Job
<1>1. Moves(r, "answered", job[r].answer)
  BY <1>0, <1>b, FailMoves DEF Fail, Reply
<1>c. /\ attempts' \in [Requests -> Attempt] /\ \A q \in Requests \ {r} : attempts'[q] = attempts[q]
      /\ attempts'[r].key = attempts[r].key /\ attempts'[r].mode = attempts[r].mode
      /\ Held(r)' <=> Held(r)
      /\ attempts'[r].status # "SUCCEEDED"
  <2>1. CASE UNCHANGED attempts
    BY <1>0, <1>b, <2>1 DEF TypeOK, Held
  <2>2. CASE /\ attempts[r].status = "RUNNING"
             /\ attempts' = [attempts EXCEPT ![r] = [@ EXCEPT !.status = "FAILED", !.log = 0]]
    <3>1. [attempts[r] EXCEPT !.status = "FAILED"] \in Attempt
      BY <1>b DEF Attempt, Statuses
    <3>2. [[attempts[r] EXCEPT !.status = "FAILED"] EXCEPT !.log = 0] \in Attempt
      BY <1>b, <3>1 DEF Attempt
    <3> QED BY <1>0, <1>b, <2>2, <3>2 DEF TypeOK, Attempt, Held
  <2> QED BY <1>0, <2>1, <2>2 DEF Fail, Finish, TypeOK
<1> USE <1>a DEF Moves
<1>2. TypeOK'
  BY <1>0, <1>1, <1>c DEF TypeOK
<1>3. Only(r)
  BY <1>1, <1>c DEF Only
<1>4. KeyInv'
  BY <1>0, <1>1, <1>3, <1>c, KeyFrame DEF KeyInv, Started
<1>5. MetricAt(r)'
  BY <1>1 DEF MetricAt
<1>6. ResultAt(r)'
  BY <1>1, <1>b, <1>c DEF ResultAt
<1> QED BY <1>2, <1>3, <1>4, <1>5, <1>6, MetricFrame, ResultFrame DEF IInv

\* The attempt row is written under a key no other row has.
LEMMA StartAttemptStep == ASSUME IInv, NEW r \in Requests, StartAttempt(r) PROVE IInv'
<1>0. TypeOK /\ KeyInv /\ MetricAt(r) /\ ResultAt(r)
  BY DEF IInv, MetricInv, ResultInv
<1> DEFINE row == [status |-> "RUNNING", key |-> job[r].key, mode |-> job[r].mode, log |-> 0]
<1>a. /\ job[r].at = "start" /\ UNCHANGED <<metrics, logs, files, scraps, calls>>
      /\ faults' \in Nat /\ faulty' \subseteq Requests
  <2>1. NoFault \/ Fault(r)
    BY DEF StartAttempt
  <2>2. job[r].at = "start" /\ UNCHANGED <<metrics, logs, files, scraps, calls>>
    BY DEF StartAttempt
  <2> QED BY <1>0, <2>1, <2>2 DEF Fault, NoFault, TypeOK
<1>b. /\ job[r].answer \in Answers \ {"success"} /\ attempts[r].status # "SUCCEEDED"
      /\ job[r].stage = "text"
  BY <1>0, <1>a DEF ResultAt, MetricAt, TypeOK, Job
<1>c. \/ /\ attempts' = [attempts EXCEPT ![r] = row] /\ attempts[r].status = "absent" /\ ~KeyTaken(r)
         /\ \/ Goto(r, "retrieval") \/ Goto(r, "existing") \/ Reply(r, "retryable")
            \/ job[r].tries < Retries /\ Again(r)
      \/ /\ UNCHANGED attempts
         /\ \/ Goto(r, "existing") \/ Reply(r, "retryable")
            \/ job[r].tries < Retries /\ Again(r)
  <2>1. CASE attempts[r].status # "absent" \/ KeyTaken(r)
    <3>1. Tries(r, attempts[r].status # "absent" \/ KeyTaken(r)) = Tries(r, TRUE)
      BY <2>1 DEF Tries
    <3>2. \A try \in Tries(r, TRUE) : ~try.committed /\ (try.result = "again" => job[r].tries < Retries)
      BY TryCases
    <3> QED BY <2>1, <3>1, <3>2 DEF StartAttempt
  <2>2. CASE attempts[r].status = "absent" /\ ~KeyTaken(r)
    <3>1. Tries(r, attempts[r].status # "absent" \/ KeyTaken(r)) = Tries(r, FALSE)
      BY <2>2 DEF Tries
    <3>2. \A try \in Tries(r, FALSE) : try.committed \in BOOLEAN /\ (try.result = "again" => job[r].tries < Retries)
      BY TryCases
    <3> QED BY <2>2, <3>1, <3>2 DEF StartAttempt
  <2> QED BY <2>1, <2>2
<1>1. PICK at \in {"retrieval", "existing", "answered", "start"}, how \in Answers \ {"success"} :
        /\ Moves(r, at, how)
        /\ at = "retrieval" => attempts' = [attempts EXCEPT ![r] = row]
  BY <1>0, <1>a, <1>b, <1>c, GotoMoves, FailMoves, AgainMoves DEF Reply, Steps, Answers
<1> USE <1>a DEF Moves
<1>2. CASE UNCHANGED attempts
  <2>1. TypeOK'
    BY <1>0, <1>1, <1>2 DEF TypeOK
  <2>2. Only(r)
    BY <1>1, <1>2 DEF Only
  <2>3. at = "retrieval" => attempts[r].status = "RUNNING"
    BY <1>0, <1>1, <1>2 DEF TypeOK
  <2>4. KeyInv'
    BY <1>0, <1>1, <1>2, <2>2, <2>3, KeyFrame DEF KeyInv, Started, Held
  <2>5. MetricAt(r)' /\ ResultAt(r)'
    BY <1>0, <1>b, <1>1, <1>2 DEF MetricAt, ResultAt
  <2> QED BY <2>1, <2>2, <2>4, <2>5, MetricFrame, ResultFrame DEF IInv
<1>3. CASE attempts' = [attempts EXCEPT ![r] = row] /\ attempts[r].status = "absent" /\ ~KeyTaken(r)
  <2>1. row \in Attempt /\ Tracked(job[r].mode)
    <3>1. job[r].key \in Keys \cup {None} /\ job[r].mode \in Modes
      BY <1>0 DEF TypeOK, Job
    <3>2. Tracked(job[r].mode)
      BY <1>0, <1>a DEF KeyInv
    <3> QED BY <3>1, <3>2 DEF Attempt, Statuses
  <2>2. TypeOK'
    BY <1>0, <1>1, <1>3, <2>1 DEF TypeOK
  <2>3. attempts'[r] = row /\ \A q \in Requests \ {r} : attempts'[q] = attempts[q]
    BY <1>0, <1>3 DEF TypeOK
  <2>4. Only(r)
    BY <1>1, <2>3 DEF Only
  <2>5. \A q \in Requests : Held(q) => q # r /\ (job[r].key # None => attempts[q].key # job[r].key)
    BY <1>3 DEF Held, KeyTaken
  <2>6. KeyInv'
    <3>1. \A q \in Requests : Held(q)' <=> (q = r \/ Held(q))
      BY <2>3 DEF Held
    <3> QED BY <1>0, <1>1, <2>1, <2>3, <2>5, <3>1 DEF KeyInv
  <2>7. MetricAt(r)' /\ ResultAt(r)'
    BY <1>0, <1>b, <1>1, <2>3 DEF MetricAt, ResultAt
  <2> QED BY <2>2, <2>4, <2>6, <2>7, MetricFrame, ResultFrame DEF IInv
<1> QED BY <1>c, <1>2, <1>3

\* A new request has no row and has paid nothing, whatever key it brings.
LEMMA BeginStep ==
  ASSUME IInv, NEW r \in Requests, NEW m \in Modes, NEW k \in Keys \cup {None},
         NEW at \in {"start", "call"}, Begin(r, m, k, at),
         at = "start" => Tracked(m), at = "call" => ~Tracked(m) /\ k = None
  PROVE  IInv'
<1>0. TypeOK /\ KeyInv /\ MetricAt(r) /\ ResultAt(r)
  BY DEF IInv, MetricInv, ResultInv
<1>a. job[r].at = "new" /\ UNCHANGED <<store, calls, faulty, faults>>
  BY DEF Begin
<1>b. /\ ~Held(r) /\ calls[r] = 0 /\ job[r].stage = "text" /\ attempts[r].status # "SUCCEEDED"
      /\ job[r].answer # "success" /\ job \in [Requests -> Job]
  BY <1>0, <1>a DEF KeyInv, MetricAt, ResultAt, Held, TypeOK
<1>1. PICK up \in BOOLEAN :
        job' = [job EXCEPT ![r].mode = m, ![r].key = k,
                           ![r].at = IF up THEN at ELSE "answered",
                           ![r].answer = IF up THEN "none" ELSE "retryable"]
  BY DEF Begin
<1> DEFINE to == IF up THEN at ELSE "answered"
           how == IF up THEN "none" ELSE "retryable"
<1>2. job' \in [Requests -> Job]
  <2>1. [job[r] EXCEPT !.mode = m] \in Job
    BY <1>b DEF Job
  <2>2. [[job[r] EXCEPT !.mode = m] EXCEPT !.key = k] \in Job
    BY <2>1 DEF Job
  <2>3. [[[job[r] EXCEPT !.mode = m] EXCEPT !.key = k] EXCEPT !.at = to] \in Job
    BY <2>2 DEF Job, Steps
  <2>4. [[[[job[r] EXCEPT !.mode = m] EXCEPT !.key = k] EXCEPT !.at = to] EXCEPT !.answer = how] \in Job
    BY <2>3 DEF Job, Answers
  <2> QED BY <1>1, <1>b, <2>4
<1>3. /\ job'[r].at = to /\ job'[r].answer = how /\ job'[r].mode = m /\ job'[r].key = k
      /\ job'[r].stage = job[r].stage /\ \A q \in Requests \ {r} : job'[q] = job[q]
  BY <1>1, <1>b DEF Job
<1>4. TypeOK'
  BY <1>0, <1>a, <1>2 DEF TypeOK, store
<1>5. Only(r)
  BY <1>a, <1>3 DEF Only, store
<1>6. KeyInv'
  <2>1. \A q \in Requests : Held(q)' <=> Held(q)
    BY <1>a DEF Held, store
  <2>2. to = "start" => Tracked(m)
    OBVIOUS
  <2>3. to # "new" /\ to \notin {"ok", "bad"} /\ (to \in Started => ~Tracked(m))
    BY DEF Started
  <2>4. ~Tracked(m) => k = None
    OBVIOUS
  <2> QED BY <1>0, <1>a, <1>b, <1>3, <2>1, <2>2, <2>3, <2>4 DEF KeyInv, store
<1>7. MetricAt(r)'
  BY <1>b, <1>3 DEF MetricAt, Before
<1>8. ResultAt(r)'
  BY <1>a, <1>b, <1>3 DEF ResultAt, store
<1> QED BY <1>a, <1>4, <1>5, <1>6, <1>7, <1>8, MetricFrame, ResultFrame DEF IInv

LEMMA NextIInv == IInv /\ [Next]_vars => IInv'
<1> SUFFICES ASSUME IInv, [Next]_vars PROVE IInv'
  OBVIOUS
<1>1. ASSUME NEW r \in Requests, NEW m \in Modes, NEW k \in Keys \cup {None}, Receive(r, m, k)
      PROVE  IInv'
  BY <1>1, BeginStep DEF Receive
<1>2. ASSUME NEW r \in Requests, ReceiveLegacy(r) PROVE IInv'
  <2>1. "legacy" \in Modes /\ ~Tracked("legacy")
    BY DEF Modes, Tracked
  <2> QED BY <1>2, <2>1, BeginStep DEF ReceiveLegacy
<1>3. ASSUME NEW r \in Requests, HandlerStep(r) PROVE IInv'
  <2>1. CASE InsertLog(r)
    BY <2>1, InsertRowStep DEF InsertLog
  <2>2. CASE InsertLegacy(r)
    BY <2>2, InsertRowStep DEF InsertLegacy
  <2> QED BY <1>3, <2>1, <2>2, StartAttemptStep, ReadExistingStep, ReplayStep, RetrieveStep,
             CallProviderStep, CallLegacyStep, RecordMetricStep, PersistImageStep, CleanupStep,
             SucceedStep, FailStep DEF HandlerStep
<1>4. CASE UNCHANGED vars
  BY <1>4 DEF IInv, TypeOK, KeyInv, Held, MetricInv, MetricAt, LastStage, ResultInv, ResultAt,
              Durable, vars
<1> QED BY <1>1, <1>2, <1>3, <1>4, CrashStep DEF Next

-----------------------------------------------------------------------------
\* The invariant holds of every reachable state.
THEOREM Invariance == Spec => []IInv
BY InitIInv, NextIInv, PTL DEF Spec

\* Every reachable state of attempts, metrics, rows, files and handlers is
\* typed.
THEOREM TypeCorrect == Spec => []TypeOK
<1>1. IInv => TypeOK
  BY DEF IInv
<1> QED BY <1>1, Invariance, PTL

\* Of the requests under one Idempotency-Key at most one ever pays for a
\* provider call: it needs an attempt row, and only one has it.
THEOREM KeyPaysOnce == Spec => []OneGenerationPerKey
<1>1. IInv => OneGenerationPerKey
  <2> SUFFICES ASSUME IInv, NEW r \in Requests, NEW q \in Requests,
                      job[r].key # None, job[r].key = job[q].key, calls[r] > 0, calls[q] > 0
               PROVE  r = q
    BY DEF OneGenerationPerKey
  <2> QED BY DEF IInv, KeyInv
<1> QED BY <1>1, Invariance, PTL

\* A client told of a success can rely on it: row and file of the log id
\* are there and stay, for a replayed answer too.
THEOREM SuccessStays == Spec => []SuccessIsDurable
<1>1. IInv => SuccessIsDurable
  BY DEF IInv, ResultInv, ResultAt, SuccessIsDurable
<1> QED BY <1>1, Invariance, PTL

\* An attempt counted as a success has its row and the metrics of all its
\* calls, whatever was lost and repeated on the way.
THEOREM SuccessComplete == Spec => []SucceededIsComplete
<1>1. IInv => SucceededIsComplete
  <2> SUFFICES ASSUME IInv, NEW r \in Requests, attempts[r].status = "SUCCEEDED"
               PROVE  /\ attempts[r].log \in DOMAIN logs /\ logs[attempts[r].log] = r
                      /\ \A s \in StagesOf(attempts[r].mode) : <<r, s>> \in metrics
    BY DEF SucceededIsComplete
  <2>1. attempts[r].mode = job[r].mode
    BY DEF IInv, KeyInv, Held
  <2> QED BY <2>1 DEF IInv, ResultInv, ResultAt, Durable
<1> QED BY <1>1, Invariance, PTL
=============================================================================
