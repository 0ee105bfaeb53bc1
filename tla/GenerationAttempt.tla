------------------------- MODULE GenerationAttempt -------------------------
(***************************************************************************)
(* Generation requests of the quick workspace: POST                        *)
(* /api/v2/cultural-products/generate and the older POST /api/generate     *)
(* (backend/routes/api.py), with the attempt row and the metrics of        *)
(* services/generation_tracking.py, the retries of                         *)
(* services/mysql_service.py, the provider calls of                        *)
(* services/aigc_service.py and the files of services/image_storage.py.    *)
(*                                                                         *)
(* A handler runs synchronously and holds the event loop of its process,   *)
(* so at most Processes requests are worked on at once.  Every statement   *)
(* commits by itself, and the connection may be lost before a statement    *)
(* is executed or after it committed: each try of a statement is a step.   *)
(*                                                                         *)
(* A brief is what the presentation mode makes of it: one image, or a      *)
(* reference image and its edit.  A log id is a position in generation_    *)
(* logs, a row is the request that wrote it, and its file has its name.    *)
(***************************************************************************)
EXTENDS Naturals, Sequences, FiniteSets

CONSTANTS
  Requests,    \* HTTP requests, each with its own request_id
  Keys,        \* Idempotency-Key values of one user
  None,        \* no key, SQL NULL
  Processes,   \* how many server processes there are
  Retries,     \* max_retries of execute_insert: 2 in the code
  MaxFaults    \* bound on lost statements, crashes and disk errors

ASSUME GenerationAssumption ==
  /\ Processes \in Nat \ {0} /\ Retries \in Nat /\ MaxFaults \in Nat
  /\ None \notin Keys

VARIABLES
  attempts,  \* generation_attempts, by request_id
  metrics,   \* UNIQUE (request_id, stage) of model_call_metrics
  logs,      \* generation_logs, in the order of their ids
  files,     \* complete image files in static/images
  scraps,    \* files whose write was cut short
  job,       \* the handlers
  calls,     \* observer: provider calls of a request
  faulty,    \* observer: requests that met a fault
  faults     \* what MaxFaults counts

vars  == <<attempts, metrics, logs, files, scraps, job, calls, faulty, faults>>
store == <<attempts, metrics, logs, files, scraps>>

Modes    == {"single", "edited", "legacy"}
Stages   == {"text", "image", "reference", "edit"}
Statuses == {"absent", "RUNNING", "SUCCEEDED", "FAILED"}
Answers  == {"none", "success", "retryable", "final"}

\* Where a handler is; it ends answered, or dead with its process.
Steps == {"start", "existing", "replay", "retrieval", "call", "ok", "bad",
          "file", "log", "cleanup", "finish", "failing"}

Attempt == [status : Statuses, key : Keys \cup {None}, mode : Modes, log : Nat]
Job     == [at : Steps \cup {"new", "answered", "dead"}, stage : Stages,
            mode : Modes, key : Keys \cup {None}, tries : 0..Retries, log : Nat,
            answer : Answers]

Active  == {r \in Requests : job[r].at \in Steps}
Tracked(m) == m # "legacy"

Init ==
  /\ attempts = [r \in Requests |-> [status |-> "absent", key |-> None,
                                     mode |-> "single", log |-> 0]]
  /\ metrics = {} /\ logs = <<>> /\ files = {} /\ scraps = {}
  /\ job = [r \in Requests |-> [at |-> "new", stage |-> "text", mode |-> "single",
                                key |-> None, tries |-> 0, log |-> 0, answer |-> "none"]]
  /\ calls = [r \in Requests |-> 0] /\ faulty = {} /\ faults = 0

-----------------------------------------------------------------------------
(* Statements.  A handler goes on to a place; a fault counts against it.    *)

Goto(r, at)          == job' = [job EXCEPT ![r].at = at, ![r].tries = 0]
FailWith(r, at, how) == job' = [job EXCEPT ![r].at = at, ![r].tries = 0, ![r].answer = how]
Reply(r, how)        == FailWith(r, "answered", how)

Fault(r) == /\ faults < MaxFaults
            /\ faults' = faults + 1 /\ faulty' = faulty \cup {r}
NoFault  == UNCHANGED <<faults, faulty>>

\* One faulty try of execute_insert.  After a lost connection (2006, 2013,
\* 2055), whether it committed or not, the statement is sent again while tries
\* are left.  Any other error, the violation of a unique key among them,
\* ends it with None.
Tries(r, duplicate) ==
  IF duplicate THEN {[committed |-> FALSE, result |-> "none"]}
  ELSE {[committed |-> FALSE, result |-> "none"]}
       \cup {[committed |-> c, result |-> IF job[r].tries < Retries THEN "again" ELSE "none"]
              : c \in BOOLEAN}

Again(r) == job' = [job EXCEPT ![r].tries = @ + 1]

-----------------------------------------------------------------------------
(* The model provider: what a call can come to, and whether the error it    *)
(* is answered with is called retryable.                                    *)

TextErrors ==
  [connect_timeout |-> "retryable", read_timeout |-> "retryable",
   authentication |-> "final", permission |-> "final",
   rate_limit |-> "retryable", status_5xx |-> "retryable",
   status_4xx |-> "final", connection |-> "retryable", other |-> "retryable"]

\* Answers the text client takes for errors.
TextRefusals == {"incomplete", "failed", "cancelled", "error", "empty", "reasoning_only"}

\* Not JSON, or not the contract; citations outside the evidence.
TextInvalid == {"invalid_response", "invalid_citations"}

ImageErrors ==
  [connect_timeout |-> "retryable", read_timeout |-> "retryable",
   timeout |-> "retryable", request |-> "retryable", status_401 |-> "final",
   status_403 |-> "final", status_429 |-> "retryable",
   status_5xx |-> "retryable", other_status |-> "final"]

ImageRefusals == {"invalid_json", "invalid_response", "content_filtered", "failed", "no_image"}

Outcome(errors, refusals) ==
  {errors[e] : e \in DOMAIN errors} \cup {"final" : e \in refusals}

ProviderErrors(stage) ==
  IF stage = "text" THEN Outcome(TextErrors, TextRefusals \cup TextInvalid)
  ELSE Outcome(ImageErrors, ImageRefusals)

-----------------------------------------------------------------------------
(* The handler up to its first provider call.                               *)

\* MySQL is asked for before anything is paid for; it may be down.
Begin(r, m, k, at) ==
  /\ job[r].at = "new" /\ Cardinality(Active) < Processes
  /\ \E up \in BOOLEAN :
       job' = [job EXCEPT ![r].mode = m, ![r].key = k,
                          ![r].at = IF up THEN at ELSE "answered",
                          ![r].answer = IF up THEN "none" ELSE "retryable"]
  /\ UNCHANGED <<store, calls, faulty, faults>>

\* Authentication, brief and key are in order.
Receive(r, m, k) == Tracked(m) /\ Begin(r, m, k, "start")

\* The older route: no key, no attempt row, no metrics.
ReceiveLegacy(r) == Begin(r, "legacy", None, "call")

\* Mutant of KeyTaken: a failed attempt gives its key back.
KeyTakenUnlessFailed(r) ==
  /\ job[r].key # None
  /\ \E q \in Requests : attempts[q].status \notin {"absent", "FAILED"} /\ attempts[q].key = job[r].key

\* UNIQUE (user_id, idempotency_key): NULL keys never clash.
KeyTaken(r) ==
  /\ job[r].key # None
  /\ \E q \in Requests : attempts[q].status # "absent" /\ attempts[q].key = job[r].key

\* tracker.start: the attempt row claims the key.  A retry after a lost
\* acknowledgement meets the row of its own first try.
StartAttempt(r) ==
  LET duplicate == attempts[r].status # "absent" \/ KeyTaken(r)
      row == [status |-> "RUNNING", key |-> job[r].key, mode |-> job[r].mode, log |-> 0]
      Refused == IF job[r].key # None THEN Goto(r, "existing") ELSE Reply(r, "retryable")
  IN /\ job[r].at = "start"
     /\ \/ ~duplicate /\ attempts' = [attempts EXCEPT ![r] = row]
           /\ Goto(r, "retrieval") /\ NoFault
        \/ duplicate /\ Refused /\ UNCHANGED attempts /\ NoFault
        \/ \E try \in Tries(r, duplicate) :
             /\ attempts' = IF try.committed THEN [attempts EXCEPT ![r] = row] ELSE attempts
             /\ IF try.result = "again" THEN Again(r) ELSE Refused
             /\ Fault(r)
     /\ UNCHANGED <<metrics, logs, files, scraps, calls>>

\* The attempt that holds the key decides: another brief, still running,
\* already failed, or a result to replay.  No row at all is a tracking error.
ReadExisting(r) ==
  /\ job[r].at = "existing"
  /\ \/ \E q \in Requests :
          /\ attempts[q].status # "absent" /\ attempts[q].key = job[r].key
          /\ CASE attempts[q].mode # job[r].mode -> Reply(r, "final")
               [] attempts[q].mode = job[r].mode /\ attempts[q].status = "RUNNING" ->
                    Reply(r, "retryable")
               [] attempts[q].mode = job[r].mode /\ attempts[q].status = "FAILED" ->
                    Reply(r, "final")
               [] OTHER -> job' = [job EXCEPT ![r].at = "replay", ![r].log = attempts[q].log]
          /\ NoFault
     \/ ~KeyTaken(r) /\ Reply(r, "retryable") /\ NoFault
     \/ Fault(r) /\ Reply(r, "retryable")
  /\ UNCHANGED <<store, calls>>

\* The stored response of the log row, which nothing deletes, is the answer.
Replay(r) ==
  /\ job[r].at = "replay"
  /\ \/ job[r].log \in DOMAIN logs /\ Reply(r, "success") /\ NoFault
     \/ Fault(r) /\ Reply(r, "retryable")
  /\ UNCHANGED <<store, calls>>

\* Mutant of Retrieve: a corpus that cannot be read is only answered.
RetrieveUnfinished(r) ==
  /\ job[r].at = "retrieval"
  /\ \/ Goto(r, "call")
     \/ Reply(r, "retryable")
  /\ UNCHANGED <<store, calls, faulty, faults>>

\* The evidence of the brief is looked up in the local corpus.
Retrieve(r) ==
  /\ job[r].at = "retrieval"
  /\ \/ Goto(r, "call")
     \/ FailWith(r, "failing", "retryable")
  /\ UNCHANGED <<store, calls, faulty, faults>>

-----------------------------------------------------------------------------
(* Provider calls and their metrics.                                        *)

\* The stage after a completed one; the last image is fetched as a file.
NextStage(r) ==
  CASE job[r].stage = "text" /\ job[r].mode = "edited" -> "reference"
    [] job[r].stage = "text" /\ job[r].mode # "edited" -> "image"
    [] OTHER -> "edit"
LastStage(r) == job[r].stage \in {"image", "edit"}

Advance(r) ==
  job' = [job EXCEPT ![r].at = IF LastStage(r) THEN "file" ELSE "call", ![r].tries = 0,
                     ![r].stage = IF LastStage(r) THEN @ ELSE NextStage(r)]

Call(r) == job[r].at = "call" /\ calls' = [calls EXCEPT ![r] = @ + 1]

\* A call whose metric is still to be written; an error outside the
\* service's own ends the attempt without one.
CallProvider(r) ==
  /\ Tracked(job[r].mode) /\ Call(r)
  /\ \/ Goto(r, "ok")
     \/ \E how \in ProviderErrors(job[r].stage) : FailWith(r, "bad", how)
     \/ FailWith(r, "failing", "final")
  /\ UNCHANGED <<store, faulty, faults>>

\* The older route asks for a title and a text, then for the image.
CallLegacy(r) ==
  /\ ~Tracked(job[r].mode) /\ Call(r)
  /\ \/ Advance(r)
     \/ \E how \in ProviderErrors(job[r].stage) \cup {"final"} : Reply(r, how)
  /\ UNCHANGED <<store, faulty, faults>>

\* Mutant of RecordMetric: a metric that could not be written is only logged.
RecordMetricBestEffort(r) ==
  LET duplicate == <<r, job[r].stage>> \in metrics
      Recorded == IF job[r].at = "ok" THEN Advance(r) ELSE Goto(r, "failing")
  IN /\ job[r].at \in {"ok", "bad"}
     /\ \/ ~duplicate /\ metrics' = metrics \cup {<<r, job[r].stage>>} /\ Recorded /\ NoFault
        \/ duplicate /\ Recorded /\ UNCHANGED metrics /\ NoFault
        \/ \E try \in Tries(r, duplicate) :
             /\ metrics' = IF try.committed THEN metrics \cup {<<r, job[r].stage>>} ELSE metrics
             /\ IF try.result = "again" THEN Again(r) ELSE Recorded
             /\ Fault(r)
     /\ UNCHANGED <<attempts, logs, files, scraps, calls>>

\* tracker.record_metric.  A paid call whose metric cannot be confirmed
\* fails the request; a failed call fails it either way.
RecordMetric(r) ==
  LET duplicate == <<r, job[r].stage>> \in metrics
      Recorded == IF job[r].at = "ok" THEN Advance(r) ELSE Goto(r, "failing")
      Refused == IF job[r].at = "ok" THEN FailWith(r, "failing", "retryable") ELSE Goto(r, "failing")
  IN /\ job[r].at \in {"ok", "bad"}
     /\ \/ ~duplicate /\ metrics' = metrics \cup {<<r, job[r].stage>>} /\ Recorded /\ NoFault
        \/ duplicate /\ Refused /\ UNCHANGED metrics /\ NoFault
        \/ \E try \in Tries(r, duplicate) :
             /\ metrics' = IF try.committed THEN metrics \cup {<<r, job[r].stage>>} ELSE metrics
             /\ IF try.result = "again" THEN Again(r) ELSE Refused
             /\ Fault(r)
     /\ UNCHANGED <<attempts, logs, files, scraps, calls>>

-----------------------------------------------------------------------------
(* The result: the file, the log row, the end of the attempt.               *)

\* Only an attempt has a failure to record.
Unfinished(r, how) ==
  FailWith(r, IF Tracked(job[r].mode) THEN "failing" ELSE "answered", how)

\* persist_generated_image: the download may fail before anything is
\* written; a disk error leaves what was written of the file.
PersistImage(r) ==
  /\ job[r].at = "file"
  /\ \/ files' = files \cup {r} /\ Goto(r, "log") /\ NoFault /\ UNCHANGED scraps
     \/ Unfinished(r, "retryable") /\ NoFault /\ UNCHANGED <<files, scraps>>
     \/ scraps' = scraps \cup {r} /\ Unfinished(r, "retryable") /\ Fault(r)
        /\ UNCHANGED files
  /\ UNCHANGED <<attempts, metrics, logs, calls>>

\* INSERT INTO generation_logs: no unique key stops a second copy.
InsertRow(r, at, answer) ==
  /\ job[r].at = "log"
  /\ \/ /\ logs' = Append(logs, r) /\ NoFault
        /\ job' = [job EXCEPT ![r].at = at, ![r].tries = 0, ![r].log = Len(logs) + 1,
                              ![r].answer = answer]
     \/ \E try \in Tries(r, FALSE) :
          /\ logs' = IF try.committed THEN Append(logs, r) ELSE logs
          /\ IF try.result = "again" THEN Again(r) ELSE FailWith(r, "cleanup", "retryable")
          /\ Fault(r)
  /\ UNCHANGED <<attempts, metrics, files, scraps, calls>>

\* The attempt is closed after its row is written.
InsertLog(r) == Tracked(job[r].mode) /\ InsertRow(r, "finish", "none")

\* The older route answers at once.
InsertLegacy(r) == ~Tracked(job[r].mode) /\ InsertRow(r, "answered", "success")

\* remove_persisted_image, which may fail and is only logged then.
Cleanup(r) ==
  /\ job[r].at = "cleanup" /\ Unfinished(r, job[r].answer)
  /\ \/ files' = files \ {r} /\ NoFault
     \/ Fault(r) /\ UNCHANGED files
  /\ UNCHANGED <<attempts, metrics, logs, scraps, calls>>

\* tracker._finish: one UPDATE of the row while it is RUNNING, never retried,
\* executed or not when its connection is lost.
Finish(r, status, log) ==
  LET Ended == attempts' = [attempts EXCEPT ![r] =
                 IF @.status = "RUNNING" THEN [@ EXCEPT !.status = status, !.log = log] ELSE @]
  IN \/ Ended /\ NoFault
     \/ Ended /\ Fault(r)
     \/ Fault(r) /\ UNCHANGED attempts

\* Mutant of Succeed: a result whose attempt could not be closed is withdrawn.
SucceedOrWithdraw(r) ==
  /\ job[r].at = "finish"
  /\ Finish(r, "SUCCEEDED", job[r].log)
  /\ IF faults' = faults THEN Reply(r, "success") /\ UNCHANGED files
     ELSE Reply(r, "retryable") /\ files' = files \ {r}
  /\ UNCHANGED <<metrics, logs, scraps, calls>>

\* The result is durable: it is answered whatever becomes of the tracking.
Succeed(r) ==
  /\ job[r].at = "finish"
  /\ Finish(r, "SUCCEEDED", job[r].log)
  /\ Reply(r, "success")
  /\ UNCHANGED <<metrics, logs, files, scraps, calls>>

\* finish_tracking_failure, best effort, and the error of the stage.
Fail(r) ==
  /\ job[r].at = "failing"
  /\ Finish(r, "FAILED", 0)
  /\ Reply(r, job[r].answer)
  /\ UNCHANGED <<metrics, logs, files, scraps, calls>>

\* The process dies, or reloads: the request is never answered.
Crash(r) ==
  /\ r \in Active /\ Fault(r)
  /\ job' = [job EXCEPT ![r].at = "dead"]
  /\ UNCHANGED <<store, calls>>

-----------------------------------------------------------------------------
HandlerStep(r) ==
  \/ StartAttempt(r) \/ ReadExisting(r) \/ Replay(r) \/ Retrieve(r)
  \/ CallProvider(r) \/ CallLegacy(r) \/ RecordMetric(r) \/ PersistImage(r)
  \/ InsertLog(r) \/ InsertLegacy(r) \/ Cleanup(r) \/ Succeed(r) \/ Fail(r)

Next == \E r \in Requests :
  \/ \E m \in Modes, k \in Keys \cup {None} : Receive(r, m, k)
  \/ ReceiveLegacy(r)
  \/ HandlerStep(r)
  \/ Crash(r)

Spec == Init /\ [][Next]_vars

\* A handler that has begun runs on: it never waits for another one.
FairSpec == Spec /\ \A r \in Requests : WF_vars(HandlerStep(r))

-----------------------------------------------------------------------------
(* Properties.                                                              *)

TypeOK ==
  /\ attempts \in [Requests -> Attempt]
  /\ metrics \subseteq Requests \X Stages
  /\ logs \in Seq(Requests)
  /\ files \subseteq Requests /\ scraps \subseteq Requests
  /\ job \in [Requests -> Job]
  /\ calls \in [Requests -> Nat]
  /\ faulty \subseteq Requests /\ faults \in Nat

\* However often a request is sent again under its Idempotency-Key, while it
\* runs or after it failed, at most one of them pays for provider calls.
OneGenerationPerKey ==
  \A r, q \in Requests :
    /\ job[r].key # None /\ job[r].key = job[q].key
    /\ calls[r] > 0 /\ calls[q] > 0
    => r = q

\* A success is durable: the log row that it names exists, its file is
\* complete, and the row was written for this request or, under the same
\* key, for the same brief.
SuccessIsDurable ==
  \A r \in Requests : job[r].answer = "success" =>
    /\ job[r].log \in DOMAIN logs
    /\ LET writer == logs[job[r].log]
       IN /\ writer \in files
          /\ writer # r => /\ job[writer].key = job[r].key
                           /\ job[writer].mode = job[r].mode

StagesOf(mode) == IF mode = "edited" THEN {"text", "reference", "edit"} ELSE {"text", "image"}

\* What the quality report counts as a success is one: an attempt SUCCEEDED
\* names a log row of its own request and has a metric of each of its calls.
SucceededIsComplete ==
  \A r \in Requests : attempts[r].status = "SUCCEEDED" =>
    /\ attempts[r].log \in DOMAIN logs /\ logs[attempts[r].log] = r
    /\ \A s \in StagesOf(attempts[r].mode) : <<r, s>> \in metrics

\* Every attempt ends unless a fault met its handler.
AttemptsEnd ==
  \A r \in Requests :
    attempts[r].status = "RUNNING" ~> (attempts[r].status # "RUNNING" \/ r \in faulty)
=============================================================================
