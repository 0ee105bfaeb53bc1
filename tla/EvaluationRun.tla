---------------------------- MODULE EvaluationRun ---------------------------
(***************************************************************************)
(* One run folder of the Round 17C evaluation harness: generation of two   *)
(* arms, four paid judge jobs, and the commands that resume a run whose    *)
(* judging failed.                                                         *)
(*                                                                         *)
(* An operator starts one command at a time and any of them may die        *)
(* between two files.  A fresh run always makes a folder of its own, so    *)
(* the model follows one folder from its creation on; a command that is    *)
(* refused before its first effect is left out.                            *)
(*                                                                         *)
(* A command is a script: the files it writes, in order, and its seal.     *)
(* The files that always come together count as one.                       *)
(***************************************************************************)
EXTENDS Naturals, Sequences

CONSTANTS
  MaxCommands,  \* bound on the commands of the operator
  MaxDeaths,    \* bound on the commands that die
  JudgeAnswers, \* what the four jobs may answer
  None          \* no value

VARIABLES
  disk,      \* the files of the folder
  sealed,    \* what each seal lists
  script,    \* the running command
  at,        \* the file of its script it is about to write
  answers,   \* the judge answers it holds
  cli,       \* promptfoo-resume-endpoint-fixed-cli-results.json
  raw,       \* the raw answers a script has recorded
  report,    \* the report a script has written
  paid,      \* times each script had the four jobs judged
  qwen,      \* requests of the generation
  executor,  \* "real", or the "injected" one of the tests
  commands,  \* commands started
  deaths     \* commands that died

evaluationVars ==
  <<disk, sealed, script, at, answers, cli, raw, report, paid, qwen, executor, commands, deaths>>

Run(f)        == <<"run", f>>
Generation(f) == <<"generation", f>>
Evaluation(f) == <<"evaluation", f>>
AttemptV2(f)  == <<"judge-attempt-v2", f>>

Script ==
  [blocked  |-> <<Run("manifest"), Run("brief"), Run("frozen-evidence"), Run("normalized-report")>>,
   generate |-> <<Generation("frozen-evidence"), Generation("baseline-result"),
                  Generation("guided-plan"), Generation("guided-result")>>,
   evaluate |-> <<Evaluation("promptfoo-results"), Evaluation("judge-raw-results"),
                  Evaluation("judge-parsed-results"), Evaluation("normalized-report"),
                  Evaluation("evaluation-seal"), Run("manifest")>>,
   failed   |-> <<Generation("model-error"), Run("unsealed-failure"), Run("manifest")>>,
   resume   |-> <<Evaluation("promptfoo-resume-finalized-v2-results"),
                  Evaluation("judge-raw-results-finalized"),
                  Evaluation("judge-parsed-results-finalized"),
                  Evaluation("normalized-report"), Run("resume-manifest")>>,
   v2       |-> <<AttemptV2("promptfoo-results"), AttemptV2("judge-raw-results"),
                  AttemptV2("judge-parsed-results"), AttemptV2("normalized-report"),
                  Run("resume-v2-manifest")>>]

Seal ==
  [blocked  |-> Run("sha256sums"), evaluate |-> Run("run-seal"), failed |-> Run("run-seal"),
   resume   |-> Run("resume-final-seal"), v2 |-> Run("resume-v2-final-seal")]

GenerationSeal  == Generation("generation-seal")
PostsummarySeal == Run("resume-v2-postsummary-seal")
Seals == {Seal[s] : s \in DOMAIN Seal} \cup {GenerationSeal, PostsummarySeal}

(* Every file the folder may hold.                                           *)
Files ==
  (UNION {{Script[s][i] : i \in DOMAIN Script[s]} : s \in DOMAIN Script})
    \cup Seals
    \cup {Generation("brief"), Generation("judge-inputs"), Generation("qwen-request-events"),
          Evaluation("judge-prompt-manifest"), AttemptV2("folder")}

Judging  == {"evaluate", "resume", "v2"}  \* scripts that need the four jobs
Pairwise == {"candidate_0", "candidate_1", "unclear", "unparsed"}

(* What the four jobs answered.  The two individual jobs only count as       *)
(* valid or not; "missing" is an artifact without exactly one row per job.   *)
Answers ==
  [individual : {"valid", "unparsed"}, ab : Pairwise, ba : Pairwise]
    \cup {[individual |-> "missing", ab |-> "unparsed", ba |-> "unparsed"]}

ASSUME EvaluationRunAssumption ==
  MaxCommands \in Nat /\ MaxDeaths \in Nat /\ JudgeAnswers \subseteq Answers

EvaluationInit ==
  /\ disk = {}
  /\ sealed = [s \in Seals |-> {}]
  /\ script = "idle" /\ at = 1
  /\ answers = None /\ cli = None
  /\ raw = [s \in Judging |-> None]
  /\ report = [s \in Judging |-> None]
  /\ paid = [s \in Judging |-> 0]
  /\ qwen = 0
  /\ executor \in {"real", "injected"}
  /\ commands = 0 /\ deaths = 0

Goto(s, n) == script' = s /\ at' = n
Stop       == Goto("idle", 1)

(* Start of a command, once the operator's earlier one is over. *)
Command ==
  /\ script = "idle" /\ commands < MaxCommands
  /\ commands' = commands + 1
  /\ UNCHANGED <<sealed, raw, report, paid, qwen, executor, deaths>>

----------------------------------------------------------------------------
(* The fresh run.                                                            *)

\* Without --real, the authorization flag or a key.
CreateBlockedRun ==
  /\ Command
  /\ disk = {}
  /\ Goto("blocked", 1)
  /\ UNCHANGED <<disk, answers, cli>>

ExecuteRound17c ==
  /\ Command
  /\ disk = {}
  /\ disk' = {Generation("brief")}
  /\ Goto("generate", 1)
  /\ UNCHANGED <<answers, cli>>

\* Usage limits of the agents by stage; an injected client may pass them.
RequestLimit(stage) == IF executor = "injected" THEN 2 ELSE <<0, 1, 2, 1>>[stage]

\* Requests on the wire are only logged by the real client.
FailRun ==
  Goto("failed", IF executor = "real" /\ qwen' > 0 THEN 1 ELSE 2)

(* A stage answers: freeze_evidence without a model, the others after at     *)
(* least one request.                                                        *)
GenerationStage ==
  /\ script = "generate" /\ at <= Len(Script.generate)
  /\ \E n \in (IF at = 1 THEN {0} ELSE 1..RequestLimit(at)) : qwen' = qwen + n
  /\ disk' = disk \cup {Script.generate[at]}
  /\ Goto("generate", at + 1)
  /\ UNCHANGED <<sealed, answers, cli, raw, report, paid, executor, commands, deaths>>

(* It fails: invalid brief, no answer, no skill loaded, invalid citations.   *)
StageFails ==
  /\ script = "generate" /\ at <= Len(Script.generate)
  /\ \E n \in (IF executor = "injected" THEN {0} ELSE 0..RequestLimit(at)) : qwen' = qwen + n
  /\ FailRun
  /\ UNCHANGED <<disk, sealed, answers, cli, raw, report, paid, executor, commands, deaths>>

QwenBudget == 5

OverBudget ==
  /\ script = "generate" /\ at > Len(Script.generate) /\ qwen > QwenBudget
  /\ UNCHANGED qwen
  /\ FailRun
  /\ UNCHANGED <<disk, sealed, answers, cli, raw, report, paid, executor, commands, deaths>>

InGeneration(files) == {f \in files : f[1] = "generation"}

\* judge-inputs, the events so far, and the seal of the generation folder.
SealGeneration ==
  /\ script = "generate" /\ at > Len(Script.generate) /\ qwen <= QwenBudget
  /\ LET inputs == disk \cup {Generation("judge-inputs"), Generation("qwen-request-events")}
     IN  /\ disk' = inputs \cup {GenerationSeal, Evaluation("judge-prompt-manifest")}
         /\ sealed' = [sealed EXCEPT ![GenerationSeal] = InGeneration(inputs)]
  /\ Goto("evaluate", 0)
  /\ UNCHANGED <<answers, cli, raw, report, paid, qwen, executor, commands, deaths>>

----------------------------------------------------------------------------
(* Judging: a subprocess sends the four jobs, then the parent reads the file  *)
(* it left.  An answer of None is a subprocess that leaves no file.          *)

Judge(s) ==
  /\ script = s /\ at = 0
  /\ paid' = [paid EXCEPT ![s] = @ + 1]
  /\ UNCHANGED <<disk, sealed, raw, report, qwen, executor, commands, deaths>>

JudgeFreshRun ==
  /\ Judge("evaluate")
  /\ \E a \in JudgeAnswers \cup {None}, ok \in BOOLEAN :
       IF a # None /\ (ok \/ executor = "injected")
       THEN answers' = a /\ Goto("evaluate", 1)
       ELSE answers' = None /\ FailRun
  /\ UNCHANGED cli

\* A file left by an earlier resume is taken when this one leaves none.
JudgeResume ==
  /\ Judge("resume")
  /\ \E a \in JudgeAnswers \cup {None}, ok \in BOOLEAN :
       /\ cli' = IF a = None THEN cli ELSE a
       /\ IF cli' # None /\ ok
          THEN answers' = cli' /\ Goto("resume", 1)
          ELSE answers' = None /\ Stop

\* allow_nonzero: the exit code is only recorded.
JudgeV2 ==
  /\ Judge("v2")
  /\ \E a \in JudgeAnswers \cup {None} :
       answers' = a /\ IF a = None THEN Stop ELSE Goto("v2", 1)
  /\ UNCHANGED cli

(* An order names the arm its winner stands for.                             *)
CandidateMapping ==
  [ab |-> [candidate_0 |-> "baseline", candidate_1 |-> "skill_guided"],
   ba |-> [candidate_0 |-> "skill_guided", candidate_1 |-> "baseline"]]

NoWinner(validity) == [validity |-> validity, winner |-> None]

AssessPairwiseConsistency(ab, ba) ==
  CASE ab = ba -> NoWinner("inconclusive_position_bias")
    [] CandidateMapping.ab[ab] # CandidateMapping.ba[ba] -> NoWinner("evaluation_inconclusive")
    [] OTHER -> [validity |-> "comparable", winner |-> CandidateMapping.ab[ab]]

\* Mutant of NormalizeJudgeResults: the individual jobs need not be valid.
NormalizePairwiseOnly(a) ==
  CASE "unclear" \in {a.ab, a.ba} -> NoWinner("judge_inconsistent")
    [] "unparsed" \in {a.ab, a.ba} -> NoWinner("judge_parse_error")
    [] OTHER -> AssessPairwiseConsistency(a.ab, a.ba)

NormalizeJudgeResults(a) ==
  CASE "unclear" \in {a.ab, a.ba} -> NoWinner("judge_inconsistent")
    [] "unparsed" \in {a.individual, a.ab, a.ba} -> NoWinner("judge_parse_error")
    [] OTHER -> AssessPairwiseConsistency(a.ab, a.ba)

(* extract_promptfoo_jobs looks for the rows one level down.  The fresh run  *)
(* wraps the artifact once more, which only suits the injected executor; the *)
(* commands that resume hand it over as it is.                               *)
Extracts ==
  /\ answers.individual # "missing"
  /\ script = "evaluate" => executor = "injected"

----------------------------------------------------------------------------
(* Writing the script's files and its seal.                                  *)

\* What stops a script at its next file, besides the file being there.
CanWrite ==
  CASE script \in Judging /\ at = 2 -> Extracts
    [] script \in {"resume", "v2"} /\ at = 5 ->
         (IF script = "v2" THEN Run("resume-manifest") ELSE Run("manifest")) \in disk
    [] OTHER -> TRUE

Writing == script \in DOMAIN Seal /\ at \in 1..Len(Script[script])

\* Mutant of WriteNext: a file that is there is kept and the script goes on.
WriteNextOrSkip ==
  /\ Writing
  /\ LET file == Script[script][at]
     IN  /\ CanWrite
         /\ disk' = disk \cup {file}
         /\ raw' = IF script \in Judging /\ at = 2 /\ file \notin disk
                   THEN [raw EXCEPT ![script] = answers] ELSE raw
         /\ report' = IF script \in Judging /\ at = 4
                      THEN [report EXCEPT ![script] = NormalizeJudgeResults(answers)] ELSE report
  /\ Goto(script, at + 1)
  /\ UNCHANGED <<sealed, answers, cli, paid, qwen, executor, commands, deaths>>

\* _write_new and _atomic_json never replace a file; a fresh run finds none.
WriteNext ==
  /\ Writing
  /\ LET file == Script[script][at]
     IN  /\ file \notin disk /\ CanWrite
         /\ disk' = disk \cup {file}
                      \cup (IF file = Generation("model-error")
                            THEN {Generation("qwen-request-events")} ELSE {})
         /\ raw' = IF script \in Judging /\ at = 2 THEN [raw EXCEPT ![script] = answers] ELSE raw
         /\ report' = IF script \in Judging /\ at = 4
                      THEN [report EXCEPT ![script] = NormalizeJudgeResults(answers)] ELSE report
  /\ Goto(script, at + 1)
  /\ UNCHANGED <<sealed, answers, cli, paid, qwen, executor, commands, deaths>>

\* Mutant of WriteRefused: no exception is caught.
WriteRefusedUncaught ==
  /\ Writing
  /\ Script[script][at] \in disk \/ ~CanWrite
  /\ UNCHANGED <<disk, sealed, cli, raw, report, paid, qwen, executor, commands, deaths>>
  /\ answers' = None
  /\ Stop

\* An exception: the fresh run turns to its failure files, the others end.
WriteRefused ==
  /\ Writing
  /\ Script[script][at] \in disk \/ ~CanWrite
  /\ UNCHANGED <<disk, sealed, cli, raw, report, paid, qwen, executor, commands, deaths>>
  /\ answers' = None
  /\ IF script = "evaluate" THEN FailRun ELSE Stop

WriteSeal ==
  /\ script \in DOMAIN Seal /\ at > Len(Script[script])
  /\ disk' = disk \cup {Seal[script]}
  /\ sealed' = [sealed EXCEPT ![Seal[script]] = disk]
  /\ answers' = None
  /\ Stop
  /\ UNCHANGED <<cli, raw, report, paid, qwen, executor, commands, deaths>>

----------------------------------------------------------------------------
(* Commands on the folder of an earlier run.                                 *)

GenerationSealed == {GenerationSeal, Generation("judge-inputs")} \subseteq disk

\* Only the final seal shows that judging was resumed before.
Resume ==
  /\ Command
  /\ GenerationSealed
  /\ Seal["resume"] \notin disk
  /\ Goto("resume", 0)
  /\ UNCHANGED <<disk, answers, cli>>

\* --finalize-existing: the answers of the last resume, without its guards.
FinalizeExisting ==
  /\ Command
  /\ cli # None
  /\ answers' = cli
  /\ Goto("resume", 1)
  /\ UNCHANGED <<disk, cli>>

\* Mutant of ResumeV2: only the final seal shows the attempt.
ResumeV2BySeal ==
  /\ Command
  /\ GenerationSealed
  /\ Seal["v2"] \notin disk
  /\ disk' = disk \cup {AttemptV2("folder")}
  /\ Goto("v2", 0)
  /\ UNCHANGED <<answers, cli>>

\* The folder of the attempt is made before the jobs are paid for.
ResumeV2 ==
  /\ Command
  /\ GenerationSealed
  /\ AttemptV2("folder") \notin disk /\ Seal["v2"] \notin disk
  /\ disk' = disk \cup {AttemptV2("folder")}
  /\ Goto("v2", 0)
  /\ UNCHANGED <<answers, cli>>

ResealV2 ==
  /\ script = "idle" /\ commands < MaxCommands
  /\ disk # {} /\ PostsummarySeal \notin disk
  /\ commands' = commands + 1
  /\ disk' = disk \cup {PostsummarySeal}
  /\ sealed' = [sealed EXCEPT ![PostsummarySeal] = disk]
  /\ UNCHANGED <<script, at, answers, cli, raw, report, paid, qwen, executor, deaths>>

(* What the public page makes of the folder.  Its checksum file must list    *)
(* exactly the files it finds beside it; only a blocked run has that file.   *)
RunFiles == {f \in disk : f[1] = "run" /\ f # Seal["blocked"]}

Integrity ==
  /\ sealed[Seal["blocked"]] = RunFiles
  /\ {Run("manifest"), Run("normalized-report"), Run("brief"), Run("frozen-evidence")}
       \subseteq RunFiles

PublicRun ==
  IF {Run("manifest"), Run("normalized-report"), Seal["blocked"]} \subseteq disk
  THEN (IF Integrity THEN "verified" ELSE "failed")
  ELSE "unavailable"

\* The process dies between two files; nothing is cleaned up.
CommandDies ==
  /\ script # "idle" /\ deaths < MaxDeaths
  /\ deaths' = deaths + 1
  /\ answers' = None
  /\ Stop
  /\ UNCHANGED <<disk, sealed, cli, raw, report, paid, qwen, executor, commands>>

----------------------------------------------------------------------------
Work ==
  \/ GenerationStage \/ StageFails \/ OverBudget \/ SealGeneration
  \/ JudgeFreshRun \/ JudgeResume \/ JudgeV2
  \/ WriteNext \/ WriteRefused \/ WriteSeal

EvaluationNext ==
  \/ CreateBlockedRun \/ ExecuteRound17c
  \/ Resume \/ FinalizeExisting \/ ResumeV2 \/ ResealV2
  \/ Work
  \/ CommandDies

EvaluationSpec == EvaluationInit /\ [][EvaluationNext]_evaluationVars
FairSpec       == EvaluationSpec /\ WF_evaluationVars(Work)

----------------------------------------------------------------------------
(* Properties.                                                               *)

Reports == [validity : {"comparable", "inconclusive_position_bias", "evaluation_inconclusive",
                        "judge_inconsistent", "judge_parse_error"},
            winner : {"baseline", "skill_guided", None}]

EvaluationTypes ==
  /\ disk \subseteq Files /\ sealed \in [Seals -> SUBSET disk]
  /\ script \in DOMAIN Script \cup {"idle"} /\ at \in Nat
  /\ script \in DOMAIN Script => at <= Len(Script[script]) + 1
  /\ answers \in Answers \cup {None} /\ cli \in Answers \cup {None}
  /\ raw \in [Judging -> Answers \cup {None}]
  /\ report \in [Judging -> Reports \cup {None}]
  /\ paid \in [Judging -> Nat] /\ qwen \in Nat /\ executor \in {"real", "injected"}
  /\ commands \in 0..MaxCommands /\ deaths \in 0..MaxDeaths

(* The second judging attempt is paid for once in the life of a folder,      *)
(* whatever fails or dies on the way (resume_v2).                            *)
V2PaidOnce == paid["v2"] <= 1

(* The arm each order of the pair prefers. *)
Preferred(a) ==
  [ab |-> IF a.ab = "candidate_0" THEN "baseline" ELSE "skill_guided",
   ba |-> IF a.ba = "candidate_0" THEN "skill_guided" ELSE "baseline"]

(* A report names a winner only if the recorded answers are all valid and    *)
(* both orders of the pair prefer that arm, also when judging was resumed    *)
(* several times (round17c_judge, _finalize).                                *)
WinnerAgreed ==
  \A s \in Judging :
    report[s] # None /\ report[s].winner # None =>
      /\ raw[s] # None
      /\ raw[s].individual = "valid"
      /\ {raw[s].ab, raw[s].ba} \subseteq {"candidate_0", "candidate_1"}
      /\ Preferred(raw[s]) = [ab |-> report[s].winner, ba |-> report[s].winner]

(* A final seal certifies one whole judging: every file of the script is     *)
(* listed, over a sealed generation, and the report is the one these answers *)
(* give (_finalize, resume_v2, execute_round17c).  A folder that the public  *)
(* page calls verified is a blocked run: nothing was paid for in it, and no  *)
(* command touched it since its checksums (public_run).                      *)
FinalSealIsWhole ==
  /\ \A s \in Judging :
       Seal[s] \in disk /\ Run("unsealed-failure") \notin sealed[Seal[s]] =>
         /\ {Script[s][i] : i \in DOMAIN Script[s]} \cup {GenerationSeal} \subseteq sealed[Seal[s]]
         /\ raw[s] # None
         /\ report[s] = NormalizeJudgeResults(raw[s])
  /\ PublicRun = "verified" =>
       /\ qwen = 0 /\ \A s \in Judging : paid[s] = 0
       /\ disk = sealed[Seal["blocked"]] \cup {Seal["blocked"]} /\ script = "idle"

(* A fresh run that does not die ends with a seal, whether it completed or   *)
(* failed (execute_round17c).                                                *)
RunSealed ==
  script \in {"generate", "evaluate", "failed"} ~> (Run("run-seal") \in disk \/ deaths > 0)
=============================================================================
