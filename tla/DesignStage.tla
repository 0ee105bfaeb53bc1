----------------------------- MODULE DesignStage -----------------------------
(***************************************************************************)
(* The stages of the confirmation dialogue from the inside: what one       *)
(* request does between its claim and its answer                           *)
(* (backend/services/agent_dialogue_service.py and the stage services).    *)
(*                                                                         *)
(* DialogueSession has the races between requests; here one request runs   *)
(* at a time, as it does in one server process, and the model has what a   *)
(* stage writes and reads: the agent_steps rows, the evidence a text was   *)
(* written from, the errors and the provider calls.  A stage is a chain of *)
(* tools; each has a step row, opened before it works and closed after.    *)
(*                                                                         *)
(* Any transaction may raise, before it committed or after (the answer to  *)
(* the COMMIT is lost), and the process may die between two.               *)
(***************************************************************************)
EXTENDS Naturals, Sequences, FiniteSets

CONSTANTS
  Proposals,      \* briefs the model may answer, as normalized_brief
  Corpora,        \* what the corpus files may hold when they are read
  Relevance,      \* Relevance[topic][source]: the BM25 score, in steps of 1/2
  SourceCount,    \* EXPECTED_SOURCE_COUNT: 6 in the code
  MaxResults,     \* MAX_RESULTS: 3 in the code
  MinScore,       \* MIN_RELEVANCE_SCORE: 1.0
  AmbiguityGap,   \* AMBIGUITY_SCORE_GAP: 0.5
  RevisionLimit,  \* accepted revisions of the text: 4 in the code
  MaxRequests,    \* bound on requests
  MaxFaults,      \* bound on transactions that raise
  MaxCrashes,     \* bound on deaths of the process
  None            \* SQL NULL

VARIABLES
  session,     \* the agent_sessions row
  steps,       \* the agent_steps rows by ordinal
  handler,     \* the running request
  imageCalls,  \* requests to the image provider
  requests, faults, crashes,
  lostAcks     \* transactions that committed and raised

counters == <<imageCalls, requests, crashes>>
vars == <<session, steps, handler, counters, faults, lostAcks>>

Topics  == DOMAIN Relevance
Sources == 1..SourceCount
Sides   == {"front", "back", "side"}
Modes   == {"single_hero", "flat_front_back", "three_view"}

(* A brief is the topic and the presentation mode of its normalized_brief,    *)
(* the views it describes and whether its remaining fields are strings within *)
(* their limits, and the topic its understanding names.  Nothing compares the *)
(* two topics: the stages work with the first, the user reads the second.     *)
Brief ==
  [topic : Topics, mode : Modes \cup {"other"}, sides : SUBSET Sides, sound : BOOLEAN,
   understood : Topics]

(* A corpus is the sequence of documents its manifest lists.                 *)
Document == [source : Sources, category : Nat, intact : BOOLEAN]

(* The tools of a stage, in order; the last one ends it. *)
Tools ==
  [extracting_brief        |-> <<"brief_agent">>,
   generating_product_text |-> <<"retrieve_cultural_evidence", "select_text_skill",
                                 "generate_product_text">>,
   building_visual_prompt  |-> <<"select_visual_skill", "build_visual_prompt">>,
   generating_image        |-> <<"generate_product_image">>]

Stages == DOMAIN Tools

ToolNames == UNION {{Tools[stage][i] : i \in DOMAIN Tools[stage]} : stage \in Stages}

(* What the stages store, and where a request may be in its stage.           *)
Codes    == {"MODEL_TIMEOUT", "MODEL_UNAVAILABLE", "OUTPUT_INVALID", "VISUAL_PROMPT_OUTPUT_INVALID",
             "AGENT_IMAGE_GENERATION_FAILED", "AGENT_IMAGE_PERSISTENCE_FAILED",
             "AGENT_PERSISTENCE_UNAVAILABLE"}
Drafts   == [grounded : BOOLEAN, cites : SUBSET Sources, evidence : SUBSET Sources, blank : BOOLEAN]
Packages == [mode : Modes, sources : SUBSET Sources]
Images   == [image : Nat]
Finals   == [image : Images, grounded : BOOLEAN, cites : SUBSET Sources]
Errors   == [code : Codes, retryable : BOOLEAN, stage : Stages]
Statuses == Stages \cup {"created", "waiting_brief_confirmation", "waiting_text_feedback",
                         "waiting_image_confirmation", "completed", "failed"}
Locations == {"idle", "open", "work", "close", "edit", "persist", "finish",
              "failStep", "failSession", "recordImage"}

ASSUME StageAssumption ==
  /\ Proposals \subseteq Brief
  /\ \A c \in Corpora : c \in Seq(Document)
  /\ SourceCount \in Nat /\ Relevance \in [Topics -> [Sources -> Nat]]
  /\ {MaxResults, MinScore, AmbiguityGap} \subseteq Nat \ {0}
  /\ {RevisionLimit, MaxRequests, MaxFaults, MaxCrashes} \subseteq Nat
  /\ None \notin Brief \cup Drafts \cup Packages \cup Images \cup Finals \cup Errors \cup Stages

(* What the tools of a stage hand on: the sources retrieved, and the brief,  *)
(* draft, package or image it ends with.                                     *)
Idle == [at |-> "idle", stage |-> None, tool |-> 0, revision |-> FALSE,
         evidence |-> {}, out |-> None, error |-> None]

Init ==
  /\ session = [status |-> "created", brief |-> None, draft |-> None, package |-> None,
                final |-> None, orphan |-> None, revisions |-> 0, error |-> None]
  /\ steps = <<>>
  /\ handler = Idle
  /\ imageCalls = 0 /\ requests = 0 /\ faults = 0 /\ lostAcks = 0 /\ crashes = 0

Goto(where) == handler' = [handler EXCEPT !.at = where]
Hand(field, value, where) == handler' = [handler EXCEPT ![field] = value, !.at = where]
End == handler' = Idle

Tool == Tools[handler.stage][handler.tool]

(* A transaction commits, raises before its commit, or commits and raises.   *)
Transaction(write, answered, raised) ==
  \/ /\ write /\ answered
     /\ UNCHANGED <<faults, lostAcks>>
  \/ /\ faults < MaxFaults /\ faults' = faults + 1
     /\ raised
     /\ \/ UNCHANGED <<session, steps, lostAcks>>
        \/ write /\ lostAcks' = lostAcks + 1

Write(newSession, newSteps) == session' = newSession /\ steps' = newSteps

-----------------------------------------------------------------------------
(* Errors: code, whether the client may retry, and the stage.               *)

Error(code, retryable) == [code |-> code, retryable |-> retryable, stage |-> handler.stage]

\* What _request_text and the validation of its answer end in.
ModelErrors ==
  {Error("MODEL_TIMEOUT", TRUE), Error("MODEL_UNAVAILABLE", TRUE), Error("OUTPUT_INVALID", FALSE)}

(* An exception inside the try of a stage.  The image stage records step and *)
(* session in one transaction, the others one after the other.               *)
Raise(error) ==
  Hand("error", error, IF handler.stage = "generating_image" THEN "recordImage" ELSE "failStep")

\* What a transaction inside the try raises, as the stage reports it.
StoreError ==
  CASE handler.stage = "building_visual_prompt" -> Error("VISUAL_PROMPT_OUTPUT_INVALID", FALSE)
    [] handler.stage = "generating_image" -> Error("AGENT_IMAGE_PERSISTENCE_FAILED", FALSE)
    [] OTHER -> Error("AGENT_PERSISTENCE_UNAVAILABLE", TRUE)

-----------------------------------------------------------------------------
(* Requests of the client, up to the claim of the stage.  A request that is  *)
(* refused changes nothing and is left out.                                  *)

Enter(stage, revision) ==
  handler' = [Idle EXCEPT !.at = "open", !.stage = stage, !.tool = 1, !.revision = revision]

Request(status, stage, revision) ==
  /\ handler.at = "idle" /\ requests < MaxRequests
  /\ session.status = status
  /\ requests' = requests + 1
  /\ Transaction(Write([session EXCEPT !.status =
                          IF status = "waiting_brief_confirmation" /\ revision THEN @ ELSE stage],
                       steps),
                 Enter(stage, revision), UNCHANGED handler)
  /\ UNCHANGED <<imageCalls, crashes>>

\* append_user_message; a session that a failure left extracting takes a new
\* message as the first one.
AppendMessage ==
  \/ Request("created", "extracting_brief", FALSE)
  \/ Request("extracting_brief", "extracting_brief", FALSE)
  \/ Request("waiting_brief_confirmation", "extracting_brief", TRUE)
  \/ /\ session.revisions < RevisionLimit
     /\ Request("waiting_text_feedback", "generating_product_text", TRUE)

ConfirmBrief           == Request("waiting_brief_confirmation", "generating_product_text", FALSE)
ConfirmProductText     == Request("waiting_text_feedback", "building_visual_prompt", FALSE)
ConfirmImageGeneration == Request("waiting_image_confirmation", "generating_image", FALSE)

SubmitDecision == ConfirmBrief \/ ConfirmProductText \/ ConfirmImageGeneration

-----------------------------------------------------------------------------
(* Steps of a stage.                                                         *)

Last == Len(steps)

\* append_step, outside the try, after the read of the session.
OpenStep ==
  /\ handler.at = "open"
  /\ Transaction(Write(session, Append(steps,
                   [stage |-> handler.stage, tool |-> Tool, status |-> "running", error |-> None])),
                 Goto("work"), End)
  /\ UNCHANGED counters

\* finish_step of a tool that does not end its stage, outside the try.
FinishStep ==
  /\ handler.at = "close"
  /\ Transaction(Write(session, [steps EXCEPT ![Last].status = "completed"]),
                 handler' = [handler EXCEPT !.at = "open", !.tool = @ + 1], End)
  /\ UNCHANGED counters

(* The transaction that ends a stage; the status it expects is the one that  *)
(* its own request left.                                                     *)
BriefFinished(brief) ==
  [session EXCEPT !.brief = brief, !.status = "waiting_brief_confirmation"]

ProductTextFinished(draft) ==
  [session EXCEPT !.draft = draft, !.status = "waiting_text_feedback", !.error = None,
                  !.revisions = IF handler.revision THEN @ + 1 ELSE @]

VisualPromptFinished(package) ==
  [session EXCEPT !.package = package, !.status = "waiting_image_confirmation"]

ImageFinished(image) ==
  [session EXCEPT !.status = "completed", !.error = None,
                  !.final = [image |-> image, grounded |-> session.draft.grounded,
                             cites |-> session.draft.cites]]

Finished ==
  CASE handler.stage = "extracting_brief" -> BriefFinished(handler.out)
    [] handler.stage = "generating_product_text" -> ProductTextFinished(handler.out)
    [] handler.stage = "building_visual_prompt" -> VisualPromptFinished(handler.out)
    [] handler.stage = "generating_image" -> ImageFinished(handler.out)

FinishStage ==
  /\ handler.at = "finish"
  /\ Transaction(Write(Finished, [steps EXCEPT ![Last].status = "completed"]),
                 End, Raise(StoreError))
  /\ UNCHANGED counters

\* Mutant of Failed: every step of the stage is marked, not the one that failed.
FailedStage(error) ==
  [i \in 1..Last |-> IF steps[i].stage = handler.stage
                     THEN [steps[i] EXCEPT !.status = "failed", !.error = error] ELSE steps[i]]

Failed(error) == [steps EXCEPT ![Last].status = "failed", ![Last].error = error]

\* Mutant of FailStep: a step that cannot be marked does not keep the session
\* from being failed.
FailStepBestEffort ==
  /\ handler.at = "failStep"
  /\ Transaction(Write(session, Failed(handler.error)), Goto("failSession"), Goto("failSession"))
  /\ UNCHANGED counters

FailStep ==
  /\ handler.at = "failStep"
  /\ Transaction(Write(session, Failed(handler.error)), Goto("failSession"), End)
  /\ UNCHANGED counters

\* A failed revision returns to the last text; it is refused when the revision
\* was stored after all.
ReturnToTextFeedback ==
  \/ /\ session.status = "generating_product_text"
     /\ Transaction(Write([session EXCEPT !.status = "waiting_text_feedback", !.error = handler.error],
                          steps), End, End)
  \/ /\ session.status # "generating_product_text"
     /\ End
     /\ UNCHANGED <<session, steps, faults, lostAcks>>

\* Any other failure ends the session, whatever its status.
MarkFailed ==
  Transaction(Write([session EXCEPT !.status = "failed", !.error = handler.error], steps), End, End)

FailSession ==
  /\ handler.at = "failSession"
  /\ IF handler.stage = "generating_product_text" /\ handler.revision
     THEN ReturnToTextFeedback ELSE MarkFailed
  /\ UNCHANGED counters

\* record_image_persistence_failure.
RecordImageFailure ==
  /\ handler.at = "recordImage"
  /\ \/ /\ session.status = "generating_image"
        /\ Transaction(Write([session EXCEPT !.status = "failed", !.error = handler.error,
                                             !.orphan = handler.out],
                             Failed(handler.error)), End, End)
     \/ /\ session.status # "generating_image"
        /\ End
        /\ UNCHANGED <<session, steps, faults, lostAcks>>
  /\ UNCHANGED counters

-----------------------------------------------------------------------------
(* The tools at work, inside the try unless a comment says otherwise.        *)

Working(tool) == handler.at = "work" /\ Tool = tool

\* _design_requirements: the views a presentation mode must describe.
RequiredSides(mode) ==
  CASE mode = "flat_front_back" -> {"back"} [] mode = "three_view" -> Sides [] OTHER -> {}

\* validate_proposal with validate_cultural_product_request.
ValidBrief(brief) == brief.mode \in Modes /\ RequiredSides(brief.mode) \subseteq brief.sides /\ brief.sound

\* BriefAgent._run.  A revision first reads the current brief.
ProposeBrief ==
  /\ Working("brief_agent")
  /\ \/ /\ \/ \E brief \in Proposals : ValidBrief(brief) /\ Hand("out", brief, "finish")
           \/ (\E brief \in Proposals : ~ValidBrief(brief)) /\ Raise(Error("OUTPUT_INVALID", FALSE))
           \/ \E error \in ModelErrors : Raise(error)
        /\ UNCHANGED faults
     \/ /\ handler.revision /\ faults < MaxFaults /\ faults' = faults + 1
        /\ Raise(StoreError)
  /\ UNCHANGED <<session, steps, lostAcks, counters>>

\* CorpusLoader.load: the corpus is used whole or not at all.
Whole(corpus) ==
  /\ Len(corpus) = SourceCount
  /\ \A i \in 1..Len(corpus) : corpus[i].intact
  /\ \A i, j \in 1..Len(corpus) : i # j =>
       corpus[i].source # corpus[j].source /\ corpus[i].category # corpus[j].category

\* BM25Retriever.search: the position of a document among the scored ones, equal
\* scores in document order.
Rank(corpus, score, i) ==
  Cardinality({j \in 1..Len(corpus) :
    LET Score(k) == score[corpus[k].source]
    IN Score(j) > Score(i) \/ (Score(j) = Score(i) /\ j < i)})

\* decide_query: the best documents that are good enough, or none when the two
\* best are too close to choose from.
DecideQuery(corpus, score) ==
  LET Position(i) == Rank(corpus, score, i)
      Qualified   == {i \in 1..Len(corpus) : Position(i) < MaxResults /\ score[corpus[i].source] >= MinScore}
      Ambiguous   == \E i, j \in Qualified :
                       /\ Position(i) = 0 /\ Position(j) = 1
                       /\ score[corpus[i].source] < score[corpus[j].source] + AmbiguityGap
  IN IF Ambiguous THEN {} ELSE {corpus[i].source : i \in Qualified}

\* retrieve_cultural_evidence, outside the try of the stage: every failure of
\* its own ends as no evidence.
RetrieveEvidence ==
  /\ Working("retrieve_cultural_evidence")
  /\ \E corpus \in Corpora :
       Hand("evidence", IF Whole(corpus) THEN DecideQuery(corpus, Relevance[session.brief.topic]) ELSE {}, "close")
  /\ UNCHANGED <<session, steps, faults, lostAcks, counters>>

\* Outside the try: a skill that cannot be read is replaced by the default one,
\* and that by a sentence.
SelectTextSkill ==
  /\ Working("select_text_skill")
  /\ Goto("close")
  /\ UNCHANGED <<session, steps, faults, lostAcks, counters>>

SelectVisualSkill ==
  /\ Working("select_visual_skill")
  /\ Goto("close")
  /\ UNCHANGED <<session, steps, faults, lostAcks, counters>>

\* What the text model may answer; blank: a field holds only white space, which
\* ProductDesignDraft accepts.
Answers == [grounded : BOOLEAN, cites : SUBSET Sources, blank : BOOLEAN]

\* Mutant of ValidAnswer: any citation will do.
AnyCitation(answer, evidence) == evidence = {} \/ (answer.grounded /\ answer.cites # {})

\* validate_draft: with evidence an answer must cite from it, without any it is
\* stored as creative work whatever it claims.
ValidAnswer(answer, evidence) ==
  evidence = {} \/ (answer.grounded /\ answer.cites # {} /\ answer.cites \subseteq evidence)

Draft(answer, evidence) ==
  [grounded |-> evidence # {}, cites |-> IF evidence = {} THEN {} ELSE answer.cites,
   evidence |-> evidence \cap answer.cites, blank |-> answer.blank]

GenerateText ==
  /\ Working("generate_product_text")
  /\ \/ \E answer \in Answers :
          /\ ValidAnswer(answer, handler.evidence)
          /\ Hand("out", Draft(answer, handler.evidence), "finish")
     \/ \E answer \in Answers :
          ~ValidAnswer(answer, handler.evidence) /\ Raise(Error("OUTPUT_INVALID", FALSE))
     \/ \E error \in ModelErrors : Raise(error)
  /\ UNCHANGED <<session, steps, faults, lostAcks, counters>>

\* Mutant of BuildPackage: the mode of the brief is not passed on.
BuildPackageSingle ==
  /\ Working("build_visual_prompt")
  /\ IF session.draft.blank
     THEN Raise(Error("VISUAL_PROMPT_OUTPUT_INVALID", FALSE))
     ELSE Hand("out", [mode |-> "single_hero", sources |-> session.draft.evidence], "finish")
  /\ UNCHANGED <<session, steps, faults, lostAcks, counters>>

\* build_image_prompt_package: from the confirmed brief and text.
BuildPackage ==
  /\ Working("build_visual_prompt")
  /\ IF session.draft.blank
     THEN Raise(Error("VISUAL_PROMPT_OUTPUT_INVALID", FALSE))
     ELSE Hand("out", [mode |-> session.brief.mode, sources |-> session.draft.evidence], "finish")
  /\ UNCHANGED <<session, steps, faults, lostAcks, counters>>

\* AIGCServiceError of an image request.
ImageFails == \E retryable \in BOOLEAN : Raise(Error("AGENT_IMAGE_GENERATION_FAILED", retryable))

Called(outcome) ==
  /\ imageCalls' = imageCalls + 1
  /\ outcome
  /\ UNCHANGED <<session, steps, faults, lostAcks, requests, crashes>>

\* AgentImageGenerationService.generate: one request for a single view, a
\* reference image and an edit of it for the other modes.
GenerateImage ==
  /\ Working("generate_product_image")
  /\ Called(ImageFails \/ Goto(IF session.package.mode = "single_hero" THEN "persist" ELSE "edit"))

EditReference == handler.at = "edit" /\ Called(ImageFails \/ Goto("persist"))

\* persist_generated_image; when it fails the address of the image is not kept.
PersistImage ==
  /\ handler.at = "persist"
  /\ \/ Hand("out", [image |-> imageCalls], "finish")
     \/ Raise(Error("AGENT_IMAGE_PERSISTENCE_FAILED", FALSE))
  /\ UNCHANGED <<session, steps, faults, lostAcks, counters>>

\* The process dies; no transaction is open between two steps.
Crash ==
  /\ handler.at # "idle" /\ crashes < MaxCrashes /\ crashes' = crashes + 1
  /\ End
  /\ UNCHANGED <<session, steps, imageCalls, requests, faults, lostAcks>>

Next ==
  \/ AppendMessage \/ SubmitDecision
  \/ OpenStep \/ FinishStep \/ FinishStage \/ FailStep \/ FailSession \/ RecordImageFailure
  \/ ProposeBrief \/ RetrieveEvidence \/ SelectTextSkill \/ SelectVisualSkill
  \/ GenerateText \/ BuildPackage \/ GenerateImage \/ EditReference \/ PersistImage
  \/ Crash

Spec == Init /\ [][Next]_vars

-----------------------------------------------------------------------------
(* What a client is shown of a session (project_agent_session_detail): of    *)
(* the brief what the model understood, of the final result not what it cites.*)

BriefShown == IF session.brief = None THEN None ELSE session.brief.understood

DesignShown ==
  IF session.draft = None THEN None
  ELSE [grounded |-> session.draft.grounded, cites |-> session.draft.cites,
        evidence |-> session.draft.evidence]

VisualShown == IF session.package = None THEN None ELSE session.package.mode

ErrorShown(error) ==
  IF error = None THEN None
  ELSE [code |-> error.code, retryable |-> error.retryable, stage |-> error.stage]

FinalShown ==
  IF session.final = None THEN None
  ELSE [image |-> session.final.image, grounded |-> session.final.grounded]

StepsShown ==
  [i \in 1..Len(steps) |-> [tool |-> steps[i].tool, status |-> steps[i].status,
                          error |-> ErrorShown(steps[i].error)]]

Detail ==
  [status |-> session.status, brief |-> BriefShown, design |-> DesignShown, visual |-> VisualShown,
   final |-> FinalShown, steps |-> StepsShown, error |-> ErrorShown(session.error)]

-----------------------------------------------------------------------------
(* Properties.                                                               *)

SessionRow ==
  [status : Statuses, brief : Brief \cup {None}, draft : Drafts \cup {None},
   package : Packages \cup {None}, final : Finals \cup {None}, orphan : Images \cup {None},
   revisions : 0..RevisionLimit, error : Errors \cup {None}]

StepRow ==
  [stage : Stages, tool : ToolNames, status : {"running", "completed", "failed"},
   error : Errors \cup {None}]

Running ==
  [at : Locations, stage : Stages \cup {None}, tool : Nat, revision : BOOLEAN,
   evidence : SUBSET Sources, error : Errors \cup {None},
   out : Brief \cup Drafts \cup Packages \cup Images \cup {None}]

\* The rows and the handler have the shapes the tables and the code give them.
TypeOK ==
  /\ session \in SessionRow
  /\ steps \in Seq(StepRow)
  /\ handler \in Running
  /\ {imageCalls, requests, faults, crashes, lostAcks} \subseteq Nat

\* A text that is shown as grounded cites at least one source, only sources that
\* are relevant enough to the normalized brief of the brief the user confirmed
\* (to the topic the user read only if the two agree), and shows each of them;
\* any other is creative work and cites nothing.  The visual direction and the
\* final result are those of the text.
GroundedCites ==
  /\ Detail.design # None =>
       /\ Detail.design.grounded <=> Detail.design.cites # {}
       /\ Detail.design.evidence = Detail.design.cites
       /\ \A source \in Detail.design.cites :
            /\ Relevance[session.brief.topic][source] >= MinScore
            /\ session.brief.topic = session.brief.understood =>
                 Relevance[Detail.brief][source] >= MinScore
  /\ session.package # None => session.package.sources = Detail.design.cites
  /\ Detail.final # None =>
       /\ session.final.cites = Detail.design.cites
       /\ Detail.final.grounded = Detail.design.grounded

\* An error a client is shown is the error of a failed step it is shown: it can
\* always be told where the session went wrong.
ErrorHasStep ==
  Detail.error # None =>
    \E i \in 1..Len(Detail.steps) :
      Detail.steps[i].status = "failed" /\ Detail.steps[i].error = Detail.error

\* A settled step keeps its outcome.  Only the newest step, whose completing
\* transaction committed without an answer, may turn from completed to failed.
SettledOnce ==
  [][\A i \in 1..Len(steps) : steps[i].status # "running" =>
       \/ steps'[i] = steps[i]
       \/ /\ i = Len(steps) /\ lostAcks > 0
          /\ steps[i].status = "completed" /\ steps'[i].status = "failed"]_vars

Price(mode) == IF mode = "single_hero" THEN 1 ELSE 2

\* The image of a session costs the provider requests of the mode the user was
\* shown with the visual direction, which is that of the brief: never more,
\* whatever failed or was repeated, and all of them for a result.
ProviderBudget ==
  /\ imageCalls > 0 => imageCalls <= Price(Detail.visual)
  /\ Detail.visual # None => Detail.visual = session.brief.mode
  /\ Detail.final # None => imageCalls = Price(Detail.visual)

=============================================================================
