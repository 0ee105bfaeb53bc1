-------------------------- MODULE DesignStageProofs --------------------------
(***************************************************************************)
(* Safety of the stages of the confirmation dialogue, for any briefs,      *)
(* corpora and relevance scores and any bounds on requests, faults and     *)
(* crashes.  The inductive invariant says where the session stands while a *)
(* request works for it (StatusInv), what is stored by then and what it    *)
(* was made from (ContentInv, OutInv), how many images have been paid for  *)
(* (CallInv), and which step is open or has failed (StepInv).              *)
(***************************************************************************)
EXTENDS DesignStage, TLAPS

(* The status a stage leaves when it is done. *)
Ended ==
  [extracting_brief        |-> "waiting_brief_confirmation",
   generating_product_text |-> "waiting_text_feedback",
   building_visual_prompt  |-> "waiting_image_confirmation",
   generating_image        |-> "completed"]

Failing == {"failStep", "failSession", "recordImage"}

\* A request is at a place of its stage.
PlaceInv ==
  handler.at # "idle" =>
    /\ handler.stage \in Stages /\ handler.tool \in 1..Len(Tools[handler.stage])
    /\ handler.at = "close" => handler.tool < Len(Tools[handler.stage])
    /\ handler.at \in {"failStep", "failSession"} => handler.stage # "generating_image"
    /\ handler.at \in {"edit", "persist", "recordImage"} => handler.stage = "generating_image"
    /\ handler.at \in Failing => handler.error \in Errors

\* The session is in the stage of the request; past it only when the transaction
\* that ended the stage raised, and before it only while a brief is revised.
StatusInv ==
  handler.at # "idle" =>
    /\ \/ session.status = handler.stage
       \/ /\ session.status = Ended[handler.stage]
          /\ \/ handler.at \in Failing
             \/ handler.stage = "extracting_brief"
    /\ /\ handler.stage = "generating_product_text" /\ handler.revision
       /\ session.status = "generating_product_text"
       => session.revisions < RevisionLimit
    /\ handler.stage = "generating_product_text" /\ handler.revision => session.draft # None

\* A draft cites what is relevant to the brief, and shows what it cites.
Cited(draft, brief) ==
  /\ draft.grounded <=> draft.cites # {}
  /\ draft.evidence = draft.cites
  /\ \A source \in draft.cites : Relevance[brief.topic][source] >= MinScore

\* What the session holds was made from what it held before.
ContentInv ==
  /\ session.status \notin {"created", "extracting_brief", "failed"} => session.brief # None
  /\ session.brief # None => ValidBrief(session.brief)
  /\ session.draft # None =>
       /\ session.brief # None /\ Cited(session.draft, session.brief)
       /\ session.status \notin {"created", "extracting_brief", "waiting_brief_confirmation"}
  /\ session.status \in {"waiting_text_feedback", "building_visual_prompt",
                         "waiting_image_confirmation", "generating_image", "completed"} =>
       session.draft # None
  /\ session.package # None =>
       /\ session.draft # None
       /\ session.package.mode = session.brief.mode
       /\ session.package.sources = session.draft.evidence
       /\ session.status \in {"waiting_image_confirmation", "generating_image", "completed", "failed"}
  /\ session.status \in {"waiting_image_confirmation", "generating_image", "completed"} =>
       session.package # None
  /\ session.final # None =>
       /\ session.status = "completed"
       /\ session.final.cites = session.draft.cites
       /\ session.final.grounded = session.draft.grounded

\* What a request hands to the transaction that ends its stage.
OutInv ==
  /\ handler.at # "idle" /\ handler.stage = "generating_product_text" =>
       \A source \in handler.evidence : Relevance[session.brief.topic][source] >= MinScore
  /\ handler.at # "idle" /\ handler.stage = "generating_image" => handler.out \in Images \cup {None}
  /\ handler.at = "finish" =>
       /\ handler.stage = "extracting_brief" => handler.out \in Brief /\ ValidBrief(handler.out)
       /\ handler.stage = "generating_product_text" =>
            handler.out \in Drafts /\ Cited(handler.out, session.brief)
       /\ handler.stage = "building_visual_prompt" =>
            handler.out = [mode |-> session.brief.mode, sources |-> session.draft.evidence]
       /\ handler.stage = "generating_image" => handler.out \in Images

\* No image was asked for before the visual direction was confirmed; from then
\* on the calls are those of the request that generates it.
CallInv ==
  /\ imageCalls > 0 => session.package # None /\ imageCalls <= Price(session.package.mode)
  /\ session.status = "waiting_image_confirmation" => imageCalls = 0
  /\ session.final # None => imageCalls = Price(session.package.mode)
  /\ handler.stage = "generating_image" =>
       /\ handler.at \in {"open", "work"} => imageCalls = 0
       /\ handler.at = "edit" => imageCalls = 1 /\ session.package.mode # "single_hero"
       /\ handler.at \in {"persist", "finish"} => imageCalls = Price(session.package.mode)

\* The newest step is the one the request works on.
StepInv ==
  /\ handler.at \in {"work", "close", "edit", "persist", "finish"} =>
       Last > 0 /\ steps[Last].status = "running"
  /\ handler.at \in {"failStep", "recordImage"} =>
       /\ Last > 0
       /\ \/ steps[Last].status = "running"
          \/ steps[Last].status = "completed" /\ lostAcks > 0
  /\ handler.at = "failSession" =>
       Last > 0 /\ steps[Last].status = "failed" /\ steps[Last].error = handler.error
  /\ session.error # None =>
       \E i \in 1..Last : steps[i].status = "failed" /\ steps[i].error = session.error

IInv == TypeOK /\ PlaceInv /\ StatusInv /\ ContentInv /\ OutInv /\ CallInv /\ StepInv

-----------------------------------------------------------------------------
(* Stages and their tools.                                                   *)

LEMMA StageNames ==
  Stages = {"extracting_brief", "generating_product_text", "building_visual_prompt",
            "generating_image"}
  BY DEF Stages, Tools

LEMMA ToolChains ==
  /\ Tools["extracting_brief"] = <<"brief_agent">>
  /\ Tools["generating_product_text"] =
       <<"retrieve_cultural_evidence", "select_text_skill", "generate_product_text">>
  /\ Tools["building_visual_prompt"] = <<"select_visual_skill", "build_visual_prompt">>
  /\ Tools["generating_image"] = <<"generate_product_image">>
  BY DEF Tools

\* A tool belongs to one stage; those that close a step are not its last.
LEMMA ToolStages ==
  ASSUME PlaceInv, handler.at # "idle"
  PROVE  /\ Tool \in ToolNames
         /\ Tool = "brief_agent" => handler.stage = "extracting_brief"
         /\ Tool \in {"retrieve_cultural_evidence", "select_text_skill"} =>
              handler.stage = "generating_product_text" /\ handler.tool < Len(Tools[handler.stage])
         /\ Tool = "generate_product_text" => handler.stage = "generating_product_text"
         /\ Tool = "select_visual_skill" =>
              handler.stage = "building_visual_prompt" /\ handler.tool < Len(Tools[handler.stage])
         /\ Tool = "build_visual_prompt" => handler.stage = "building_visual_prompt"
         /\ Tool = "generate_product_image" => handler.stage = "generating_image"
<1>1. /\ handler.stage \in Stages /\ handler.tool \in 1..Len(Tools[handler.stage])
      /\ Tool = Tools[handler.stage][handler.tool]
  BY DEF PlaceInv, Tool
<1>0. Tool \in ToolNames
  BY <1>1, ToolChains, StageNames DEF ToolNames
<1>2. CASE handler.stage = "extracting_brief"
  <2>1. handler.tool = 1
    BY <1>1, <1>2, ToolChains
  <2> QED
    BY <1>0, <1>1, <1>2, <2>1, ToolChains
<1>3. CASE handler.stage = "generating_product_text"
  <2>1. handler.tool \in 1..3 /\ Len(Tools[handler.stage]) = 3
    BY <1>1, <1>3, ToolChains
  <2>2. Tool = <<"retrieve_cultural_evidence", "select_text_skill", "generate_product_text">>[handler.tool]
    BY <1>1, <1>3, ToolChains
  <2> QED
    BY <1>0, <1>3, <2>1, <2>2
<1>4. CASE handler.stage = "building_visual_prompt"
  <2>1. handler.tool \in 1..2 /\ Len(Tools[handler.stage]) = 2
    BY <1>1, <1>4, ToolChains
  <2>2. Tool = <<"select_visual_skill", "build_visual_prompt">>[handler.tool]
    BY <1>1, <1>4, ToolChains
  <2> QED
    BY <1>0, <1>4, <2>1, <2>2
<1>5. CASE handler.stage = "generating_image"
  <2>1. handler.tool = 1
    BY <1>1, <1>5, ToolChains
  <2> QED
    BY <1>0, <1>1, <1>5, <2>1, ToolChains
<1> QED
  BY <1>1, <1>2, <1>3, <1>4, <1>5, StageNames

LEMMA IdleRecord ==
  /\ Idle \in Running /\ Idle.at = "idle" /\ Idle.stage = None /\ Idle.error = None
  /\ \A stage \in Stages, revision \in BOOLEAN :
       [Idle EXCEPT !.at = "open", !.stage = stage, !.tool = 1, !.revision = revision] \in Running
  BY DEF Idle, Running, Locations

LEMMA RaisedErrors ==
  ASSUME handler.stage \in Stages
  PROVE  /\ \A code \in Codes, retryable \in BOOLEAN : Error(code, retryable) \in Errors
         /\ StoreError \in Errors /\ ModelErrors \subseteq Errors
<1>1. \A code \in Codes, retryable \in BOOLEAN : Error(code, retryable) \in Errors
  BY DEF Error, Errors
<1>2. StoreError \in Errors
  BY <1>1 DEF StoreError, Codes
<1>3. ModelErrors \subseteq Errors
  BY <1>1 DEF ModelErrors, Codes
<1> QED
  BY <1>1, <1>2, <1>3

\* What the handler is after an exception inside the try.
LEMMA RaiseMoves ==
  ASSUME handler \in Running, handler.stage \in Stages, NEW error \in Errors, Raise(error)
  PROVE  /\ handler' \in Running
         /\ handler' = [handler EXCEPT !.error = error, !.at = handler'.at]
         /\ handler'.at = IF handler.stage = "generating_image" THEN "recordImage" ELSE "failStep"
  BY DEF Raise, Hand, Running, Locations

-----------------------------------------------------------------------------
(* Steps that only move the request.                                         *)

\* The request is given up, or the process dies: what is stored stays.
LEMMA GivenUp ==
  ASSUME IInv, handler' = Idle, UNCHANGED <<session, imageCalls>>,
         steps' \in Seq(StepRow), {requests', faults', crashes', lostAcks'} \subseteq Nat,
         session.error # None =>
           \E i \in 1..Len(steps') : steps'[i].status = "failed" /\ steps'[i].error = session.error
  PROVE  IInv'
<1> USE IdleRecord
<1>1. TypeOK'
  BY DEF IInv, TypeOK
<1>2. PlaceInv' /\ StatusInv' /\ OutInv'
  BY DEF PlaceInv, StatusInv, OutInv
<1>3. ContentInv'
  BY DEF IInv, ContentInv
<1>4. CallInv'
  BY StageAssumption, StageNames DEF IInv, CallInv
<1>5. StepInv'
  BY DEF IInv, StepInv, Last
<1> QED
  BY <1>1, <1>2, <1>3, <1>4, <1>5 DEF IInv

LEMMA CrashSafe == IInv /\ Crash => IInv'
<1> SUFFICES ASSUME IInv, Crash PROVE IInv'
  OBVIOUS
<1>1. /\ handler' = Idle /\ UNCHANGED <<session, imageCalls, steps>>
      /\ {requests', faults', crashes', lostAcks'} \subseteq Nat
  BY DEF IInv, TypeOK, Crash, End
<1>2. session.error # None =>
        \E i \in 1..Len(steps') : steps'[i].status = "failed" /\ steps'[i].error = session.error
  BY <1>1 DEF IInv, StepInv, Last
<1> QED
  BY <1>1, <1>2, GivenUp DEF IInv, TypeOK

\* A tool fails: its stage has the error of its own to record.
LEMMA ToolFails ==
  ASSUME IInv, NEW error \in Errors, Raise(error), UNCHANGED <<session, steps>>,
         handler.at \in {"work", "edit", "persist", "finish"},
         imageCalls' = imageCalls \/ imageCalls' = imageCalls + 1,
         imageCalls' = imageCalls + 1 =>
           /\ handler.stage = "generating_image"
           /\ handler.at = "work" \/ handler.at = "edit",
         {requests', faults', crashes'} \subseteq Nat, lostAcks' = lostAcks
  PROVE  IInv'
<1>1. handler.stage \in Stages /\ handler \in Running
  BY DEF IInv, TypeOK, PlaceInv
<1>2. /\ handler' \in Running
      /\ handler' = [handler EXCEPT !.error = error, !.at = handler'.at]
      /\ handler'.at = IF handler.stage = "generating_image" THEN "recordImage" ELSE "failStep"
  BY <1>1, RaiseMoves
<1>3. /\ handler'.stage = handler.stage /\ handler'.tool = handler.tool /\ handler'.error = error
      /\ handler'.evidence = handler.evidence /\ handler'.revision = handler.revision
      /\ handler'.out = handler.out
  BY <1>1, <1>2 DEF Running
<1>4. TypeOK'
  BY <1>2 DEF IInv, TypeOK
<1>5. PlaceInv'
  BY <1>2, <1>3 DEF IInv, PlaceInv, Failing
<1>6. StatusInv'
  BY <1>2, <1>3 DEF IInv, StatusInv, Failing
<1>7. ContentInv'
  BY DEF IInv, ContentInv
<1>8. OutInv'
  BY <1>2, <1>3 DEF IInv, OutInv
<1>9. CallInv'
  <2>1. CASE imageCalls' = imageCalls
    BY <2>1, <1>2, <1>3 DEF IInv, CallInv, TypeOK
  <2>2. CASE imageCalls' = imageCalls + 1
    <3>1. /\ session.status = "generating_image" /\ session.package # None /\ session.final = None
      BY <2>2, StageNames DEF IInv, StatusInv, ContentInv, Failing, Ended
    <3>2. imageCalls' <= Price(session.package.mode)
      BY <2>2 DEF IInv, CallInv, Price
    <3> QED
      BY <2>2, <1>2, <1>3, <3>1, <3>2 DEF CallInv
  <2> QED
    BY <2>1, <2>2
<1>10. StepInv'
  BY <1>2, <1>3 DEF IInv, StepInv, Last
<1> QED
  BY <1>4, <1>5, <1>6, <1>7, <1>8, <1>9, <1>10 DEF IInv

\* A tool has done its work and hands on what it found; only the image tools call
\* the provider.
LEMMA ToolWorks ==
  ASSUME IInv, UNCHANGED <<session, steps, lostAcks>>, handler.at \in {"work", "edit", "persist"},
         handler' \in Running, handler'.at \in {"close", "edit", "persist", "finish"},
         handler'.stage = handler.stage, handler'.tool = handler.tool,
         handler'.revision = handler.revision,
         handler'.at = "close" => handler.tool < Len(Tools[handler.stage]),
         handler'.at \in {"edit", "persist"} => handler.stage = "generating_image",
         {imageCalls', requests', faults', crashes'} \subseteq Nat,
         OutInv',
         imageCalls' = imageCalls \/ handler.stage = "generating_image",
         handler.stage = "generating_image" =>
           /\ imageCalls' <= Price(session.package.mode)
           /\ handler'.at = "edit" => imageCalls' = 1 /\ session.package.mode # "single_hero"
           /\ handler'.at \in {"persist", "finish"} => imageCalls' = Price(session.package.mode)
  PROVE  IInv'
<1>1. TypeOK'
  BY DEF IInv, TypeOK
<1>2. PlaceInv'
  BY DEF IInv, PlaceInv, Failing
<1>3. StatusInv'
  BY DEF IInv, StatusInv, Failing
<1>4. ContentInv'
  BY DEF IInv, ContentInv
<1>5. CallInv'
  <2>1. CASE handler.stage = "generating_image"
    <3>1. session.status = "generating_image" /\ session.package # None /\ session.final = None
      BY <2>1, StageNames DEF IInv, StatusInv, ContentInv, Failing, Ended
    <3> QED
      BY <2>1, <3>1 DEF CallInv
  <2>2. CASE handler.stage # "generating_image"
    BY <2>2 DEF IInv, CallInv
  <2> QED
    BY <2>1, <2>2
<1>6. StepInv'
  BY DEF IInv, StepInv, Last
<1> QED
  BY <1>1, <1>2, <1>3, <1>4, <1>5, <1>6 DEF IInv

LEMMA ProposeBriefSafe == IInv /\ ProposeBrief => IInv'
<1> SUFFICES ASSUME IInv, ProposeBrief PROVE IInv'
  OBVIOUS
<1> USE DEF counters
<1>1. /\ handler.at = "work" /\ handler.stage = "extracting_brief" /\ handler.stage \in Stages
      /\ handler \in Running /\ UNCHANGED <<session, steps, lostAcks, imageCalls>>
      /\ {requests', crashes'} \subseteq Nat
  BY ToolStages DEF IInv, TypeOK, PlaceInv, ProposeBrief, Working
<1>2. faults' \in Nat
  <2>1. faults \in Nat
    BY DEF IInv, TypeOK
  <2>2. faults' = faults \/ faults' = faults + 1
    BY DEF ProposeBrief
  <2> QED
    BY <2>1, <2>2
<1>3. ASSUME NEW brief \in Proposals, ValidBrief(brief), Hand("out", brief, "finish") PROVE IInv'
  <2>1. brief \in Brief
    BY StageAssumption
  <2>2. handler' = [handler EXCEPT !.out = brief, !.at = "finish"]
    BY <1>3 DEF Hand
  <2>3. handler' \in Running /\ handler'.at = "finish" /\ handler'.stage = handler.stage
        /\ handler'.tool = handler.tool /\ handler'.revision = handler.revision /\ handler'.out = brief
    BY <1>1, <2>1, <2>2 DEF Running, Locations
  <2>4. OutInv'
    BY <1>1, <1>3, <2>1, <2>3 DEF OutInv
  <2> QED
    BY <1>1, <1>2, <2>3, <2>4, ToolWorks DEF IInv, TypeOK
<1>4. ASSUME NEW error \in Errors, Raise(error) PROVE IInv'
  BY <1>1, <1>2, <1>4, ToolFails DEF IInv, TypeOK
<1>5. /\ Error("OUTPUT_INVALID", FALSE) \in Errors /\ StoreError \in Errors
      /\ ModelErrors \subseteq Errors
  BY <1>1, RaisedErrors DEF ModelErrors
<1>6. CASE Raise(Error("OUTPUT_INVALID", FALSE))
  BY <1>4, <1>5, <1>6
<1>7. CASE Raise(StoreError)
  BY <1>4, <1>5, <1>7
<1>8. CASE \E error \in ModelErrors : Raise(error)
  BY <1>4, <1>5, <1>8
<1> QED
  BY <1>3, <1>6, <1>7, <1>8 DEF ProposeBrief

LEMMA SelectSkillSafe == IInv /\ (SelectTextSkill \/ SelectVisualSkill) => IInv'
<1> SUFFICES ASSUME IInv, SelectTextSkill \/ SelectVisualSkill PROVE IInv'
  OBVIOUS
<1> USE DEF counters
<1>1. /\ handler.at = "work" /\ handler.stage # "generating_image"
      /\ handler.tool < Len(Tools[handler.stage]) /\ handler' = [handler EXCEPT !.at = "close"]
      /\ UNCHANGED <<session, steps, lostAcks, imageCalls, requests, crashes, faults>>
  BY ToolStages DEF IInv, TypeOK, PlaceInv, SelectTextSkill, SelectVisualSkill, Working, Goto
<1>2. handler' \in Running /\ handler'.at = "close" /\ handler'.stage = handler.stage
      /\ handler'.tool = handler.tool /\ handler'.revision = handler.revision
      /\ handler'.evidence = handler.evidence
  BY <1>1 DEF IInv, TypeOK, Running, Locations
<1>3. OutInv'
  BY <1>1, <1>2 DEF IInv, OutInv
<1> QED
  BY <1>1, <1>2, <1>3, ToolWorks DEF IInv, TypeOK

\* What the retriever decides on is relevant enough.
LEMMA DecidedIsRelevant ==
  ASSUME NEW corpus \in Seq(Document), NEW score
  PROVE  \A source \in DecideQuery(corpus, score) : source \in Sources /\ score[source] >= MinScore
<1>1. ASSUME NEW source \in DecideQuery(corpus, score)
      PROVE  \E i \in 1..Len(corpus) : source = corpus[i].source /\ score[corpus[i].source] >= MinScore
  BY <1>1 DEF DecideQuery
<1>2. \A i \in 1..Len(corpus) : corpus[i] \in Document
  OBVIOUS
<1>3. \A i \in 1..Len(corpus) : corpus[i].source \in Sources
  BY <1>2 DEF Document
<1> QED
  BY <1>1, <1>3

LEMMA RetrieveEvidenceSafe == IInv /\ RetrieveEvidence => IInv'
<1> SUFFICES ASSUME IInv, RetrieveEvidence PROVE IInv'
  OBVIOUS
<1> USE DEF counters
<1>1. /\ handler.at = "work" /\ handler.stage = "generating_product_text"
      /\ handler.tool < Len(Tools[handler.stage])
      /\ UNCHANGED <<session, steps, lostAcks, imageCalls, requests, crashes, faults>>
  BY ToolStages DEF IInv, TypeOK, PlaceInv, RetrieveEvidence, Working
<1>2. PICK corpus \in Corpora :
        Hand("evidence", IF Whole(corpus) THEN DecideQuery(corpus, Relevance[session.brief.topic]) ELSE {},
             "close")
  BY DEF RetrieveEvidence
<1> DEFINE evidence == IF Whole(corpus) THEN DecideQuery(corpus, Relevance[session.brief.topic]) ELSE {}
<1>3. \A source \in evidence :
        source \in Sources /\ Relevance[session.brief.topic][source] >= MinScore
  BY DecidedIsRelevant, StageAssumption
<1> HIDE DEF evidence
<1>4. handler' = [handler EXCEPT !.evidence = evidence, !.at = "close"]
  BY <1>2 DEF Hand, evidence
<1>5. handler' \in Running /\ handler'.at = "close" /\ handler'.stage = handler.stage
      /\ handler'.tool = handler.tool /\ handler'.revision = handler.revision
      /\ handler'.evidence = evidence
  BY <1>3, <1>4 DEF IInv, TypeOK, Running, Locations
<1>6. OutInv'
  BY <1>1, <1>3, <1>5 DEF OutInv
<1> QED
  BY <1>1, <1>5, <1>6, ToolWorks DEF IInv, TypeOK

\* A draft keeps to the evidence it was written from.
LEMMA DraftKeepsEvidence ==
  ASSUME NEW answer \in Answers, NEW evidence \in SUBSET Sources, ValidAnswer(answer, evidence),
         NEW brief, \A source \in evidence : Relevance[brief.topic][source] >= MinScore
  PROVE  Draft(answer, evidence) \in Drafts /\ Cited(Draft(answer, evidence), brief)
<1>1. answer.cites \in SUBSET Sources /\ answer.blank \in BOOLEAN
  BY DEF Answers
<1>2. CASE evidence = {}
  BY <1>1, <1>2 DEF Draft, Drafts, Cited
<1>3. CASE evidence # {}
  <2>1. answer.cites # {} /\ answer.cites \subseteq evidence
    BY <1>3 DEF ValidAnswer
  <2>2. evidence \cap answer.cites = answer.cites
    BY <2>1
  <2>3. Draft(answer, evidence) =
          [grounded |-> TRUE, cites |-> answer.cites, evidence |-> answer.cites, blank |-> answer.blank]
    BY <1>3, <2>2 DEF Draft
  <2> QED
    BY <1>1, <2>1, <2>3 DEF Drafts, Cited
<1> QED
  BY <1>2, <1>3

LEMMA GenerateTextSafe == IInv /\ GenerateText => IInv'
<1> SUFFICES ASSUME IInv, GenerateText PROVE IInv'
  OBVIOUS
<1> USE DEF counters
<1>1. /\ handler.at = "work" /\ handler.stage = "generating_product_text" /\ handler.stage \in Stages
      /\ handler \in Running
      /\ UNCHANGED <<session, steps, lostAcks, imageCalls, requests, crashes, faults>>
  BY ToolStages DEF IInv, TypeOK, PlaceInv, GenerateText, Working
<1>2. ASSUME NEW answer \in Answers, ValidAnswer(answer, handler.evidence),
             Hand("out", Draft(answer, handler.evidence), "finish")
      PROVE  IInv'
  <2> DEFINE draft == Draft(answer, handler.evidence)
  <2>1. /\ handler.evidence \in SUBSET Sources
        /\ \A source \in handler.evidence : Relevance[session.brief.topic][source] >= MinScore
    BY <1>1 DEF IInv, OutInv, Running
  <2>2. draft \in Drafts /\ Cited(draft, session.brief)
    BY <1>2, <2>1, DraftKeepsEvidence
  <2> HIDE DEF draft
  <2>3. handler' = [handler EXCEPT !.out = draft, !.at = "finish"]
    BY <1>2 DEF Hand, draft
  <2>4. handler' \in Running /\ handler'.at = "finish" /\ handler'.stage = handler.stage
        /\ handler'.tool = handler.tool /\ handler'.revision = handler.revision
        /\ handler'.out = draft /\ handler'.evidence = handler.evidence
    BY <1>1, <2>2, <2>3 DEF Running, Locations
  <2>5. OutInv'
    BY <1>1, <2>1, <2>2, <2>4 DEF OutInv
  <2> QED
    BY <1>1, <2>4, <2>5, ToolWorks DEF IInv, TypeOK
<1>3. ASSUME NEW error \in Errors, Raise(error) PROVE IInv'
  BY <1>1, <1>3, ToolFails DEF IInv, TypeOK
<1>4. /\ Error("OUTPUT_INVALID", FALSE) \in Errors /\ ModelErrors \subseteq Errors
  BY <1>1, RaisedErrors DEF ModelErrors
<1>5. CASE Raise(Error("OUTPUT_INVALID", FALSE))
  BY <1>3, <1>4, <1>5
<1>6. CASE \E error \in ModelErrors : Raise(error)
  BY <1>3, <1>4, <1>6
<1> QED
  BY <1>2, <1>5, <1>6 DEF GenerateText

LEMMA BuildPackageSafe == IInv /\ BuildPackage => IInv'
<1> SUFFICES ASSUME IInv, BuildPackage PROVE IInv'
  OBVIOUS
<1> USE DEF counters
<1>1. /\ handler.at = "work" /\ handler.stage = "building_visual_prompt" /\ handler.stage \in Stages
      /\ handler \in Running
      /\ UNCHANGED <<session, steps, lostAcks, imageCalls, requests, crashes, faults>>
  BY ToolStages DEF IInv, TypeOK, PlaceInv, BuildPackage, Working
<1>2. ASSUME NEW error \in Errors, Raise(error) PROVE IInv'
  BY <1>1, <1>2, ToolFails DEF IInv, TypeOK
<1>4. Error("VISUAL_PROMPT_OUTPUT_INVALID", FALSE) \in Errors
  BY <1>1, RaisedErrors DEF Codes
<1>5. CASE Raise(Error("VISUAL_PROMPT_OUTPUT_INVALID", FALSE))
  BY <1>2, <1>4, <1>5
<1> DEFINE package == [mode |-> session.brief.mode, sources |-> session.draft.evidence]
<1>3. CASE Hand("out", package, "finish")
  <2>1. /\ session.status = "building_visual_prompt" /\ session.draft \in Drafts
        /\ session.brief \in Brief /\ ValidBrief(session.brief)
    BY <1>1 DEF IInv, TypeOK, SessionRow, StatusInv, ContentInv, Failing, Ended
  <2>2. package \in Packages
    BY <2>1 DEF Packages, Drafts, ValidBrief
  <2>3. handler' = [handler EXCEPT !.out = package, !.at = "finish"]
    BY <1>3 DEF Hand
  <2> HIDE DEF package
  <2>4. handler' \in Running /\ handler'.at = "finish" /\ handler'.stage = handler.stage
        /\ handler'.tool = handler.tool /\ handler'.revision = handler.revision
        /\ handler'.out = package
    BY <1>1, <2>2, <2>3 DEF Running, Locations
  <2>5. OutInv'
    BY <1>1, <2>4 DEF OutInv, package
  <2> QED
    BY <1>1, <2>4, <2>5, ToolWorks DEF IInv, TypeOK
<1> QED
  BY <1>3, <1>5 DEF BuildPackage

\* Every mode costs one request or two.
LEMMA ImageToolsSafe == IInv /\ (GenerateImage \/ EditReference) => IInv'
<1> SUFFICES ASSUME IInv, GenerateImage \/ EditReference PROVE IInv'
  OBVIOUS
<1>1. /\ handler.at \in {"work", "edit"} /\ handler.stage = "generating_image"
      /\ handler.stage \in Stages /\ handler \in Running /\ imageCalls \in Nat
  BY ToolStages DEF IInv, TypeOK, PlaceInv, GenerateImage, EditReference, Working
<1>2. /\ imageCalls' = imageCalls + 1
      /\ UNCHANGED <<session, steps, faults, lostAcks, requests, crashes>>
  BY DEF GenerateImage, EditReference, Called
<1>3. ASSUME NEW error \in Errors, Raise(error) PROVE IInv'
  BY <1>1, <1>2, <1>3, ToolFails DEF IInv, TypeOK
<1>4. CASE ImageFails
  <2>1. PICK retryable \in BOOLEAN : Raise(Error("AGENT_IMAGE_GENERATION_FAILED", retryable))
    BY <1>4 DEF ImageFails
  <2>2. Error("AGENT_IMAGE_GENERATION_FAILED", retryable) \in Errors
    BY <1>1, RaisedErrors DEF Codes
  <2> QED
    BY <1>3, <2>1, <2>2
<1>5. ASSUME NEW where \in {"edit", "persist"}, Goto(where),
             where = "edit" => imageCalls' = 1 /\ session.package.mode # "single_hero",
             where = "persist" => imageCalls' = Price(session.package.mode)
      PROVE  IInv'
  <2>1. handler' = [handler EXCEPT !.at = where]
    BY <1>5 DEF Goto
  <2>2. handler' \in Running /\ handler'.at = where /\ handler'.stage = handler.stage
        /\ handler'.tool = handler.tool /\ handler'.revision = handler.revision
        /\ handler'.out = handler.out
    BY <1>1, <2>1 DEF Running, Locations
  <2>3. OutInv'
    BY <1>1, <2>2 DEF IInv, OutInv
  <2>4. imageCalls' <= Price(session.package.mode)
    BY <1>5 DEF Price
  <2> QED
    BY <1>1, <1>2, <1>5, <2>2, <2>3, <2>4, ToolWorks DEF IInv, TypeOK
<1>6. CASE Working("generate_product_image")
           /\ Goto(IF session.package.mode = "single_hero" THEN "persist" ELSE "edit")
  <2>1. imageCalls' = 1
    BY <1>1, <1>2, <1>6 DEF IInv, CallInv, Working
  <2>2. CASE session.package.mode = "single_hero"
    <3>1. Goto("persist")
      BY <1>6, <2>2
    <3>2. imageCalls' = Price(session.package.mode)
      BY <2>1, <2>2 DEF Price
    <3> QED
      BY <1>5, <3>1, <3>2
  <2>3. CASE session.package.mode # "single_hero"
    <3>1. Goto("edit")
      BY <1>6, <2>3
    <3> QED
      BY <1>5, <2>1, <2>3, <3>1
  <2> QED
    BY <2>2, <2>3
<1>7. CASE handler.at = "edit" /\ Goto("persist")
  <2>1. imageCalls = 1 /\ session.package.mode # "single_hero"
    BY <1>1, <1>7 DEF IInv, CallInv
  <2>2. imageCalls' = Price(session.package.mode)
    BY <1>2, <2>1 DEF Price
  <2> QED
    BY <1>5, <1>7, <2>2
<1> QED
  BY <1>4, <1>6, <1>7 DEF GenerateImage, EditReference, Called

LEMMA PersistImageSafe == IInv /\ PersistImage => IInv'
<1> SUFFICES ASSUME IInv, PersistImage PROVE IInv'
  OBVIOUS
<1> USE DEF counters
<1>1. /\ handler.at = "persist" /\ handler.stage = "generating_image" /\ handler.stage \in Stages
      /\ handler \in Running /\ imageCalls \in Nat
      /\ UNCHANGED <<session, steps, lostAcks, imageCalls, requests, crashes, faults>>
  BY StageNames DEF IInv, TypeOK, PlaceInv, PersistImage
<1>2. ASSUME NEW error \in Errors, Raise(error) PROVE IInv'
  BY <1>1, <1>2, ToolFails DEF IInv, TypeOK
<1>3. Error("AGENT_IMAGE_PERSISTENCE_FAILED", FALSE) \in Errors
  BY <1>1, RaisedErrors DEF Codes
<1>4. CASE Raise(Error("AGENT_IMAGE_PERSISTENCE_FAILED", FALSE))
  BY <1>2, <1>3, <1>4
<1> DEFINE image == [image |-> imageCalls]
<1>5. CASE Hand("out", image, "finish")
  <2>1. image \in Images
    BY <1>1 DEF Images
  <2>2. handler' = [handler EXCEPT !.out = image, !.at = "finish"]
    BY <1>5 DEF Hand
  <2> HIDE DEF image
  <2>3. handler' \in Running /\ handler'.at = "finish" /\ handler'.stage = handler.stage
        /\ handler'.tool = handler.tool /\ handler'.revision = handler.revision
        /\ handler'.out = image
    BY <1>1, <2>1, <2>2 DEF Running, Locations
  <2>4. OutInv'
    BY <1>1, <2>1, <2>3 DEF OutInv
  <2>5. imageCalls' = Price(session.package.mode)
    BY <1>1 DEF IInv, CallInv
  <2>6. imageCalls' <= Price(session.package.mode)
    BY <1>1, <2>5
  <2> QED
    BY <1>1, <2>3, <2>4, <2>5, <2>6, ToolWorks DEF IInv, TypeOK
<1> QED
  BY <1>4, <1>5 DEF PersistImage

-----------------------------------------------------------------------------
(* Steps that write: claims, step rows, the end and the failure of a stage.  *)

\* The requests a client may make of a session: the status they are accepted in,
\* the stage they start and whether they revise.
Accepted(status, stage, revision) ==
  \/ status \in {"created", "extracting_brief"} /\ stage = "extracting_brief" /\ revision = FALSE
  \/ status = "waiting_brief_confirmation" /\ stage = "extracting_brief" /\ revision = TRUE
  \/ status = "waiting_brief_confirmation" /\ stage = "generating_product_text" /\ revision = FALSE
  \/ /\ status = "waiting_text_feedback" /\ stage = "generating_product_text" /\ revision = TRUE
     /\ session.revisions < RevisionLimit
  \/ status = "waiting_text_feedback" /\ stage = "building_visual_prompt" /\ revision = FALSE
  \/ status = "waiting_image_confirmation" /\ stage = "generating_image" /\ revision = FALSE

LEMMA ClaimSafe ==
  ASSUME IInv, NEW status, NEW stage \in Stages, NEW revision \in BOOLEAN,
         Accepted(status, stage, revision), Request(status, stage, revision)
  PROVE  IInv'
<1> DEFINE claimed == IF status = "waiting_brief_confirmation" /\ revision THEN status ELSE stage
           entered == [Idle EXCEPT !.at = "open", !.stage = stage, !.tool = 1, !.revision = revision]
<1>1. /\ handler.at = "idle" /\ session.status = status /\ UNCHANGED <<steps, imageCalls, crashes>>
      /\ session \in SessionRow /\ handler \in Running
  BY DEF Request, Transaction, Write, IInv, TypeOK
<1>2. /\ session' = session \/ session' = [session EXCEPT !.status = claimed]
      /\ handler' = handler \/ (handler' = entered /\ session' = [session EXCEPT !.status = claimed])
  BY <1>1 DEF Request, Transaction, Write, Enter
<1>3. {requests', faults', lostAcks'} \subseteq Nat
  <2>1. {requests, faults, lostAcks} \subseteq Nat
    BY DEF IInv, TypeOK
  <2>2. requests' = requests + 1 /\ (faults' = faults \/ faults' = faults + 1)
        /\ (lostAcks' = lostAcks \/ lostAcks' = lostAcks + 1)
    BY DEF Request, Transaction
  <2> QED
    BY <2>1, <2>2
<1>4. /\ claimed \in Statuses
      /\ \/ claimed = stage
         \/ stage = "extracting_brief" /\ claimed = Ended[stage]
  BY DEF Accepted, Statuses, Ended
<1>5. /\ entered \in Running /\ entered.at = "open" /\ entered.stage = stage /\ entered.tool = 1
      /\ entered.revision = revision /\ entered.evidence = {} /\ entered.out = None
  BY IdleRecord DEF Idle
<1>6. /\ status \in {"created", "extracting_brief"} => claimed = "extracting_brief"
      /\ status = "waiting_brief_confirmation" =>
           claimed \in {"waiting_brief_confirmation", "generating_product_text"}
      /\ status = "waiting_text_feedback" =>
           claimed \in {"generating_product_text", "building_visual_prompt"}
      /\ status = "waiting_image_confirmation" => claimed = "generating_image"
      /\ stage = "generating_image" <=> status = "waiting_image_confirmation"
      /\ status \in {"created", "extracting_brief", "waiting_brief_confirmation",
                     "waiting_text_feedback", "waiting_image_confirmation"}
  BY DEF Accepted
<1>7. stage = "generating_product_text" /\ claimed = stage /\ revision =>
        session.revisions < RevisionLimit
  BY DEF Accepted
<1> HIDE DEF claimed, entered
<1>8. /\ session'.brief = session.brief /\ session'.draft = session.draft
      /\ session'.package = session.package /\ session'.final = session.final
      /\ session'.error = session.error /\ session'.revisions = session.revisions
      /\ session'.status = status \/ session'.status = claimed
  BY <1>1, <1>2 DEF SessionRow
<1>9. TypeOK'
  <2>1. session' \in SessionRow
    BY <1>1, <1>2, <1>4 DEF SessionRow
  <2>2. handler' \in Running
    BY <1>1, <1>2, <1>5
  <2> QED
    BY <1>1, <1>3, <2>1, <2>2 DEF IInv, TypeOK
<1>10. PlaceInv'
  <2>1. 1 \in 1..Len(Tools[stage])
    BY StageNames, ToolChains
  <2> QED
    BY <1>1, <1>2, <1>5, <2>1 DEF PlaceInv, Failing
<1>11. StatusInv'
  <2>1. CASE handler' = handler
    BY <1>1, <2>1 DEF StatusInv
  <2>2. CASE handler' = entered /\ session' = [session EXCEPT !.status = claimed]
    <3>1. session'.status = claimed
      BY <1>1, <2>2 DEF SessionRow
    <3>2. handler'.revision = revision
      BY <1>5, <2>2
    <3>3. stage = "generating_product_text" /\ revision => session.draft # None
      BY <1>1 DEF Accepted, IInv, ContentInv
    <3> QED
      BY <1>4, <1>5, <1>7, <1>8, <2>2, <3>1, <3>2, <3>3 DEF StatusInv
  <2> QED
    BY <1>2, <2>1, <2>2
<1>12. ContentInv'
  BY <1>1, <1>6, <1>8 DEF IInv, ContentInv
<1>13. OutInv'
  BY <1>1, <1>2, <1>5 DEF OutInv
<1>14. CallInv'
  BY <1>1, <1>2, <1>5, <1>6, <1>8 DEF IInv, CallInv, ContentInv
<1>15. StepInv'
  BY <1>1, <1>2, <1>5, <1>8 DEF IInv, StepInv, Last
<1> QED
  BY <1>9, <1>10, <1>11, <1>12, <1>13, <1>14, <1>15 DEF IInv

LEMMA RequestsSafe == IInv /\ (AppendMessage \/ SubmitDecision) => IInv'
<1> USE StageNames
<1>1. ASSUME IInv, AppendMessage PROVE IInv'
  BY <1>1, ClaimSafe DEF AppendMessage, Accepted
<1>2. ASSUME IInv, SubmitDecision PROVE IInv'
  BY <1>2, ClaimSafe
     DEF SubmitDecision, ConfirmBrief, ConfirmProductText, ConfirmImageGeneration, Accepted
<1> QED
  BY <1>1, <1>2

\* Completing the newest step leaves the failed ones as they are.
LEMMA CompletedRows ==
  ASSUME steps \in Seq(StepRow), Last > 0, steps[Last].status = "running",
         steps' = [steps EXCEPT ![Last].status = "completed"]
  PROVE  /\ steps' \in Seq(StepRow) /\ Last' = Last /\ Last \in Nat
         /\ steps'[Last].status = "completed"
         /\ \A i \in 1..Last : steps[i].status = "failed" => steps'[i] = steps[i]
<1>1. Last \in 1..Len(steps) /\ Last \in Nat /\ Len(steps) = Last
  BY DEF Last
<1>2. steps[Last] \in StepRow
  BY <1>1
<1>3. [steps[Last] EXCEPT !.status = "completed"] \in StepRow
  BY <1>2 DEF StepRow
<1>4. steps' = [steps EXCEPT ![Last] = [steps[Last] EXCEPT !.status = "completed"]]
  OBVIOUS
<1>5. steps' \in Seq(StepRow) /\ Len(steps') = Len(steps)
  BY <1>1, <1>3, <1>4
<1>6. steps'[Last].status = "completed"
  BY <1>1, <1>2, <1>4 DEF StepRow
<1>7. \A i \in 1..Last : i # Last => steps'[i] = steps[i]
  BY <1>1, <1>4
<1>8. Last' = Last
  BY <1>5 DEF Last
<1> QED
  BY <1>1, <1>5, <1>6, <1>7, <1>8

LEMMA OpenStepSafe == IInv /\ OpenStep => IInv'
<1> SUFFICES ASSUME IInv, OpenStep PROVE IInv'
  OBVIOUS
<1> USE DEF counters
<1> DEFINE row == [stage |-> handler.stage, tool |-> Tool, status |-> "running", error |-> None]
<1>1. /\ handler.at = "open" /\ handler \in Running /\ handler.stage \in Stages
      /\ UNCHANGED <<session, imageCalls, requests, crashes>> /\ steps \in Seq(StepRow)
      /\ {requests', crashes'} \subseteq Nat
  BY DEF OpenStep, IInv, TypeOK, PlaceInv, Transaction, Write
<1>2. row \in StepRow
  BY <1>1, ToolStages DEF IInv, StepRow
<1>3. {faults', lostAcks'} \subseteq Nat
  <2>1. {faults, lostAcks} \subseteq Nat
    BY DEF IInv, TypeOK
  <2>2. (faults' = faults \/ faults' = faults + 1) /\ (lostAcks' = lostAcks \/ lostAcks' = lostAcks + 1)
    BY DEF OpenStep, Transaction
  <2> QED
    BY <2>1, <2>2
<1>4. \/ steps' = Append(steps, row) /\ handler' = [handler EXCEPT !.at = "work"]
      \/ (steps' = Append(steps, row) \/ steps' = steps) /\ handler' = Idle
  BY DEF OpenStep, Transaction, Write, Goto, End
<1> HIDE DEF row
<1>5. steps' \in Seq(StepRow) /\ \A i \in 1..Last : i \in 1..Len(steps') /\ steps'[i] = steps[i]
  BY <1>1, <1>2, <1>4 DEF Last
<1>6. session.error # None =>
        \E i \in 1..Len(steps') : steps'[i].status = "failed" /\ steps'[i].error = session.error
  BY <1>5 DEF IInv, StepInv
<1>7. CASE handler' = Idle
  BY <1>1, <1>3, <1>5, <1>6, <1>7, GivenUp
<1>8. CASE steps' = Append(steps, row) /\ handler' = [handler EXCEPT !.at = "work"]
  <2>1. handler' \in Running /\ handler'.at = "work" /\ handler'.stage = handler.stage
        /\ handler'.tool = handler.tool /\ handler'.revision = handler.revision
        /\ handler'.evidence = handler.evidence /\ handler'.out = handler.out
    BY <1>1, <1>8 DEF Running, Locations
  <2>2. Len(steps') > 0 /\ steps'[Len(steps')] = row
    BY <1>1, <1>2, <1>8
  <2>3. TypeOK'
    BY <1>1, <1>3, <1>5, <2>1 DEF IInv, TypeOK
  <2>4. PlaceInv' /\ StatusInv' /\ OutInv'
    BY <1>1, <2>1 DEF IInv, PlaceInv, StatusInv, OutInv, Failing
  <2>5. ContentInv' /\ CallInv'
    BY <1>1, <2>1 DEF IInv, ContentInv, CallInv
  <2>6. StepInv'
    BY <1>1, <1>6, <2>1, <2>2 DEF StepInv, Last, row
  <2> QED
    BY <2>3, <2>4, <2>5, <2>6 DEF IInv
<1> QED
  BY <1>4, <1>7, <1>8

LEMMA FinishStepSafe == IInv /\ FinishStep => IInv'
<1> SUFFICES ASSUME IInv, FinishStep PROVE IInv'
  OBVIOUS
<1> USE DEF counters
<1>1. /\ handler.at = "close" /\ handler \in Running /\ handler.stage \in Stages
      /\ UNCHANGED <<session, imageCalls, requests, crashes>> /\ steps \in Seq(StepRow)
      /\ {requests', crashes'} \subseteq Nat /\ Last > 0 /\ steps[Last].status = "running"
  BY DEF FinishStep, IInv, TypeOK, PlaceInv, StepInv, Transaction, Write
<1>2. {faults', lostAcks'} \subseteq Nat
  <2>1. {faults, lostAcks} \subseteq Nat
    BY DEF IInv, TypeOK
  <2>2. (faults' = faults \/ faults' = faults + 1) /\ (lostAcks' = lostAcks \/ lostAcks' = lostAcks + 1)
    BY DEF FinishStep, Transaction
  <2> QED
    BY <2>1, <2>2
<1>3. /\ handler' = Idle \/ handler' = [handler EXCEPT !.at = "open", !.tool = @ + 1]
      /\ steps' = steps \/ steps' = [steps EXCEPT ![Last].status = "completed"]
  BY DEF FinishStep, Transaction, Write, End
<1>4. steps' \in Seq(StepRow) /\ Len(steps') = Last
      /\ \A i \in 1..Last : steps[i].status = "failed" => steps'[i] = steps[i]
  BY <1>1, <1>3, CompletedRows DEF Last
<1>5. session.error # None =>
        \E i \in 1..Len(steps') : steps'[i].status = "failed" /\ steps'[i].error = session.error
  BY <1>4 DEF IInv, StepInv
<1>6. CASE handler' = Idle
  BY <1>1, <1>2, <1>4, <1>5, <1>6, GivenUp
<1>7. CASE handler' = [handler EXCEPT !.at = "open", !.tool = @ + 1]
  <2>1. handler' \in Running /\ handler'.at = "open" /\ handler'.stage = handler.stage
        /\ handler'.tool = handler.tool + 1 /\ handler'.revision = handler.revision
        /\ handler'.evidence = handler.evidence /\ handler'.out = handler.out
    <3>1. handler.tool + 1 \in Nat
      BY <1>1 DEF Running
    <3>2. handler' = [handler EXCEPT !.at = "open", !.tool = handler.tool + 1]
      BY <1>7
    <3> QED
      BY <1>1, <3>1, <3>2 DEF Running, Locations
  <2>2. handler.stage # "generating_image"
    <3>1. handler.tool \in 1..Len(Tools[handler.stage]) /\ handler.tool < Len(Tools[handler.stage])
      BY <1>1 DEF IInv, PlaceInv
    <3>2. Len(Tools["generating_image"]) = 1
      BY ToolChains
    <3>3. ~(1 < 1) /\ \A i \in 1..1 : i = 1
      OBVIOUS
    <3> QED
      BY <3>1, <3>2, <3>3
  <2>3. TypeOK'
    BY <1>1, <1>2, <1>4, <2>1 DEF IInv, TypeOK
  <2>4. PlaceInv'
    <3>1. /\ handler.tool \in 1..Len(Tools[handler.stage])
          /\ handler.tool < Len(Tools[handler.stage]) /\ Len(Tools[handler.stage]) \in Nat
      BY <1>1, StageNames, ToolChains DEF IInv, PlaceInv
    <3> QED
      BY <1>1, <2>1, <3>1 DEF PlaceInv, Failing
  <2>5. StatusInv' /\ OutInv'
    BY <1>1, <2>1 DEF IInv, StatusInv, OutInv, Failing
  <2>6. ContentInv' /\ CallInv'
    BY <1>1, <2>1, <2>2 DEF IInv, ContentInv, CallInv
  <2>7. StepInv'
    BY <1>1, <1>5, <2>1 DEF StepInv, Last
  <2> QED
    BY <2>3, <2>4, <2>5, <2>6, <2>7 DEF IInv
<1> QED
  BY <1>3, <1>6, <1>7

\* The transaction that ends a stage stores what the stage was to make.
LEMMA FinishedSession ==
  ASSUME IInv, handler.at = "finish", session' = Finished, imageCalls' = imageCalls
  PROVE  /\ session' \in SessionRow /\ session'.status = Ended[handler.stage]
         /\ session'.error \in {None, session.error} /\ ContentInv'
         /\ handler.stage = "generating_product_text" => session'.brief = session.brief
         /\ imageCalls > 0 =>
              session'.package # None /\ imageCalls <= Price(session'.package.mode)
         /\ session'.status = "waiting_image_confirmation" => imageCalls = 0
         /\ session'.final # None => imageCalls = Price(session'.package.mode)
<1>1. /\ session \in SessionRow /\ handler \in Running /\ handler.stage \in Stages
      /\ imageCalls \in Nat
      /\ \/ session.status = handler.stage
         \/ handler.stage = "extracting_brief" /\ session.status = "waiting_brief_confirmation"
  <2>1. session \in SessionRow /\ handler \in Running /\ handler.stage \in Stages /\ imageCalls \in Nat
    BY DEF IInv, TypeOK, PlaceInv
  <2>2. \/ session.status = handler.stage
        \/ handler.stage = "extracting_brief" /\ session.status = "waiting_brief_confirmation"
    BY DEF IInv, StatusInv, Failing, Ended
  <2> QED
    BY <2>1, <2>2
<1>2. CASE handler.stage = "extracting_brief"
  <2>1. session' = [session EXCEPT !.brief = handler.out, !.status = "waiting_brief_confirmation"]
    BY <1>2 DEF Finished, BriefFinished
  <2>2. handler.out \in Brief /\ ValidBrief(handler.out)
    BY <1>2 DEF IInv, OutInv
  <2>3. session.draft = None /\ session.package = None /\ session.final = None
    BY <1>1, <1>2 DEF IInv, ContentInv
  <2>4. /\ session'.brief = handler.out /\ session'.status = "waiting_brief_confirmation"
        /\ session'.draft = None /\ session'.package = None /\ session'.final = None
        /\ session'.error = session.error
    BY <1>1, <2>1, <2>3 DEF SessionRow
  <2>5. session' \in SessionRow
    BY <1>1, <2>1, <2>2 DEF SessionRow, Statuses
  <2>6. ContentInv'
    BY <2>2, <2>4, StageAssumption DEF ContentInv
  <2>7. imageCalls = 0
    BY <1>1, <2>3 DEF IInv, CallInv
  <2> QED
    BY <1>2, <2>4, <2>5, <2>6, <2>7 DEF Ended
<1>3. CASE handler.stage = "generating_product_text"
  <2> DEFINE count == IF handler.revision THEN session.revisions + 1 ELSE session.revisions
  <2>1. session' = [session EXCEPT !.draft = handler.out, !.status = "waiting_text_feedback",
                                   !.error = None, !.revisions = count]
    BY <1>3 DEF Finished, ProductTextFinished
  <2>2. handler.out \in Drafts /\ Cited(handler.out, session.brief)
    BY <1>3 DEF IInv, OutInv
  <2>3. /\ session.status = "generating_product_text" /\ session.package = None
        /\ session.final = None /\ session.brief # None /\ ValidBrief(session.brief)
    BY <1>1, <1>3 DEF IInv, ContentInv
  <2>4. count \in 0..RevisionLimit
    <3>1. session.revisions \in 0..RevisionLimit /\ RevisionLimit \in Nat
      BY <1>1, StageAssumption DEF SessionRow
    <3>2. handler.revision => session.revisions < RevisionLimit
      BY <1>3, <2>3 DEF IInv, StatusInv
    <3> QED
      BY <3>1, <3>2
  <2> HIDE DEF count
  <2>5. /\ session'.draft = handler.out /\ session'.status = "waiting_text_feedback"
        /\ session'.brief = session.brief /\ session'.package = None /\ session'.final = None
        /\ session'.error = None
    BY <1>1, <2>1, <2>3 DEF SessionRow
  <2>6. session' \in SessionRow
    BY <1>1, <2>1, <2>2, <2>4 DEF SessionRow, Statuses
  <2>7. ContentInv'
    BY <2>2, <2>3, <2>5, StageAssumption DEF ContentInv
  <2>8. imageCalls = 0
    BY <1>1, <2>3 DEF IInv, CallInv
  <2> QED
    BY <1>3, <2>5, <2>6, <2>7, <2>8 DEF Ended
<1>4. CASE handler.stage = "building_visual_prompt"
  <2>1. session' = [session EXCEPT !.package = handler.out, !.status = "waiting_image_confirmation"]
    BY <1>4 DEF Finished, VisualPromptFinished
  <2>2. handler.out = [mode |-> session.brief.mode, sources |-> session.draft.evidence]
    BY <1>4 DEF IInv, OutInv
  <2>3. /\ session.status = "building_visual_prompt" /\ session.package = None
        /\ session.final = None /\ session.brief # None /\ ValidBrief(session.brief)
        /\ session.draft # None /\ Cited(session.draft, session.brief)
    BY <1>1, <1>4 DEF IInv, ContentInv
  <2>4. handler.out \in Packages
    BY <1>1, <2>2, <2>3 DEF SessionRow, Packages, Drafts, ValidBrief
  <2>5. /\ session'.package = handler.out /\ session'.status = "waiting_image_confirmation"
        /\ session'.brief = session.brief /\ session'.draft = session.draft
        /\ session'.final = None /\ session'.error = session.error
    BY <1>1, <2>1, <2>3 DEF SessionRow
  <2>6. session' \in SessionRow
    BY <1>1, <2>1, <2>4 DEF SessionRow, Statuses
  <2>7. handler.out.mode = session.brief.mode /\ handler.out.sources = session.draft.evidence
    BY <2>2
  <2>8. ContentInv'
    BY <2>3, <2>4, <2>5, <2>7, StageAssumption DEF ContentInv
  <2>9. imageCalls = 0
    BY <1>1, <2>3 DEF IInv, CallInv
  <2> QED
    BY <1>4, <2>5, <2>6, <2>8, <2>9 DEF Ended
<1>5. CASE handler.stage = "generating_image"
  <2> DEFINE final == [image |-> handler.out, grounded |-> session.draft.grounded,
                       cites |-> session.draft.cites]
  <2>1. session' = [session EXCEPT !.status = "completed", !.error = None, !.final = final]
    BY <1>5 DEF Finished, ImageFinished
  <2>2. handler.out \in Images
    BY <1>5 DEF IInv, OutInv
  <2>3. /\ session.status = "generating_image" /\ session.package # None
        /\ session.brief # None /\ ValidBrief(session.brief)
        /\ session.draft # None /\ Cited(session.draft, session.brief)
        /\ session.package.mode = session.brief.mode
        /\ session.package.sources = session.draft.evidence
    BY <1>1, <1>5 DEF IInv, ContentInv
  <2>4. final \in Finals
    BY <1>1, <2>2, <2>3 DEF SessionRow, Finals, Drafts
  <2>5. final.cites = session.draft.cites /\ final.grounded = session.draft.grounded
    OBVIOUS
  <2> HIDE DEF final
  <2>6. /\ session'.package = session.package /\ session'.status = "completed"
        /\ session'.brief = session.brief /\ session'.draft = session.draft
        /\ session'.final = final /\ session'.error = None
    BY <1>1, <2>1, <2>3 DEF SessionRow
  <2>7. session' \in SessionRow
    BY <1>1, <2>1, <2>4 DEF SessionRow, Statuses
  <2>8. ContentInv'
    BY <2>3, <2>5, <2>6 DEF ContentInv
  <2>9. imageCalls = Price(session.package.mode)
    BY <1>5 DEF IInv, CallInv
  <2> QED
    BY <1>1, <1>5, <2>3, <2>6, <2>7, <2>8, <2>9 DEF Ended
<1> QED
  BY <1>1, <1>2, <1>3, <1>4, <1>5, StageNames

LEMMA FinishStageSafe == IInv /\ FinishStage => IInv'
<1> SUFFICES ASSUME IInv, FinishStage PROVE IInv'
  OBVIOUS
<1> USE DEF counters
<1>1. /\ handler.at = "finish" /\ handler \in Running /\ handler.stage \in Stages
      /\ UNCHANGED <<imageCalls, requests, crashes>> /\ steps \in Seq(StepRow)
      /\ {requests', crashes', imageCalls'} \subseteq Nat /\ {faults, lostAcks} \subseteq Nat
      /\ Last > 0 /\ steps[Last].status = "running"
  BY DEF FinishStage, IInv, TypeOK, PlaceInv, StepInv
<1>2. StoreError \in Errors
  BY <1>1, RaisedErrors
<1> DEFINE Stored == session' = Finished /\ steps' = [steps EXCEPT ![Last].status = "completed"]
<1>3. \/ Stored /\ handler' = Idle /\ UNCHANGED <<faults, lostAcks>>
      \/ Raise(StoreError) /\ UNCHANGED <<session, steps, lostAcks>> /\ faults' = faults + 1
      \/ Stored /\ Raise(StoreError) /\ lostAcks' = lostAcks + 1 /\ faults' = faults + 1
  BY DEF FinishStage, Transaction, Write, End
<1>4. CASE Raise(StoreError) /\ UNCHANGED <<session, steps, lostAcks>> /\ faults' = faults + 1
  <2>1. faults' \in Nat
    BY <1>1, <1>4
  <2> QED
    BY <1>1, <1>2, <1>4, <2>1, ToolFails
<1>5. ASSUME Stored
      PROVE  /\ session' \in SessionRow /\ session'.status = Ended[handler.stage]
             /\ session'.error \in {None, session.error} /\ ContentInv'
             /\ handler.stage = "generating_product_text" => session'.brief = session.brief
             /\ imageCalls > 0 =>
                  session'.package # None /\ imageCalls <= Price(session'.package.mode)
             /\ session'.status = "waiting_image_confirmation" => imageCalls = 0
             /\ session'.final # None => imageCalls = Price(session'.package.mode)
  BY <1>1, <1>5, FinishedSession
<1>6. ASSUME Stored
      PROVE  /\ steps' \in Seq(StepRow) /\ Last' = Last /\ Last \in Nat
             /\ steps'[Last].status = "completed"
             /\ \A i \in 1..Last : steps[i].status = "failed" => steps'[i] = steps[i]
  BY <1>1, <1>6, CompletedRows
<1>7. ASSUME Stored, session'.error # None
      PROVE  \E i \in 1..Last' : steps'[i].status = "failed" /\ steps'[i].error = session'.error
  <2>1. session'.error = session.error
    BY <1>5, <1>7
  <2>2. PICK i \in 1..Last : steps[i].status = "failed" /\ steps[i].error = session.error
    BY <1>7, <2>1 DEF IInv, StepInv
  <2>3. steps'[i] = steps[i] /\ i \in 1..Last'
    BY <1>6, <1>7, <2>2
  <2> QED
    BY <2>1, <2>2, <2>3
<1>8. CASE Stored /\ handler' = Idle /\ UNCHANGED <<faults, lostAcks>>
  <2>1. TypeOK'
    BY <1>1, <1>5, <1>6, <1>8, IdleRecord DEF TypeOK
  <2>2. PlaceInv' /\ StatusInv' /\ OutInv'
    BY <1>8, IdleRecord DEF PlaceInv, StatusInv, OutInv
  <2>3. CallInv'
    BY <1>1, <1>5, <1>8, IdleRecord, StageAssumption, StageNames DEF CallInv
  <2>4. StepInv'
    BY <1>7, <1>8, IdleRecord DEF StepInv
  <2> QED
    BY <1>5, <1>8, <2>1, <2>2, <2>3, <2>4 DEF IInv
<1>9. CASE Stored /\ Raise(StoreError) /\ lostAcks' = lostAcks + 1 /\ faults' = faults + 1
  <2>1. /\ handler' \in Running
        /\ handler' = [handler EXCEPT !.error = StoreError, !.at = handler'.at]
        /\ handler'.at = IF handler.stage = "generating_image" THEN "recordImage" ELSE "failStep"
    BY <1>1, <1>2, <1>9, RaiseMoves
  <2>2. /\ handler'.stage = handler.stage /\ handler'.tool = handler.tool
        /\ handler'.error = StoreError /\ handler'.evidence = handler.evidence
        /\ handler'.out = handler.out
    BY <1>1, <2>1 DEF Running
  <2>3. TypeOK'
    <3>1. {faults', lostAcks'} \subseteq Nat
      BY <1>1, <1>9
    <3> QED
      BY <1>1, <1>5, <1>6, <1>9, <2>1, <3>1 DEF TypeOK
  <2>4. PlaceInv'
    BY <1>1, <1>2, <2>1, <2>2 DEF IInv, PlaceInv, Failing
  <2>5. StatusInv'
    <3>1. /\ session'.status = Ended[handler.stage]
          /\ handler.stage = "generating_product_text" =>
               session'.status = "waiting_text_feedback" /\ session'.draft # None
      BY <1>5, <1>9 DEF Ended, ContentInv
    <3> QED
      BY <2>1, <2>2, <3>1 DEF StatusInv, Failing
  <2>6. OutInv'
    BY <1>1, <1>5, <1>9, <2>1, <2>2 DEF IInv, OutInv
  <2>7. CallInv'
    BY <1>1, <1>5, <1>9, <2>1, <2>2 DEF CallInv
  <2>8. StepInv'
    <3>1. lostAcks' > 0
      BY <1>1, <1>9
    <3>2. Last' > 0 /\ steps'[Last'].status = "completed"
      BY <1>1, <1>6, <1>9
    <3> QED
      BY <1>7, <1>9, <2>1, <3>1, <3>2 DEF StepInv
  <2> QED
    BY <1>5, <1>9, <2>3, <2>4, <2>5, <2>6, <2>7, <2>8 DEF IInv
<1> QED
  BY <1>3, <1>4, <1>8, <1>9

\* The newest step fails with the error of the request; the rows that failed before
\* it stay as they are.
LEMMA FailedRows ==
  ASSUME steps \in Seq(StepRow), Last > 0, steps[Last].status \in {"running", "completed"},
         NEW error \in Errors, steps' = Failed(error)
  PROVE  /\ steps' \in Seq(StepRow) /\ Last' = Last /\ Last \in Nat
         /\ steps'[Last].status = "failed" /\ steps'[Last].error = error
         /\ \A i \in 1..Last : steps[i].status = "failed" => steps'[i] = steps[i]
<1>1. Last \in 1..Len(steps) /\ Last \in Nat /\ Len(steps) = Last
  BY DEF Last
<1>2. steps[Last] \in StepRow
  BY <1>1
<1> DEFINE row == [steps[Last] EXCEPT !.status = "failed", !.error = error]
<1>3. row \in StepRow /\ row.status = "failed" /\ row.error = error
  BY <1>2 DEF StepRow
<1>4. steps' = [steps EXCEPT ![Last] = row]
  <2>1. steps' = [[steps EXCEPT ![Last].status = "failed"] EXCEPT ![Last].error = error]
    BY DEF Failed
  <2> QED
    BY <1>1, <2>1
<1> HIDE DEF row
<1>5. steps' \in Seq(StepRow) /\ Len(steps') = Len(steps)
  BY <1>1, <1>3, <1>4
<1>6. steps'[Last] = row /\ \A i \in 1..Last : i # Last => steps'[i] = steps[i]
  BY <1>1, <1>4
<1>7. Last' = Last
  BY <1>5 DEF Last
<1> QED
  BY <1>1, <1>3, <1>5, <1>6, <1>7

LEMMA FailStepSafe == IInv /\ FailStep => IInv'
<1> SUFFICES ASSUME IInv, FailStep PROVE IInv'
  OBVIOUS
<1> USE DEF counters
<1>1. /\ handler.at = "failStep" /\ handler \in Running /\ handler.error \in Errors
      /\ UNCHANGED <<session, imageCalls, requests, crashes>> /\ steps \in Seq(StepRow)
      /\ {requests', crashes', imageCalls'} \subseteq Nat /\ {faults, lostAcks} \subseteq Nat
      /\ Last > 0 /\ steps[Last].status \in {"running", "completed"}
      /\ handler.stage \in Stages /\ handler.stage # "generating_image"
  BY DEF FailStep, IInv, TypeOK, PlaceInv, StepInv, Failing, Transaction, Write
<1>2. {faults', lostAcks'} \subseteq Nat
  <2>1. (faults' = faults \/ faults' = faults + 1) /\ (lostAcks' = lostAcks \/ lostAcks' = lostAcks + 1)
    BY DEF FailStep, Transaction
  <2> QED
    BY <1>1, <2>1
<1>3. \/ steps' = Failed(handler.error) /\ handler' = [handler EXCEPT !.at = "failSession"]
      \/ (steps' = steps \/ steps' = Failed(handler.error)) /\ handler' = Idle
  BY DEF FailStep, Transaction, Write, Goto, End
<1>4. ASSUME steps' = Failed(handler.error)
      PROVE  /\ steps' \in Seq(StepRow) /\ Last' = Last /\ Last \in Nat
             /\ steps'[Last].status = "failed" /\ steps'[Last].error = handler.error
             /\ \A i \in 1..Last : steps[i].status = "failed" => steps'[i] = steps[i]
  BY <1>1, <1>4, FailedRows
<1>5. steps' \in Seq(StepRow) /\ Len(steps') = Last
      /\ \A i \in 1..Last : steps[i].status = "failed" => steps'[i] = steps[i]
  BY <1>1, <1>3, <1>4 DEF Last
<1>6. session.error # None =>
        \E i \in 1..Len(steps') : steps'[i].status = "failed" /\ steps'[i].error = session.error
  BY <1>5 DEF IInv, StepInv
<1>7. CASE handler' = Idle
  BY <1>1, <1>2, <1>5, <1>6, <1>7, GivenUp
<1>8. CASE steps' = Failed(handler.error) /\ handler' = [handler EXCEPT !.at = "failSession"]
  <2>1. handler' \in Running /\ handler'.at = "failSession" /\ handler'.stage = handler.stage
        /\ handler'.tool = handler.tool /\ handler'.revision = handler.revision
        /\ handler'.evidence = handler.evidence /\ handler'.error = handler.error
    BY <1>1, <1>8 DEF Running, Locations
  <2>2. TypeOK'
    BY <1>1, <1>2, <1>5, <2>1 DEF IInv, TypeOK
  <2>3. PlaceInv' /\ OutInv'
    BY <1>1, <2>1 DEF IInv, PlaceInv, OutInv, Failing
  <2>4. StatusInv'
    BY <1>1, <2>1 DEF IInv, StatusInv, Failing
  <2>5. ContentInv' /\ CallInv'
    BY <1>1, <2>1 DEF IInv, ContentInv, CallInv
  <2>6. StepInv'
    BY <1>1, <1>4, <1>5, <1>6, <1>8, <2>1 DEF StepInv, Last
  <2> QED
    BY <2>2, <2>3, <2>4, <2>5, <2>6 DEF IInv
<1> QED
  BY <1>3, <1>7, <1>8

\* A session takes the error of a request that is given up: as failed, or back at
\* the text it had.
LEMMA ErrorStored ==
  ASSUME IInv, handler.at \in Failing, handler' = Idle, UNCHANGED imageCalls,
         steps' \in Seq(StepRow), {requests', faults', crashes', lostAcks'} \subseteq Nat,
         NEW status, NEW orphan \in Images \cup {None},
         session' = [session EXCEPT !.status = status, !.error = handler.error, !.orphan = orphan],
         \/ status = "failed" /\ session.status # "completed"
         \/ /\ status = "waiting_text_feedback" /\ session.status = "generating_product_text"
            /\ session.draft # None,
         \E i \in 1..Len(steps') : steps'[i].status = "failed" /\ steps'[i].error = handler.error
  PROVE  IInv'
<1>1. session \in SessionRow /\ handler.error \in Errors
  BY DEF IInv, TypeOK, PlaceInv, Failing
<1>2. /\ session'.status = status /\ session'.error = handler.error
      /\ session'.brief = session.brief /\ session'.draft = session.draft
      /\ session'.package = session.package /\ session'.final = session.final
  BY <1>1 DEF SessionRow
<1>3. session' \in SessionRow
  BY <1>1 DEF SessionRow, Statuses
<1>4. TypeOK'
  BY <1>3, IdleRecord DEF IInv, TypeOK
<1>5. PlaceInv' /\ StatusInv' /\ OutInv'
  BY IdleRecord DEF PlaceInv, StatusInv, OutInv
<1>6. ContentInv'
  BY <1>2 DEF IInv, ContentInv
<1>7. CallInv'
  BY <1>2, IdleRecord, StageAssumption, StageNames DEF IInv, CallInv
<1>8. StepInv'
  BY <1>2, IdleRecord DEF StepInv, Last
<1> QED
  BY <1>4, <1>5, <1>6, <1>7, <1>8 DEF IInv

LEMMA FailSessionSafe == IInv /\ FailSession => IInv'
<1> SUFFICES ASSUME IInv, FailSession PROVE IInv'
  OBVIOUS
<1> USE DEF counters
<1>1. /\ handler.at = "failSession" /\ session \in SessionRow /\ handler.stage \in Stages
      /\ handler.stage # "generating_image"
      /\ UNCHANGED <<steps, imageCalls, requests, crashes>> /\ steps \in Seq(StepRow)
      /\ {requests', crashes'} \subseteq Nat
  BY DEF FailSession, ReturnToTextFeedback, MarkFailed, IInv, TypeOK, PlaceInv, Transaction, Write
<1>2. handler' = Idle
  BY DEF FailSession, ReturnToTextFeedback, MarkFailed, Transaction, End
<1>3. {faults', lostAcks'} \subseteq Nat
  <2>1. (faults' = faults \/ faults' = faults + 1) /\ (lostAcks' = lostAcks \/ lostAcks' = lostAcks + 1)
    BY DEF FailSession, ReturnToTextFeedback, MarkFailed, Transaction
  <2>2. {faults, lostAcks} \subseteq Nat
    BY DEF IInv, TypeOK
  <2> QED
    BY <2>1, <2>2
<1>4. \/ UNCHANGED session
      \/ session' = [session EXCEPT !.status = "failed", !.error = handler.error]
      \/ /\ session' = [session EXCEPT !.status = "waiting_text_feedback", !.error = handler.error]
         /\ session.status = "generating_product_text"
         /\ handler.stage = "generating_product_text" /\ handler.revision
  BY DEF FailSession, ReturnToTextFeedback, MarkFailed, Transaction, Write
<1>5. session.status # "completed"
  BY <1>1, StageNames DEF IInv, StatusInv, Failing, Ended
<1>6. \E i \in 1..Len(steps') : steps'[i].status = "failed" /\ steps'[i].error = handler.error
  <2>1. Last > 0 /\ steps[Last].status = "failed" /\ steps[Last].error = handler.error
    BY <1>1 DEF IInv, StepInv
  <2>2. Last \in 1..Len(steps')
    BY <1>1, <2>1 DEF Last
  <2> QED
    BY <1>1, <2>1, <2>2
<1>7. session.orphan \in Images \cup {None}
  BY <1>1 DEF SessionRow
<1>8. CASE UNCHANGED session
  <2>1. session.error # None =>
          \E i \in 1..Len(steps') : steps'[i].status = "failed" /\ steps'[i].error = session.error
    BY <1>1 DEF IInv, StepInv, Last
  <2> QED
    BY <1>1, <1>2, <1>3, <1>8, <2>1, GivenUp
<1>9. CASE session' = [session EXCEPT !.status = "failed", !.error = handler.error]
  <2>1. session' = [session EXCEPT !.status = "failed", !.error = handler.error,
                                   !.orphan = session.orphan]
    BY <1>1, <1>9 DEF SessionRow
  <2> QED
    BY <1>1, <1>2, <1>3, <1>5, <1>6, <1>7, <2>1, ErrorStored DEF Failing
<1>10. CASE /\ session' = [session EXCEPT !.status = "waiting_text_feedback", !.error = handler.error]
            /\ session.status = "generating_product_text"
            /\ handler.stage = "generating_product_text" /\ handler.revision
  <2>1. session' = [session EXCEPT !.status = "waiting_text_feedback", !.error = handler.error,
                                   !.orphan = session.orphan]
    BY <1>1, <1>10 DEF SessionRow
  <2>2. session.draft # None
    BY <1>1, <1>10 DEF IInv, StatusInv
  <2> QED
    BY <1>1, <1>2, <1>3, <1>6, <1>7, <1>10, <2>1, <2>2, ErrorStored DEF Failing
<1> QED
  BY <1>4, <1>8, <1>9, <1>10

LEMMA RecordImageSafe == IInv /\ RecordImageFailure => IInv'
<1> SUFFICES ASSUME IInv, RecordImageFailure PROVE IInv'
  OBVIOUS
<1> USE DEF counters
<1>1. /\ handler.at = "recordImage" /\ handler.error \in Errors /\ steps \in Seq(StepRow)
      /\ UNCHANGED <<imageCalls, requests, crashes>> /\ {requests', crashes'} \subseteq Nat
      /\ Last > 0 /\ steps[Last].status \in {"running", "completed"}
      /\ handler.out \in Images \cup {None} /\ handler' = Idle
  BY DEF RecordImageFailure, IInv, TypeOK, PlaceInv, StepInv, OutInv, Failing, Transaction, End
<1>2. {faults', lostAcks'} \subseteq Nat
  <2>1. (faults' = faults \/ faults' = faults + 1) /\ (lostAcks' = lostAcks \/ lostAcks' = lostAcks + 1)
    BY DEF RecordImageFailure, Transaction
  <2>2. {faults, lostAcks} \subseteq Nat
    BY DEF IInv, TypeOK
  <2> QED
    BY <2>1, <2>2
<1>3. \/ UNCHANGED <<session, steps>>
      \/ /\ session.status = "generating_image" /\ steps' = Failed(handler.error)
         /\ session' = [session EXCEPT !.status = "failed", !.error = handler.error,
                                       !.orphan = handler.out]
  BY DEF RecordImageFailure, Transaction, Write
<1>4. CASE UNCHANGED <<session, steps>>
  <2>1. session.error # None =>
          \E i \in 1..Len(steps') : steps'[i].status = "failed" /\ steps'[i].error = session.error
    BY <1>4 DEF IInv, StepInv, Last
  <2> QED
    BY <1>1, <1>2, <1>4, <2>1, GivenUp
<1>5. CASE /\ session.status = "generating_image" /\ steps' = Failed(handler.error)
           /\ session' = [session EXCEPT !.status = "failed", !.error = handler.error,
                                         !.orphan = handler.out]
  <2>1. /\ steps' \in Seq(StepRow) /\ Last' = Last /\ Last \in Nat
        /\ steps'[Last].status = "failed" /\ steps'[Last].error = handler.error
    BY <1>1, <1>5, FailedRows
  <2>2. \E i \in 1..Len(steps') : steps'[i].status = "failed" /\ steps'[i].error = handler.error
    BY <1>1, <2>1 DEF Last
  <2> QED
    BY <1>1, <1>2, <1>5, <2>1, <2>2, ErrorStored DEF Failing
<1> QED
  BY <1>3, <1>4, <1>5

-----------------------------------------------------------------------------
(* Theorems.                                                                 *)

LEMMA InitSafe == Init => IInv
<1> SUFFICES ASSUME Init PROVE IInv
  OBVIOUS
<1>1. /\ session.status = "created" /\ session.brief = None /\ session.draft = None
      /\ session.package = None /\ session.final = None /\ session.error = None
      /\ handler = Idle /\ steps = <<>> /\ imageCalls = 0
  BY DEF Init
<1>2. session \in SessionRow
  BY StageAssumption DEF Init, SessionRow, Statuses
<1>3. TypeOK
  <2>1. {imageCalls, requests, faults, crashes, lostAcks} \subseteq Nat
    BY DEF Init
  <2>2. <<>> \in Seq(StepRow)
    OBVIOUS
  <2>3. handler \in Running
    BY <1>1, IdleRecord
  <2> QED
    BY <1>1, <1>2, <2>1, <2>2, <2>3 DEF TypeOK
<1>4. PlaceInv /\ StatusInv /\ OutInv
  BY <1>1, IdleRecord DEF PlaceInv, StatusInv, OutInv
<1>5. ContentInv
  BY <1>1 DEF ContentInv
<1>6. CallInv
  <2>1. handler.stage # "generating_image"
    BY <1>1, IdleRecord, StageAssumption, StageNames
  <2>2. ~(imageCalls > 0) /\ session.final = None /\ imageCalls = 0
    BY <1>1
  <2> QED
    BY <2>1, <2>2 DEF CallInv
<1>7. StepInv
  BY <1>1, IdleRecord DEF StepInv
<1> QED
  BY <1>3, <1>4, <1>5, <1>6, <1>7 DEF IInv

\* The inductive invariant holds in every reachable state.
THEOREM Invariance == Spec => []IInv
<1>1. ASSUME IInv, [Next]_vars PROVE IInv'
  <2>1. CASE UNCHANGED vars
    BY <1>1, <2>1
       DEF IInv, TypeOK, PlaceInv, StatusInv, ContentInv, OutInv, CallInv, StepInv, Last, vars, counters
  <2>2. CASE Next
    BY <1>1, <2>2, RequestsSafe, OpenStepSafe, FinishStepSafe, FinishStageSafe, FailStepSafe,
       FailSessionSafe, RecordImageSafe, ProposeBriefSafe, RetrieveEvidenceSafe, SelectSkillSafe,
       GenerateTextSafe, BuildPackageSafe, ImageToolsSafe, PersistImageSafe, CrashSafe DEF Next
  <2> QED
    BY <1>1, <2>1, <2>2
<1> QED
  BY InitSafe, <1>1, PTL DEF Spec

\* The rows of a session and of its steps, and a request in progress, have the
\* shapes the tables and the code give them; no text is revised past the limit.
THEOREM TypeCorrect == Spec => []TypeOK
  BY Invariance, PTL DEF IInv

\* A text shown as grounded cites sources, only ones relevant to the brief it was
\* written for, and the visual direction and the result are made of that text.
THEOREM TextIsGrounded == Spec => []GroundedCites
<1>1. IInv => GroundedCites
  <2> SUFFICES ASSUME IInv PROVE GroundedCites
    OBVIOUS
  <2>1. Detail.design # None => session.draft # None
    BY DEF Detail, DesignShown
  <2>2. session.draft # None =>
          /\ Cited(session.draft, session.brief) /\ session.brief # None
          /\ Detail.design = [grounded |-> session.draft.grounded, cites |-> session.draft.cites,
                              evidence |-> session.draft.evidence]
    BY DEF IInv, ContentInv, Detail, DesignShown
  <2>3. Detail.design # None =>
          /\ Detail.design.grounded <=> Detail.design.cites # {}
          /\ Detail.design.evidence = Detail.design.cites
    BY <2>1, <2>2 DEF Cited
  <2>4. ASSUME Detail.design # None, NEW source \in Detail.design.cites
        PROVE  /\ Relevance[session.brief.topic][source] >= MinScore
               /\ session.brief.topic = session.brief.understood =>
                    Relevance[Detail.brief][source] >= MinScore
    <3>1. Relevance[session.brief.topic][source] >= MinScore /\ session.brief # None
      BY <2>1, <2>2, <2>4 DEF Cited
    <3>2. Detail.brief = session.brief.understood
      BY <3>1 DEF Detail, BriefShown
    <3> QED
      BY <3>1, <3>2
  <2>5. session.package # None => session.package.sources = Detail.design.cites
    BY <2>2 DEF IInv, ContentInv, Cited
  <2>6. ASSUME Detail.final # None
        PROVE  session.final.cites = Detail.design.cites
               /\ Detail.final.grounded = Detail.design.grounded
    <3>1. session.final # None
      BY <2>6 DEF Detail, FinalShown
    <3>2. /\ session.draft # None /\ session.final.cites = session.draft.cites
          /\ session.final.grounded = session.draft.grounded
      BY <3>1 DEF IInv, ContentInv
    <3>3. Detail.final.grounded = session.final.grounded
      BY <3>1 DEF Detail, FinalShown
    <3> QED
      BY <2>2, <3>2, <3>3
  <2> QED
    BY <2>3, <2>4, <2>5, <2>6 DEF GroundedCites
<1> QED
  BY <1>1, Invariance, PTL

\* An error a client is shown is that of a failed step it is shown.
THEOREM ErrorsHaveSteps == Spec => []ErrorHasStep
<1>1. IInv => ErrorHasStep
  <2> SUFFICES ASSUME IInv, Detail.error # None
               PROVE  \E i \in 1..Len(Detail.steps) :
                        /\ Detail.steps[i].status = "failed"
                        /\ Detail.steps[i].error = Detail.error
    BY DEF ErrorHasStep
  <2>1. session.error # None /\ Detail.error = ErrorShown(session.error)
    BY DEF Detail, ErrorShown
  <2>2. PICK i \in 1..Last : steps[i].status = "failed" /\ steps[i].error = session.error
    BY <2>1 DEF IInv, StepInv
  <2>3. Detail.steps = StepsShown /\ Len(steps) \in Nat
    BY DEF Detail, IInv, TypeOK
  <2>4. Len(StepsShown) = Len(steps) /\ i \in 1..Len(steps)
    BY <2>3 DEF StepsShown, Last
  <2>5. StepsShown[i] = [tool |-> steps[i].tool, status |-> steps[i].status,
                         error |-> ErrorShown(steps[i].error)]
    BY <2>4 DEF StepsShown
  <2> QED
    BY <2>1, <2>2, <2>3, <2>4, <2>5
<1> QED
  BY <1>1, Invariance, PTL

\* An image costs the provider what its mode costs, the mode of the confirmed brief:
\* never more, and all of it for a result.
THEOREM ImageIsPaidOnce == Spec => []ProviderBudget
<1>1. IInv => ProviderBudget
  <2> SUFFICES ASSUME IInv PROVE ProviderBudget
    OBVIOUS
  <2>1. session.package # None => Detail.visual = session.package.mode
    BY DEF Detail, VisualShown
  <2>2. Detail.visual # None => session.package # None
    BY DEF Detail, VisualShown
  <2>3. Detail.final # None => session.final # None
    BY DEF Detail, FinalShown
  <2>4. session.final # None => session.package # None
    BY DEF IInv, ContentInv
  <2>5. session.package # None => session.package.mode = session.brief.mode
    BY DEF IInv, ContentInv
  <2> QED
    BY <2>1, <2>2, <2>3, <2>4, <2>5 DEF IInv, CallInv, ProviderBudget
<1> QED
  BY <1>1, Invariance, PTL

\* A settled step keeps its outcome, but for the newest one whose completion was
\* stored without an answer.
THEOREM StepsSettle == Spec => SettledOnce
<1> DEFINE Kept(i) == \/ steps'[i] = steps[i]
                      \/ /\ i = Len(steps) /\ lostAcks > 0
                         /\ steps[i].status = "completed" /\ steps'[i].status = "failed"
<1>1. ASSUME IInv, [Next]_vars, NEW i \in 1..Len(steps), steps[i].status # "running"
      PROVE  Kept(i)
  <2>1. /\ steps \in Seq(StepRow) /\ Len(steps) \in Nat /\ Last = Len(steps)
        /\ handler.at = "open" => handler.stage \in Stages
    BY <1>1 DEF IInv, TypeOK, Last, PlaceInv
  <2>2. CASE UNCHANGED steps
    BY <2>2
  <2>3. CASE \E row : steps' = Append(steps, row)
    BY <1>1, <2>1, <2>3
  <2>4. CASE /\ handler.at \in {"close", "finish"}
             /\ steps' = [steps EXCEPT ![Last].status = "completed"]
    <3>1. Last > 0 /\ steps[Last].status = "running"
      BY <1>1, <2>4 DEF IInv, StepInv
    <3>2. i # Last
      BY <1>1, <3>1
    <3> QED
      BY <1>1, <2>1, <2>4, <3>2
  <2>5. CASE handler.at \in {"failStep", "recordImage"} /\ steps' = Failed(handler.error)
    <3>1. /\ Last > 0 /\ handler.error \in Errors
          /\ \/ steps[Last].status = "running"
             \/ steps[Last].status = "completed" /\ lostAcks > 0
      BY <1>1, <2>5 DEF IInv, StepInv, PlaceInv, Failing
    <3>2. CASE i = Last
      <4>1. steps'[Last].status = "failed"
        BY <2>1, <2>5, <3>1, FailedRows
      <4> QED
        BY <1>1, <2>1, <3>1, <3>2, <4>1
    <3>3. CASE i # Last
      BY <1>1, <2>1, <2>5, <3>3 DEF Failed
    <3> QED
      BY <3>2, <3>3
  <2>6. \/ UNCHANGED steps \/ \E row : steps' = Append(steps, row)
        \/ /\ handler.at \in {"close", "finish"}
           /\ steps' = [steps EXCEPT ![Last].status = "completed"]
        \/ handler.at \in {"failStep", "recordImage"} /\ steps' = Failed(handler.error)
    <3>1. CASE AppendMessage \/ SubmitDecision
      BY <3>1 DEF AppendMessage, SubmitDecision, ConfirmBrief, ConfirmProductText,
                  ConfirmImageGeneration, Request, Transaction, Write
    <3>2. CASE OpenStep
      BY <3>2 DEF OpenStep, Transaction, Write
    <3>3. CASE FinishStep
      BY <3>3 DEF FinishStep, Transaction, Write
    <3>4. CASE FinishStage
      BY <3>4 DEF FinishStage, Transaction, Write
    <3>5. CASE FailStep
      BY <3>5 DEF FailStep, Transaction, Write
    <3>6. CASE FailSession
      BY <3>6 DEF FailSession, ReturnToTextFeedback, MarkFailed, Transaction, Write
    <3>7. CASE RecordImageFailure
      BY <3>7 DEF RecordImageFailure, Transaction, Write
    <3>8. CASE ProposeBrief \/ RetrieveEvidence \/ SelectTextSkill \/ SelectVisualSkill
               \/ GenerateText \/ BuildPackage \/ GenerateImage \/ EditReference \/ PersistImage
               \/ Crash \/ UNCHANGED vars
      BY <3>8 DEF ProposeBrief, RetrieveEvidence, SelectTextSkill, SelectVisualSkill, GenerateText,
                  BuildPackage, GenerateImage, EditReference, Called, PersistImage, Crash, vars
    <3> QED
      BY <1>1, <3>1, <3>2, <3>3, <3>4, <3>5, <3>6, <3>7, <3>8 DEF Next
  <2> QED
    BY <2>2, <2>3, <2>4, <2>5, <2>6
<1>2. IInv /\ [Next]_vars =>
        [\A i \in 1..Len(steps) : steps[i].status # "running" =>
           \/ steps'[i] = steps[i]
           \/ /\ i = Len(steps) /\ lostAcks > 0
              /\ steps[i].status = "completed" /\ steps'[i].status = "failed"]_vars
  BY <1>1
<1> QED
  BY <1>2, Invariance, PTL DEF Spec, SettledOnce

=============================================================================
