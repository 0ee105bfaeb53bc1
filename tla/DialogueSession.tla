--------------------------- MODULE DialogueSession ---------------------------
(***************************************************************************)
(* The confirmation dialogue of one agent session                          *)
(* (backend/services/agent_dialogue_service.py over                        *)
(* backend/services/agent_dialogue_repository.py).                         *)
(*                                                                         *)
(* A worker runs one HTTP handler at a time.  A handler is a chain of      *)
(* short transactions on the locked session row with model or provider     *)
(* calls between them; every transaction and every unlocked read is one    *)
(* action here, so handlers of different workers interleave between them.  *)
(* A transaction that raises leaves the row as it was: a refused request   *)
(* is an action that is not enabled, unless the handler has already        *)
(* written something.                                                      *)
(*                                                                         *)
(* A brief, a design text and an image prompt package are represented by   *)
(* the set of user turns they incorporate; {} is a NULL column.            *)
(***************************************************************************)
EXTENDS Naturals, FiniteSets

CONSTANTS
  Workers,        \* server processes
  Turns,          \* client_turn_id values the user's messages carry
  Decisions,      \* decision_id values the user's confirmations carry
  None,           \* SQL NULL, and the argument of an idle worker
  RevisionLimit,  \* accepted revisions of the design text: 4 in the code
  MaxCrashes      \* bound on worker crashes

ASSUME DialogueAssumption ==
  /\ RevisionLimit \in Nat
  /\ MaxCrashes \in Nat
  /\ None \notin Turns \cup Decisions

VARIABLES
  \* the agent_sessions row
  status, brief, text, package, revisions,
  logId,          \* generation_log_id: the confirmation whose image it is
  orphan,         \* context_summary_json.orphaned_image_url, likewise
  \* agent_messages and generation_logs
  turns,          \* client_turn_ids stored
  receipts,       \* decision_ids stored
  logged,         \* confirmations that have a generation_logs row
  files,          \* static/images: confirmations whose image is stored there
  \* the workers
  job,
  \* observers: claims and provider calls, and which stages lost their handler
  imageClaims, calls, abandoned, crashes

\* The session row; the image files and the observers.
row      == <<status, brief, text, package, revisions, logId, orphan>>
observed == <<files, imageClaims, calls, abandoned, crashes>>
vars     == <<row, turns, receipts, logged, job, observed>>

Statuses == {"created", "extracting_brief", "waiting_brief_confirmation",
             "generating_product_text", "waiting_text_feedback",
             "building_visual_prompt", "waiting_image_confirmation",
             "generating_image", "completed", "failed"}

\* The stages during which a handler owns the next step of the session.
Stages == {"extracting_brief", "generating_product_text",
           "building_visual_prompt", "generating_image"}

\* Where a handler can be, and the stage it works for there.
LocationsOf(stage) ==
  CASE stage = "extracting_brief" -> {"propose", "revise", "finishBrief"}
    [] stage = "generating_product_text" ->
         {"readText", "readRevision", "text", "revision"}
    [] stage = "building_visual_prompt" -> {"readVisual", "visual"}
    [] stage = "generating_image" -> {"image", "persist", "finishImage", "imageFailed"}

Locations == {"idle", "append", "claim", "propose", "revise", "finishBrief",
              "readText", "readRevision", "text", "revision", "readVisual",
              "visual", "image", "persist", "finishImage", "imageFailed"}

Job  == [at : Locations, arg : Turns \cup Decisions \cup {None},
         draft : SUBSET Turns]
Idle == [at |-> "idle", arg |-> None, draft |-> {}]

GoTo(w, where)   == job' = [job EXCEPT ![w].at = where]
Done(w)          == job' = [job EXCEPT ![w] = Idle]
Start(w, where, a) ==
  job' = [job EXCEPT ![w] = [at |-> where, arg |-> a, draft |-> {}]]
Draft(w, where, content) ==
  job' = [job EXCEPT ![w] = [at |-> where, arg |-> @.arg, draft |-> content]]

Init ==
  /\ status = "created" /\ brief = {} /\ text = {} /\ package = {}
  /\ revisions = 0 /\ logId = None /\ orphan = None
  /\ turns = {} /\ receipts = {} /\ logged = {} /\ files = {}
  /\ job = [w \in Workers |-> Idle]
  /\ imageClaims = {} /\ calls = [d \in Decisions |-> 0]
  /\ abandoned = {} /\ crashes = 0

-----------------------------------------------------------------------------
(* POST .../messages: append_message.                                       *)

\* The unlocked read that refuses a revision past the limit before anything
\* is written.
ReceiveMessage(w, t) ==
  /\ job[w].at = "idle"
  /\ ~(status = "waiting_text_feedback" /\ revisions >= RevisionLimit)
  /\ Start(w, "append", t)
  /\ UNCHANGED <<row, turns, receipts, logged, observed>>

\* append_user_message of a client_turn_id already stored: the current
\* snapshot is returned and nothing runs.
MessageReplayed(w) ==
  /\ job[w].at = "append" /\ job[w].arg \in turns
  /\ Done(w)
  /\ UNCHANGED <<row, turns, receipts, logged, observed>>

StoreTurn(w) ==
  /\ job[w].at = "append" /\ job[w].arg \notin turns
  /\ turns' = turns \cup {job[w].arg}

\* append_user_message while the brief is being worked out.
MessageForBrief(w) ==
  /\ StoreTurn(w)
  /\ status \in {"created", "extracting_brief", "waiting_brief_confirmation"}
  /\ status' = IF status = "created" THEN "extracting_brief" ELSE status
  /\ GoTo(w, IF status = "waiting_brief_confirmation" THEN "revise" ELSE "propose")
  /\ UNCHANGED <<brief, text, package, revisions, logId, orphan,
                 receipts, logged, observed>>

\* append_user_message that is feedback on the design text.
MessageForText(w) ==
  /\ StoreTurn(w)
  /\ status = "waiting_text_feedback" /\ revisions < RevisionLimit
  /\ GoTo(w, "claim")
  /\ UNCHANGED <<row, receipts, logged, observed>>

\* append_user_message in any other state: the message stays stored and the
\* handler then answers 409.
MessageRefused(w) ==
  /\ StoreTurn(w)
  /\ \/ status \in Statuses \ {"created", "extracting_brief",
                      "waiting_brief_confirmation", "waiting_text_feedback"}
     \/ status = "waiting_text_feedback" /\ revisions >= RevisionLimit
  /\ Done(w)
  /\ UNCHANGED <<row, receipts, logged, observed>>

\* The model call of the brief agent; a revision starts from the brief read
\* now, unless the user asked to rebuild it.
CallBriefAgent(w) ==
  /\ job[w].at \in {"propose", "revise"}
  /\ \E base \in {{}, brief} :
       /\ job[w].at = "propose" => base = {}
       /\ Draft(w, "finishBrief", base \cup {job[w].arg})
  /\ UNCHANGED <<row, turns, receipts, logged, observed>>

\* finish_brief looks at no status: whatever the session is doing, it now
\* waits for a confirmation of this brief.
FinishBrief(w) ==
  /\ job[w].at = "finishBrief"
  /\ brief' = job[w].draft
  /\ status' = "waiting_brief_confirmation"
  /\ Done(w)
  /\ UNCHANGED <<text, package, revisions, logId, orphan,
                 turns, receipts, logged, observed>>

\* The except branch: fail_step, then a mark_failed that looks at no status.
FailBrief(w) ==
  /\ job[w].at = "finishBrief"
  /\ status' = "failed"
  /\ Done(w)
  /\ UNCHANGED <<brief, text, package, revisions, logId, orphan,
                 turns, receipts, logged, observed>>

-----------------------------------------------------------------------------
(* The design text: confirm_brief, feedback, _generate_product_text.        *)

\* Mutants of Decide: the receipt alone guards a decision; the status alone.
DecideAnywhere(w, d, from) ==
  /\ job[w].at = "idle"
  /\ d \notin receipts
  /\ receipts' = receipts \cup {d}
DecideAgain(w, d, from) ==
  /\ job[w].at = "idle"
  /\ status = from
  /\ receipts' = receipts \cup {d}

\* The common part of the three confirm_* transactions.
Decide(w, d, from) ==
  /\ job[w].at = "idle"
  /\ d \notin receipts
  /\ status = from
  /\ receipts' = receipts \cup {d}

\* POST .../decisions with confirm_brief.
ConfirmBrief(w, d) ==
  /\ Decide(w, d, "waiting_brief_confirmation")
  /\ brief # {}
  /\ status' = "generating_product_text"
  /\ Start(w, "readText", None)
  /\ UNCHANGED <<brief, text, package, revisions, logId, orphan,
                 turns, logged, observed>>

\* transition(..., expected waiting_text_feedback, no version): the feedback
\* was stored by an earlier transaction of this handler.
ClaimRevision(w) ==
  /\ job[w].at = "claim"
  /\ IF status = "waiting_text_feedback"
       THEN status' = "generating_product_text" /\ GoTo(w, "readRevision")
       ELSE status' = status /\ Done(w)
  /\ UNCHANGED <<brief, text, package, revisions, logId, orphan,
                 turns, receipts, logged, observed>>

\* The unlocked read of the brief and the current draft, and the model call.
ReadForText(w) ==
  /\ job[w].at \in {"readText", "readRevision"} /\ brief # {}
  /\ IF job[w].at = "readText"
       THEN Draft(w, "text", brief)
       ELSE Draft(w, "revision", brief \cup text \cup {job[w].arg})
  /\ UNCHANGED <<row, turns, receipts, logged, observed>>

\* finish_product_text; the table's CHECK refuses a fifth revision.
FinishText(w) ==
  /\ job[w].at \in {"text", "revision"}
  /\ status = "generating_product_text"
  /\ job[w].at = "revision" => revisions < RevisionLimit
  /\ text' = job[w].draft
  /\ revisions' = IF job[w].at = "revision" THEN revisions + 1 ELSE revisions
  /\ status' = "waiting_text_feedback"
  /\ Done(w)
  /\ UNCHANGED <<brief, package, logId, orphan, turns, receipts, logged, observed>>

\* Mutant of FailText: the branch of a revision taken for a first draft.
FailTextToFeedback(w) ==
  /\ job[w].at = "text"
  /\ status' = "waiting_text_feedback"
  /\ Done(w)
  /\ UNCHANGED <<brief, text, package, revisions, logId, orphan,
                 turns, receipts, logged, observed>>

\* The except branch of a first draft: the model failed, or
\* finish_product_text raised.  mark_failed looks at no status.
FailText(w) ==
  /\ job[w].at = "text"
  /\ status' = "failed"
  /\ Done(w)
  /\ UNCHANGED <<brief, text, package, revisions, logId, orphan,
                 turns, receipts, logged, observed>>

\* Mutant of FailRevision: the error is answered and the status left.
FailRevisionSilently(w) ==
  /\ job[w].at = "revision"
  /\ Done(w)
  /\ UNCHANGED <<row, turns, receipts, logged, observed>>

\* The except branch of a revision: return_to_text_feedback keeps the last
\* draft, and refuses when the session is elsewhere.
FailRevision(w) ==
  /\ job[w].at = "revision"
  /\ status' = IF status = "generating_product_text"
                 THEN "waiting_text_feedback" ELSE status
  /\ Done(w)
  /\ UNCHANGED <<brief, text, package, revisions, logId, orphan,
                 turns, receipts, logged, observed>>

-----------------------------------------------------------------------------
(* The visual direction: confirm_product_text, _build_visual_prompt.        *)

\* POST .../decisions with confirm_product_text.
ConfirmProductText(w, d) ==
  /\ Decide(w, d, "waiting_text_feedback")
  /\ text # {}
  /\ status' = "building_visual_prompt"
  /\ Start(w, "readVisual", None)
  /\ UNCHANGED <<brief, text, package, revisions, logId, orphan,
                 turns, logged, observed>>

\* Mutant of ReadForVisual: the package is built from the brief alone.
ReadBriefForVisual(w) ==
  /\ job[w].at = "readVisual" /\ brief # {} /\ text # {}
  /\ Draft(w, "visual", brief)
  /\ UNCHANGED <<row, turns, receipts, logged, observed>>

\* The unlocked read of brief and text, and the building of the package.
ReadForVisual(w) ==
  /\ job[w].at = "readVisual" /\ brief # {} /\ text # {}
  /\ Draft(w, "visual", text)
  /\ UNCHANGED <<row, turns, receipts, logged, observed>>

\* finish_visual_prompt.
FinishVisual(w) ==
  /\ job[w].at = "visual"
  /\ status = "building_visual_prompt"
  /\ package' = job[w].draft
  /\ status' = "waiting_image_confirmation"
  /\ Done(w)
  /\ UNCHANGED <<brief, text, revisions, logId, orphan,
                 turns, receipts, logged, observed>>

\* The except branch, also when finish_visual_prompt itself refused.
FailVisual(w) ==
  /\ job[w].at = "visual"
  /\ status' = "failed"
  /\ Done(w)
  /\ UNCHANGED <<brief, text, package, revisions, logId, orphan,
                 turns, receipts, logged, observed>>

-----------------------------------------------------------------------------
(* The image: confirm_image_generation, _generate_final_image.              *)

\* POST .../decisions with confirm_image_generation: the claim.
ConfirmImage(w, d) ==
  /\ Decide(w, d, "waiting_image_confirmation")
  /\ package # {}
  /\ status' = "generating_image"
  /\ imageClaims' = imageClaims \cup {d}
  /\ Start(w, "image", d)
  /\ UNCHANGED <<brief, text, package, revisions, logId, orphan,
                 turns, logged, files, calls, abandoned, crashes>>

\* The provider call, outside any transaction.  It returns the address of an
\* image or fails.
CallImageProvider(w) ==
  /\ job[w].at = "image" /\ brief # {} /\ text # {} /\ package # {}
  /\ calls' = [calls EXCEPT ![job[w].arg] = @ + 1]
  /\ GoTo(w, "persist") \/ GoTo(w, "imageFailed")
  /\ UNCHANGED <<row, turns, receipts, logged, files, imageClaims, abandoned, crashes>>

\* persist_generated_image fetches the image and stores it.  When either
\* fails, the handler has no address to keep: an image that was paid is lost.
PersistImage(w) ==
  /\ job[w].at = "persist"
  /\ \/ files' = files \cup {job[w].arg} /\ GoTo(w, "finishImage")
     \/ UNCHANGED files /\ GoTo(w, "imageFailed")
  /\ UNCHANGED <<row, turns, receipts, logged, imageClaims, calls, abandoned, crashes>>

\* Mutant of FinishImage: it looks at the binding no more than finish_brief
\* looks at the status.
FinishImageAnywhere(w) ==
  /\ job[w].at = "finishImage"
  /\ logged' = logged \cup {job[w].arg}
  /\ logId' = job[w].arg
  /\ orphan' = None
  /\ status' = "completed"
  /\ Done(w)
  /\ UNCHANGED <<brief, text, package, revisions, turns, receipts, observed>>

\* finish_image_generation: the log row, its binding and the completion in
\* one transaction.  context_summary_json is replaced by the final result.
FinishImage(w) ==
  /\ job[w].at = "finishImage"
  /\ status = "generating_image" /\ logId = None
  /\ logged' = logged \cup {job[w].arg}
  /\ logId' = job[w].arg
  /\ orphan' = None
  /\ status' = "completed"
  /\ Done(w)
  /\ UNCHANGED <<brief, text, package, revisions, turns, receipts, observed>>

\* Mutant of RecordImageFailure: the URL of an unlogged image is not kept.
RecordFailureOnly(w) ==
  /\ job[w].at \in {"finishImage", "imageFailed"}
  /\ status' = IF status = "generating_image" THEN "failed" ELSE status
  /\ Done(w)
  /\ UNCHANGED <<brief, text, package, revisions, logId, orphan,
                 turns, receipts, logged, observed>>

\* record_image_persistence_failure: it keeps the URL of a stored file that
\* finish_image_generation could not log; after a failure of the provider or
\* of the storing there is none.  It refuses when the session is elsewhere.
RecordImageFailure(w) ==
  /\ job[w].at \in {"finishImage", "imageFailed"}
  /\ IF status = "generating_image"
       THEN /\ status' = "failed"
            /\ orphan' = IF job[w].at = "finishImage" THEN job[w].arg ELSE None
       ELSE UNCHANGED <<status, orphan>>
  /\ Done(w)
  /\ UNCHANGED <<brief, text, package, revisions, logId,
                 turns, receipts, logged, observed>>

-----------------------------------------------------------------------------
\* record_unsupported_decision (regenerate_product_text and the like): the
\* receipt uses up the decision_id and nothing else happens.
UnsupportedDecision(w, d) ==
  /\ job[w].at = "idle"
  /\ d \notin receipts
  /\ receipts' = receipts \cup {d}
  /\ UNCHANGED <<row, turns, logged, job, observed>>

\* The worker dies, or an exception leaves the handler outside its try
\* blocks (an append_step that cannot be written, the evidence or the Skill
\* loader, the bookkeeping of an except branch).  No stage is resumed later.
Crash(w) ==
  /\ job[w].at # "idle" /\ crashes < MaxCrashes
  /\ crashes' = crashes + 1
  /\ abandoned' = abandoned \cup {s \in Stages : job[w].at \in LocationsOf(s)}
  /\ Done(w)
  /\ UNCHANGED <<row, turns, receipts, logged, files, imageClaims, calls>>

\* The steps a handler takes once its request has been accepted.
HandlerStep(w) ==
  \/ MessageReplayed(w) \/ MessageForBrief(w) \/ MessageForText(w)
  \/ MessageRefused(w) \/ CallBriefAgent(w) \/ FinishBrief(w) \/ FailBrief(w)
  \/ ClaimRevision(w) \/ ReadForText(w) \/ FinishText(w) \/ FailText(w)
  \/ FailRevision(w) \/ ReadForVisual(w) \/ FinishVisual(w) \/ FailVisual(w)
  \/ CallImageProvider(w) \/ PersistImage(w) \/ FinishImage(w) \/ RecordImageFailure(w)

\* What a client asks for.
ClientRequest(w) ==
  \/ \E t \in Turns : ReceiveMessage(w, t)
  \/ \E d \in Decisions :
       \/ ConfirmBrief(w, d) \/ ConfirmProductText(w, d)
       \/ ConfirmImage(w, d) \/ UnsupportedDecision(w, d)

Next == \E w \in Workers : ClientRequest(w) \/ HandlerStep(w) \/ Crash(w)

Spec == Init /\ [][Next]_vars

\* A running handler is not preempted for ever, and model and provider calls
\* return: they carry client timeouts.  Nobody is obliged to send a request.
FairSpec == Spec /\ \A w \in Workers : WF_vars(HandlerStep(w))

-----------------------------------------------------------------------------
\* The types, with the revisions within the limit however many were admitted
\* below it at the same moment.
TypeOK ==
  /\ status \in Statuses
  /\ brief \in SUBSET Turns /\ text \in SUBSET Turns /\ package \in SUBSET Turns
  /\ revisions \in 0..RevisionLimit
  /\ logId \in Decisions \cup {None} /\ orphan \in Decisions \cup {None}
  /\ turns \in SUBSET Turns
  /\ receipts \in SUBSET Decisions /\ logged \in SUBSET Decisions
  /\ job \in [Workers -> Job]
  /\ imageClaims \in SUBSET Decisions /\ calls \in [Decisions -> Nat]
  /\ files \in SUBSET Decisions
  /\ abandoned \in SUBSET Stages /\ crashes \in 0..MaxCrashes

\* A stage the session shows as in progress has a handler working on it, or
\* that handler was lost: no failure branch, lost race or refused transaction
\* leaves a session stuck.
NoOrphanedStage ==
  status \in Stages =>
    \/ \E w \in Workers : job[w].at \in LocationsOf(status)
    \/ status \in abandoned

\* A session that asks for a confirmation has the content to be confirmed,
\* whichever handlers raced to bring it there.
ConfirmableContent ==
  /\ status \in {"waiting_brief_confirmation", "generating_product_text"} => brief # {}
  /\ status \in {"waiting_text_feedback", "building_visual_prompt"} =>
       brief # {} /\ text # {}
  /\ status \in {"waiting_image_confirmation", "generating_image", "completed"} =>
       brief # {} /\ text # {} /\ package # {}

\* A session has at most one generation_logs row, the one it is bound to, and
\* a completed session has it.
OneGenerationLog ==
  /\ \A d \in logged : d = logId
  /\ status = "completed" => logId # None

\* Every provider call answers its own image confirmation: none runs twice
\* for one decision_id, and none without one.
OneCallPerConfirmation ==
  \A d \in Decisions : calls[d] > 0 =>
    calls[d] = 1 /\ d \in imageClaims /\ d \in receipts

\* A session pays for one image: "the only allowed final image generation".
OneImageCall == \A d, e \in Decisions : calls[d] > 0 /\ calls[e] > 0 => d = e

\* What is confirmed for the image was built from the text now stored, and
\* that text takes in the brief now stored.
ImageMatchesText ==
  status \in {"waiting_image_confirmation", "generating_image", "completed"} =>
    package = text /\ brief \subseteq text

\* "Keep a locally persisted artifact discoverable" (the docstring of
\* record_image_persistence_failure): without a crash, an image whose file is
\* stored is in a log row, kept as the orphaned URL, or still in the hands of
\* its handler; and a log row or an orphaned URL never names a file that is
\* not there.  An image that was returned and could not be stored is lost.
NoImageLost ==
  /\ crashes = 0 => \A d \in files :
       \/ d \in logged \/ d = orphan
       \/ \E w \in Workers : job[w].at = "finishImage" /\ job[w].arg = d
  /\ logged \cup ({orphan} \ {None}) \subseteq files

\* A stage in progress ends, unless the worker that ran it crashed.
StagesEnd == \A s \in Stages : status = s ~> status # s \/ s \in abandoned
=============================================================================
