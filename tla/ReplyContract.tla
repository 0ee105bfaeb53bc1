---------------------------- MODULE ReplyContract ----------------------------
(***************************************************************************)
(* What a model may answer to an assistant turn, and which of it becomes   *)
(* the stored output of the run                                            *)
(* (backend/agents/design_conversation/outputs.py, as called by            *)
(* _validated_output of runtime/adapters/pydantic_ai.py).                  *)
(*                                                                         *)
(* A reply is its intent, the kind of its attachment and its business      *)
(* action; of the texts only one thing matters, whether the message echoes *)
(* the repair protocol.  Of an action's snapshot what matters is whether   *)
(* it has content, without which no document can be written.               *)
(***************************************************************************)

ActionTypes ==
  {"save_brief", "save_design_text", "apply_revision", "build_visual_direction",
   "generate_image_from_conversation", "generate_image_from_artifact",
   "regenerate_image", "archive_task"}

\* Commands of the confirmation dialogue, which stay readable.
LegacyCommands ==
  {"confirm_brief", "regenerate_product_text", "confirm_product_text",
   "confirm_image_generation"}

Intents ==
  {"exploration", "clarification", "general_answer", "cultural_research",
   "design_explanation", "design_comparison", "design_critique",
   "brief_proposal", "design_revision", "business_action_request"}

Attachments == {"none", "brief", "design_revision"}

\* A provider names an action alone, or in an envelope with a snapshot or,
\* as some do, a payload.
ProviderAction ==
  [form : {"scalar"}, command : ActionTypes, content : {FALSE}]
    \cup [form : {"snapshot", "payload"}, command : ActionTypes \cup LegacyCommands,
          content : BOOLEAN]
NoProviderAction == [form |-> "none", command |-> "none", content |-> FALSE]

ProviderReply ==
  [intent : Intents, artifact : Attachments,
   action : ProviderAction \cup {NoProviderAction}, echo : BOOLEAN]

BusinessAction == [command : ActionTypes \cup LegacyCommands, content : BOOLEAN]
NoAction       == [command |-> "none", content |-> FALSE]

\* _normalize_compatible_action_payload, and the scalar of the adapter: a
\* payload serves as the snapshot, a scalar has a snapshot without content.
Normalized(action) == [command |-> action.command, content |-> action.content]

\* adapt_provider_reply_v2: an action overrides the intent the model gave.
Adapt(raw) ==
  [intent |-> IF raw.action = NoProviderAction THEN raw.intent
              ELSE "business_action_request",
   artifact |-> raw.artifact, action |-> Normalized(raw.action), echo |-> raw.echo]

ExpectedArtifact(intent) ==
  CASE intent = "brief_proposal"  -> "brief"
    [] intent = "design_revision" -> "design_revision"
    [] OTHER                      -> "none"

\* Any marker counts, with an attachment or without.
LooksLikeProtocolEcho(reply) == reply.echo

\* _attachments_match_explicit_intent.
Accepted(reply) ==
  /\ reply.artifact = ExpectedArtifact(reply.intent)
  /\ reply.intent = "business_action_request" <=> reply.action # NoAction
  /\ ~LooksLikeProtocolEcho(reply)

\* The replies a run can store.
ConversationReplies == {reply \in {Adapt(raw) : raw \in ProviderReply} : Accepted(reply)}
=============================================================================
