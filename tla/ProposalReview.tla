--------------------------- MODULE ProposalReview ---------------------------
(***************************************************************************)
(* From an answer of the assistant to the design action a user pays for:   *)
(* the runs and messages of RuntimeTurn, the proposals derived from them   *)
(* (backend/services/agent_action_service.py), the card on which the       *)
(* workspace shows a proposal (frontend AgentDesignPanel.vue) and the      *)
(* action rows it requests and approves.                                   *)
(*                                                                         *)
(* A handler of an action is one step here: how its transactions           *)
(* interleave, and what an execution does, is ActionLifecycle's.  A        *)
(* digest is the proposal it is computed from.  Clients may fetch, click,  *)
(* retry and resume in any order and in several tabs; what a browser       *)
(* forgets or an answer that is lost is a click that never comes or is     *)
(* made again.                                                             *)
(***************************************************************************)
EXTENDS RuntimeTurn, ReplyContract

CONSTANTS
  Commands,  \* the commands models propose and clients ask for
  Window     \* limit of get_runtime_message_snapshot: 12 in the code

ASSUME ReviewAssumption == Commands \subseteq ActionTypes /\ Window \in Nat \ {0}

VARIABLES
  output,   \* final_output_json of each run
  shown,    \* the proposal a client shows for a run
  flow,     \* the request a client has made and is about to approve
  actions   \* agent_actions; agreed observes what was on the screen

review     == <<output, shown, flow, actions>>
reviewVars == <<vars, review>>

Image == "generate_image_from_conversation"

\* provider and provider_repair are "model"; the system's own fallback is no
\* more a proposal than a failed run, which has no output.
Output == [artifact : Attachments, action : BusinessAction \cup {NoAction},
           origin : {"model", "none"}]
NoOutput == [artifact |-> "none", action |-> NoAction, origin |-> "none"]

\* The snapshot a model adds to a conversation image is not used.
Outputs ==
  {[artifact |-> reply.artifact, action |-> reply.action, origin |-> "model"] :
     reply \in {r \in ConversationReplies :
                  /\ r.action # NoAction => r.action.command \in Commands
                  /\ r.action.command = Image => ~r.action.content}}
    \cup {NoOutput}

Proposal == [command : ActionTypes, kind : ActionTypes \cup {"brief", "product_design_text"},
             task : Scopes, sources : SUBSET Nat, content : BOOLEAN]
NoProposal == [command |-> "none", kind |-> "none", task |-> None, sources |-> {},
               content |-> FALSE]

Row == [turn : Turns, key : Nat, task : Scopes, snapshot : Proposal,
        status : {"requested", "approved", "executed"},
        agreed : Proposal \cup {NoProposal}]
NoFlow == [key |-> 0, agreed |-> NoProposal]

ReviewInit ==
  /\ Init
  /\ output = [t \in Turns |-> NoOutput] /\ shown = [t \in Turns |-> NoProposal]
  /\ flow = [t \in Turns |-> NoFlow] /\ actions = {}

-----------------------------------------------------------------------------
(* What a run proposes: AgentActionService._runtime_proposal.               *)

\* Mutant of Sources: the oldest rows of the scope are taken.
SourcesFromStart(t) ==
  LET rows == Rows(log, runs[t].task, Len(log))
  IN {i \in rows : Cardinality({j \in rows : j < i}) < Window}

\* get_runtime_message_snapshot: the newest rows of the run's scope, whoever
\* they are from.
Sources(t) ==
  LET rows == Rows(log, runs[t].task, Len(log))
  IN {i \in rows : Cardinality({j \in rows : j > i}) < Window}

\* The attachment that backs a save; no attachment is a design text.
SavedBy(command) ==
  CASE command = "save_brief" -> "brief" [] command = "save_design_text" -> "product_design_text"
    [] OTHER -> "nothing"

\* Only a completed run that the model has answered, and only its own command.
Proposes(t, command) ==
  /\ runs[t].status = "ended" /\ output[t].origin = "model"
  /\ IF output[t].action # NoAction
     THEN output[t].action.command = command
     ELSE output[t].artifact = SavedBy(command)

\* Mutant of RuntimeProposal: any proposal of a save is of its kind.
ProposalOfKind(t, command) ==
  [command |-> command,
   kind    |-> IF command = "save_brief" THEN "brief" ELSE command,
   task    |-> IF command = Image THEN runs[t].task ELSE None,
   sources |-> IF command = Image THEN Sources(t) ELSE {},
   content |-> command = Image \/ output[t].action = NoAction \/ output[t].action.content]

\* _generation_snapshot for an image, the model's own snapshot for any other
\* action, the attachment for a save without an action.
RuntimeProposal(t, command) ==
  [command |-> command,
   kind    |-> IF output[t].action = NoAction THEN SavedBy(command) ELSE command,
   task    |-> IF command = Image THEN runs[t].task ELSE None,
   sources |-> IF command = Image THEN Sources(t) ELSE {},
   content |-> command = Image \/ output[t].action = NoAction \/ output[t].action.content]

\* evaluate_action, for commands that look at no stored artifact.
PolicyAllows(proposal, task) ==
  /\ task \notin closed
  /\ proposal.command = "save_brief" => proposal.kind = "brief"
  /\ proposal.command = "save_design_text" => proposal.kind = "product_design_text"
  /\ proposal.command = Image => proposal.sources # {}
  /\ proposal.command = "archive_task" => task # None

OnSelectedTask(task) == task = None \/ active = task

\* GET .../action-proposal.
ShowProposal(t, command) ==
  /\ Proposes(t, command)
  /\ shown' = [shown EXCEPT ![t] = RuntimeProposal(t, command)]
  /\ UNCHANGED <<vars, output, flow, actions>>

-----------------------------------------------------------------------------
(* The card is confirmed: requestApproveExecute.                            *)

\* Mutant of RequestKey: every click has a key of its own.
KeyOfClick(t) == 1 + Cardinality(actions)

\* idempotency_key is request-<run>.
RequestKey(t) == 1

Requested(t, task, command) ==
  {a \in actions : /\ a.turn = t /\ a.key = RequestKey(t) /\ a.task = task
                   /\ a.snapshot.command = command}

\* Mutant of Matches: the digest is not compared.
MatchesRun(t, task, proposal) == task = runs[t].task

\* The scope and the digest that request_action compares.
Matches(t, task, proposal) ==
  /\ task = runs[t].task
  /\ proposal = RuntimeProposal(t, proposal.command)

\* Mutant of SameRequest: a key that is known is taken for the same request.
SameKey(a, proposal) == TRUE

\* request_hash: the snapshot is part of it.
SameRequest(a, proposal) == a.snapshot = proposal

\* request_action and insert_action_request: a new row, or the row of the
\* same request; any other is refused.
Click(t, task) ==
  LET now == RuntimeProposal(t, shown[t].command)
      old == Requested(t, task, shown[t].command)
  IN /\ flow[t] = NoFlow /\ shown[t] # NoProposal
     /\ Matches(t, task, shown[t])
     /\ OnSelectedTask(task) /\ PolicyAllows(now, task)
     /\ \A a \in old : SameRequest(a, now)
     /\ actions' = IF old # {} THEN actions
                   ELSE actions \cup {[turn |-> t, key |-> RequestKey(t), task |-> task,
                                       snapshot |-> now, status |-> "requested",
                                       agreed |-> NoProposal]}
     /\ flow' = [flow EXCEPT ![t] = [key |-> RequestKey(t), agreed |-> shown[t]]]
     /\ UNCHANGED <<vars, output, shown>>

InFlow(a) == flow[a.turn].key = a.key /\ flow[a.turn].agreed.command = a.snapshot.command

Becomes(a, status, agreed) ==
  actions' = (actions \ {a}) \cup {[a EXCEPT !.status = status, !.agreed = agreed]}

\* What approve checks besides the status.
Approvable(a) ==
  /\ OnSelectedTask(a.task) /\ PolicyAllows(a.snapshot, a.task)

\* The click goes on to approve the row it was answered with.
ApproveClicked(a) ==
  /\ a.status = "requested" /\ InFlow(a) /\ Approvable(a)
  /\ Becomes(a, "approved", flow[a.turn].agreed)
  /\ flow' = [flow EXCEPT ![a.turn] = NoFlow]
  /\ UNCHANGED <<vars, output, shown>>

\* resumeRequestedAction: the list of open actions has the summary only.
ApproveResumed(a) ==
  /\ a.status = "requested" /\ Approvable(a)
  /\ Becomes(a, "approved", NoProposal)
  /\ UNCHANGED <<vars, output, shown, flow>>

\* The click ends in an error, in an answer that is lost or in a reload.
GiveUp(t) ==
  /\ flow[t] # NoFlow
  /\ flow' = [flow EXCEPT ![t] = NoFlow]
  /\ UNCHANGED <<vars, output, shown, actions>>

\* _command wants content, _image_snapshot the task of the row.
Executable(a) ==
  /\ a.status = "approved" /\ a.snapshot.content
  /\ a.snapshot.command = Image => a.snapshot.task = a.task

\* The execution begins: for an image the provider is called.
Execute(a) ==
  /\ Executable(a)
  /\ Becomes(a, "executed", a.agreed)
  /\ UNCHANGED <<vars, output, shown, flow>>

-----------------------------------------------------------------------------
\* A turn that ends stores what the model's answer came to.
StoreOutput(h) ==
  /\ IF runs[job[h].turn].status = "running"
     THEN \E result \in Outputs : output' = [output EXCEPT ![job[h].turn] = result]
     ELSE UNCHANGED output
  /\ UNCHANGED <<shown, flow, actions>>

TurnStep(h) ==
  \/ /\ ReadMessages(h) \/ ReadSummary(h) \/ Compress(h) \/ KeepSummary(h) \/ StoreSummary(h)
     /\ UNCHANGED review
  \/ CompleteRun(h) /\ StoreOutput(h)

RuntimeRequest ==
  /\ \/ \E h \in Handlers : \/ \E p \in Processes, t \in Turns : StartTurn(h, p, t)
                            \/ LoseTurn(h)
     \/ OtherRequest
  /\ UNCHANGED review

ReviewRequest ==
  \/ \E t \in Turns : \/ \E command \in Commands : ShowProposal(t, command)
                      \/ \E task \in Scopes : Click(t, task)
                      \/ GiveUp(t)
  \/ \E a \in actions : ApproveClicked(a) \/ ApproveResumed(a) \/ Execute(a)

ReviewNext == (\E h \in Handlers : TurnStep(h)) \/ RuntimeRequest \/ ReviewRequest

ReviewSpec == ReviewInit /\ [][ReviewNext]_reviewVars

\* As in RuntimeTurn; nobody has to click.
FairReview == ReviewSpec /\ \A h \in Handlers : WF_reviewVars(TurnStep(h))

-----------------------------------------------------------------------------
(* Properties.                                                              *)

ReviewTypeOK ==
  /\ output \in [Turns -> Output]
  /\ \A t \in Turns : /\ shown[t] \in Proposal \cup {NoProposal}
                      /\ flow[t].agreed \in Proposal \cup {NoProposal}
  /\ actions \subseteq Row

\* What is executed is what the user had on the screen: the proposal of the
\* card whose click approved it, whatever turns, tabs and retries came in
\* between, and a run is executed once at most.
ExecutedAsShown ==
  /\ \A a \in actions : a.agreed # NoProposal => a.agreed = a.snapshot
  /\ \A a, b \in actions : a.status = "executed" /\ b.status = "executed" /\ a.turn = b.turn
       => a = b

\* An approved action is frozen whole.  An image is drawn from messages of the
\* scope its row is kept in, and the turn that proposed it is among them or
\* older than all of them (agent_action_service.py:41 reads the newest rows,
\* not the run's); a save has its content, so that neither an image nor a
\* save, once approved, is refused for good by the executor.
FrozenWhole ==
  \A a \in actions :
    /\ a.snapshot.command = Image =>
         /\ a.snapshot.task = a.task
         /\ \A i \in a.snapshot.sources : log[i].task = a.task
         /\ \E q \in 1..Len(log) : /\ log[q] = Question(a.turn)
                                   /\ q \notin a.snapshot.sources =>
                                        \A i \in a.snapshot.sources : i > q
    /\ a.status = "approved" /\ a.snapshot.command \in {Image, "save_brief", "save_design_text"}
         => Executable(a)
=============================================================================
