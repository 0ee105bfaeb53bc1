--------------------------- MODULE ActionLifecycle ---------------------------
(***************************************************************************)
(* Design tasks, actions and artifacts of one conversation                 *)
(* (backend/services/agent_action_service.py, backend/agents/actions and   *)
(* backend/services/agent_design_domain_repository.py).                    *)
(*                                                                         *)
(* A handler reads tasks and artifacts in transactions of their own, asks  *)
(* the policy, and then writes in one more transaction, which checks again *)
(* what it needs; an image action calls its provider between two writes.   *)
(* A handler that is refused is dropped: the row it wanted to change is as *)
(* it was.                                                                 *)
(*                                                                         *)
(* An action stands for one idempotency key of one scope and action type,  *)
(* which is what the table holds unique.  save_brief, save_design_text and *)
(* build_visual_direction differ in the artifact type only and are "save"; *)
(* histories of different types never meet, so one "document" type stands  *)
(* for all of them.  The conversation is never archived by this code.      *)
(***************************************************************************)
EXTENDS Naturals, FiniteSetsExt

CONSTANTS
  Workers,     \* server processes
  Tasks,       \* design tasks, by client_task_id
  Actions,     \* requests, by (scope, action type, idempotency key)
  None,        \* SQL NULL; as a scope, the conversation itself
  MaxCrashes   \* bound on worker crashes and failed failure marks

ASSUME ActionAssumption == None \notin Tasks \cup Actions /\ MaxCrashes \in Nat

VARIABLES
  tasks,       \* agent_design_tasks; closedBy observes which action closed it
  active,      \* agent_sessions.active_task_id
  actions,     \* agent_actions
  artifacts,   \* agent_artifacts
  logs,        \* generation_logs rows written for each action
  job,         \* what each worker is doing
  calls, returned, crashes   \* observers: the image provider, and crashes

stored   == <<tasks, active, actions, artifacts, logs>>
observed == <<calls, returned, crashes>>
vars     == <<stored, job, observed>>

Scopes        == Tasks \cup {None}
Kinds         == {"save", "revise", "image", "archive"}
ArtifactTypes == {"document", "generated_image"}
Versions      == Nat \cup {None}

Task == [status : {"absent", "exploring", "closed"}, version : Nat,
         closedBy : Actions \cup {None}]
ActionStatus == {"absent", "requested", "approved", "rejected", "running",
                 "completed", "failed"}

\* What a client asks for: proposal_snapshot_json with its scope.
Proposal == [scope : Scopes, kind : Kinds, type : ArtifactTypes, base : Nat]
NoProposal == [scope |-> None, kind |-> "save", type |-> "document", base |-> 0]
Action == [status : ActionStatus, ask : Proposal,
           outcome : {None, "claimed", "provider_succeeded", "completed"}]
Artifact == [scope : Scopes, type : ArtifactTypes, version : Nat, parent : Nat,
             status : {"confirmed", "superseded"}, by : Actions]

Locations == {"idle", "insert", "approve", "execute", "provider",
              "providerDone", "complete", "imageFailed"}
Job  == [at : Locations, action : Actions \cup {None}, ask : Proposal,
         expected : Versions]
Idle == [at |-> "idle", action |-> None, ask |-> NoProposal, expected |-> None]

Done(w)        == job' = [job EXCEPT ![w] = Idle]
GoTo(w, where) == job' = [job EXCEPT ![w].at = where]
Start(w, where, a, ask, expected) ==
  job' = [job EXCEPT ![w] = [at |-> where, action |-> a, ask |-> ask,
                             expected |-> expected]]

Init ==
  /\ tasks = [t \in Tasks |-> [status |-> "absent", version |-> 0, closedBy |-> None]]
  /\ active = None
  /\ actions = [a \in Actions |-> [status |-> "absent", ask |-> NoProposal,
                                   outcome |-> None]]
  /\ artifacts = {}
  /\ logs = [a \in Actions |-> 0]
  /\ job = [w \in Workers |-> Idle]
  /\ calls = [a \in Actions |-> 0] /\ returned = {} /\ crashes = 0

-----------------------------------------------------------------------------
(* Tasks: create_task and select_active_task, one transaction each.         *)

CreateTask(t) ==
  /\ tasks[t].status = "absent"
  /\ tasks' = [tasks EXCEPT ![t].status = "exploring", ![t].version = 1]
  /\ UNCHANGED <<active, actions, artifacts, logs, job, observed>>

SelectTask(t) ==
  /\ tasks[t].status = "exploring"
  /\ active' = t
  /\ UNCHANGED <<tasks, actions, artifacts, logs, job, observed>>

-----------------------------------------------------------------------------
(* What the handlers check.                                                 *)

History(scope, type) == {x \in artifacts : x.scope = scope /\ x.type = type}
Confirmed(scope)     == {x \in artifacts : x.scope = scope /\ x.status = "confirmed"}

\* The version a client sends is the one it sees, or none at all; for the
\* conversation scope the code refuses any.
ClientVersions(scope) ==
  {None} \cup (IF scope = None THEN {} ELSE {tasks[scope].version})

\* Mutant of VersionHolds: the version sent is not compared.
VersionIgnored(scope, expected) == expected = None \/ scope # None

VersionHolds(scope, expected) ==
  expected = None \/ (scope # None /\ tasks[scope].version = expected)

\* evaluate_action.  For a revision it looks for any confirmed artifact among
\* base_artifact_ids, which are not the base_artifact_id of the command.
Allowed(ask) ==
  /\ ask.scope # None => tasks[ask.scope].status = "exploring"
  /\ ask.kind = "revise" => Confirmed(ask.scope) # {}
  /\ ask.kind = "archive" => ask.scope # None

OnActiveTask(ask) == ask.scope # None => active = ask.scope

-----------------------------------------------------------------------------
(* POST .../actions: request_action.                                        *)

\* What a completed runtime turn can have proposed: a revision names an
\* artifact of the scope.
Offered ==
  {ask \in [scope : Scopes, kind : Kinds, type : ArtifactTypes,
            base : {0} \cup {x.version : x \in artifacts}] :
     /\ ask.kind = "image" <=> ask.type = "generated_image" /\ ask.base = 0
     /\ ask.kind = "revise" <=> ask.base # 0
     /\ ask.base # 0 => \E x \in History(ask.scope, ask.type) : x.version = ask.base}

\* The reads and the policy.
RequestAction(w, a) ==
  /\ job[w].at = "idle"
  /\ \E ask \in Offered :
       /\ actions[a].status # "absent" => actions[a].ask = ask
       /\ OnActiveTask(ask) /\ Allowed(ask)
       /\ \E expected \in ClientVersions(ask.scope) : Start(w, "insert", a, ask, expected)
  /\ UNCHANGED <<stored, observed>>

\* insert_action_request: the version first, then the idempotency key.
InsertRequest(w) ==
  /\ job[w].at = "insert"
  /\ IF /\ VersionHolds(job[w].ask.scope, job[w].expected)
        /\ actions[job[w].action].status = "absent"
       THEN actions' = [actions EXCEPT ![job[w].action] =
              [status |-> "requested", ask |-> job[w].ask, outcome |-> None]]
       ELSE UNCHANGED actions
  /\ Done(w)
  /\ UNCHANGED <<tasks, active, artifacts, logs, observed>>

-----------------------------------------------------------------------------
(* The user's decision: approve and reject.                                 *)

ApproveAction(w, a) ==
  /\ job[w].at = "idle"
  /\ actions[a].status # "absent"
  /\ LET ask == actions[a].ask IN
     /\ OnActiveTask(ask) /\ Allowed(ask)
     /\ \E expected \in ClientVersions(ask.scope) :
          Start(w, "approve", a, ask, expected)
  /\ UNCHANGED <<stored, observed>>

\* approve_action; an action already approved is replayed or refused.
StoreApproval(w) ==
  /\ job[w].at = "approve"
  /\ IF /\ VersionHolds(job[w].ask.scope, job[w].expected)
        /\ actions[job[w].action].status = "requested"
       THEN actions' = [actions EXCEPT ![job[w].action].status = "approved"]
       ELSE UNCHANGED actions
  /\ Done(w)
  /\ UNCHANGED <<tasks, active, artifacts, logs, observed>>

\* reject_action: no policy, no version.
RejectAction(w, a) ==
  /\ job[w].at = "idle"
  /\ actions[a].status = "requested"
  /\ actions' = [actions EXCEPT ![a].status = "rejected"]
  /\ UNCHANGED <<tasks, active, artifacts, logs, job, observed>>

-----------------------------------------------------------------------------
(* execute, of an action that calls no provider.                            *)

\* The reads of AgentActionExecutor.execute: the task need not be selected.
ExecuteAction(w, a) ==
  /\ job[w].at = "idle"
  /\ actions[a].status \notin {"absent", "completed"}
  /\ LET ask == actions[a].ask IN
     /\ ask.kind # "image" /\ Allowed(ask)
     /\ \E expected \in ClientVersions(ask.scope) :
          Start(w, "execute", a, ask, expected)
  /\ UNCHANGED <<stored, observed>>

\* MAX(version_number) + 1 over the rows locked.
NextVersion(scope, type) ==
  1 + Max({0} \cup {x.version : x \in History(scope, type)})

\* Mutant of Replaced: a save does not look for a version to supersede.
ReplacedByRevision(ask) ==
  {x \in History(ask.scope, ask.type) :
     x.status = "confirmed" /\ ask.kind = "revise" /\ x.version = ask.base}

\* The artifact a document execution replaces: the base of a revision, else
\* the confirmed row of the highest version; {} when there is none.
Replaced(ask) ==
  LET confirmed == {x \in History(ask.scope, ask.type) : x.status = "confirmed"}
  IN IF ask.kind = "revise"
       THEN {x \in confirmed : x.version = ask.base}
       ELSE {x \in confirmed : \A y \in confirmed : y.version <= x.version}

\* Mutant of Executable: the status read before the transaction is trusted.
ExecutableUnlocked(w) ==
  /\ job[w].at = "execute"
  /\ actions[job[w].action].status \in {"approved", "completed"}
  /\ VersionHolds(job[w].ask.scope, job[w].expected)

\* The common conditions of execute_approved_action.
Executable(w) ==
  /\ job[w].at = "execute"
  /\ actions[job[w].action].status = "approved"
  /\ VersionHolds(job[w].ask.scope, job[w].expected)

Mark(a, status, outcome) ==
  actions' = [actions EXCEPT ![a] = [status |-> status, ask |-> @.ask,
                                     outcome |-> outcome]]

\* execute_approved_action with an artifact command.  It does not ask whether
\* the task is still open.
ExecuteDocument(w) ==
  LET ask == job[w].ask
      old == Replaced(ask)
      new == [scope |-> ask.scope, type |-> ask.type,
              version |-> NextVersion(ask.scope, ask.type),
              parent |-> IF old = {} THEN 0 ELSE (CHOOSE x \in old : TRUE).version,
              status |-> "confirmed", by |-> job[w].action]
  IN /\ Executable(w) /\ ask.kind \in {"save", "revise"}
     /\ ask.kind = "revise" => old # {}
     /\ artifacts' = (artifacts \ old) \cup {new}
                       \cup {[x EXCEPT !.status = "superseded"] : x \in old}
     /\ tasks' = IF ask.scope = None THEN tasks
                 ELSE [tasks EXCEPT ![ask.scope].version = @ + 1]
     /\ Mark(job[w].action, "completed", None)
     /\ Done(w)
     /\ UNCHANGED <<active, logs, observed>>

\* execute_approved_action with archive_task.
ExecuteArchive(w) ==
  LET t == job[w].ask.scope
  IN /\ Executable(w) /\ job[w].ask.kind = "archive"
     /\ tasks[t].status # "closed"
     /\ tasks' = [tasks EXCEPT ![t] = [status |-> "closed", version |-> @.version + 1,
                                       closedBy |-> job[w].action]]
     /\ active' = IF active = t THEN None ELSE active
     /\ Mark(job[w].action, "completed", None)
     /\ Done(w)
     /\ UNCHANGED <<artifacts, logs, observed>>

\* Any refusal rolls the transaction back: the action stays as it was.
ExecutionRefused(w) ==
  /\ job[w].at = "execute"
  /\ \/ ~Executable(w)
     \/ job[w].ask.kind = "revise" /\ Replaced(job[w].ask) = {}
     \/ job[w].ask.kind = "archive" /\ tasks[job[w].ask.scope].status = "closed"
  /\ Done(w)
  /\ UNCHANGED <<stored, observed>>

-----------------------------------------------------------------------------
(* execute, of an image action.                                             *)

\* Mutant of ClaimImage: a failed action can be executed again.
ClaimImageAgain(w, a) ==
  /\ job[w].at = "idle"
  /\ actions[a].status \in {"approved", "failed"} /\ actions[a].ask.kind = "image"
  /\ Mark(a, "running", "claimed")
  /\ Start(w, "provider", a, actions[a].ask, None)
  /\ UNCHANGED <<tasks, active, artifacts, logs, observed>>

\* claim_image_action: no policy, and a client may leave the version out.  A
\* running action answers ACTION_EXECUTION_RECOVERY_REQUIRED.
ClaimImage(w, a) ==
  /\ job[w].at = "idle"
  /\ actions[a].status = "approved" /\ actions[a].ask.kind = "image"
  /\ Mark(a, "running", "claimed")
  /\ Start(w, "provider", a, actions[a].ask, None)
  /\ UNCHANGED <<tasks, active, artifacts, logs, observed>>

\* image_port.generate, outside any transaction.
CallProvider(w) ==
  /\ job[w].at = "provider"
  /\ calls' = [calls EXCEPT ![job[w].action] = @ + 1]
  /\ \/ /\ returned' = returned \cup {job[w].action}
        /\ GoTo(w, "providerDone")
     \/ /\ returned' = returned
        /\ GoTo(w, "imageFailed")
  /\ UNCHANGED <<stored, crashes>>

\* mark_image_provider_succeeded, or its failure.
MarkProviderSucceeded(w) ==
  /\ job[w].at = "providerDone"
  /\ \/ /\ IF actions[job[w].action].status = "running"
             THEN Mark(job[w].action, "running", "provider_succeeded")
             ELSE UNCHANGED actions
        /\ GoTo(w, "complete")
     \/ GoTo(w, "imageFailed") /\ UNCHANGED actions
  /\ UNCHANGED <<tasks, active, artifacts, logs, observed>>

\* complete_image_action: the log, the artifact and the result together.  It
\* looks at no task and replaces no earlier image.
CompleteImage(w) ==
  LET a   == job[w].action
      ask == actions[a].ask
  IN /\ job[w].at = "complete"
     /\ actions[a].status = "running"
     /\ logs' = [logs EXCEPT ![a] = @ + 1]
     /\ artifacts' = artifacts \cup
          {[scope |-> ask.scope, type |-> "generated_image",
            version |-> NextVersion(ask.scope, "generated_image"),
            parent |-> 0, status |-> "confirmed", by |-> a]}
     /\ Mark(a, "completed", "completed")
     /\ Done(w)
     /\ UNCHANGED <<tasks, active, observed>>

\* Mutant of CompletionFails: the error leaves the handler unhandled.
CompletionLost(w) ==
  /\ job[w].at = "complete"
  /\ Done(w)
  /\ UNCHANGED <<stored, observed>>

\* The transaction is rolled back: two completions in one scope that deadlock
\* on the version range, a lost connection, an action no longer running.
CompletionFails(w) ==
  /\ job[w].at = "complete"
  /\ GoTo(w, "imageFailed")
  /\ UNCHANGED <<stored, observed>>

\* mark_action_failed in the except branch, whatever has failed before.
MarkImageFailed(w) ==
  /\ job[w].at = "imageFailed"
  /\ actions' = IF actions[job[w].action].status = "running"
                  THEN [actions EXCEPT ![job[w].action].status = "failed"]
                  ELSE actions
  /\ Done(w)
  /\ UNCHANGED <<tasks, active, artifacts, logs, observed>>

-----------------------------------------------------------------------------
\* The worker dies, or the except branch cannot write either.
Crash(w) ==
  /\ job[w].at # "idle" /\ crashes < MaxCrashes
  /\ crashes' = crashes + 1
  /\ Done(w)
  /\ UNCHANGED <<stored, calls, returned>>

\* The steps a handler takes once its request has been accepted.
HandlerStep(w) ==
  \/ InsertRequest(w) \/ StoreApproval(w)
  \/ ExecuteDocument(w) \/ ExecuteArchive(w) \/ ExecutionRefused(w)
  \/ CallProvider(w) \/ MarkProviderSucceeded(w) \/ CompleteImage(w)
  \/ CompletionFails(w) \/ MarkImageFailed(w)

ClientRequest(w) ==
  \E a \in Actions : \/ RequestAction(w, a) \/ ApproveAction(w, a)
                     \/ RejectAction(w, a) \/ ExecuteAction(w, a)
                     \/ ClaimImage(w, a)

Next ==
  \/ \E w \in Workers : ClientRequest(w) \/ HandlerStep(w) \/ Crash(w)
  \/ \E t \in Tasks : CreateTask(t) \/ SelectTask(t)

Spec == Init /\ [][Next]_vars

\* Transactions and provider calls come to an end; nobody has to ask.
FairSpec == Spec /\ \A w \in Workers : WF_vars(HandlerStep(w))

-----------------------------------------------------------------------------
\* The types of every row, handler and observer.
TypeOK ==
  /\ tasks \in [Tasks -> Task] /\ active \in Tasks \cup {None}
  /\ actions \in [Actions -> Action]
  /\ artifacts \in SUBSET Artifact
  /\ logs \in [Actions -> Nat]
  /\ job \in [Workers -> Job]
  /\ calls \in [Actions -> Nat] /\ returned \in SUBSET Actions
  /\ crashes \in 0..MaxCrashes

\* What an action has changed: the artifacts it saved, the tasks it closed.
Effects(a) ==
  {<<x.scope, x.type, x.version>> : x \in {y \in artifacts : y.by = a}}
    \cup {t \in Tasks : tasks[t].closedBy = a}

\* An action has what its status says: nothing before it is completed.
EffectMatches(a) ==
  /\ calls[a] <= 1 /\ logs[a] <= calls[a]
  /\ actions[a].status # "completed" => Effects(a) = {} /\ logs[a] = 0
  /\ actions[a].status \in {"absent", "requested", "approved", "rejected"} =>
       calls[a] = 0
  /\ actions[a].status = "completed" =>
       /\ \E x \in Effects(a) : Effects(a) = {x}
       /\ logs[a] = IF actions[a].ask.kind = "image" THEN 1 ELSE 0

\* However often and by however many workers an action is requested, approved
\* and executed, it has the one effect it was approved for when it is
\* completed, and none before or when it was rejected or failed.
OneEffect == \A a \in Actions : EffectMatches(a)

\* The history of an artifact type in a scope has no gap and no fork: versions
\* 1..latest, each once; a document has only its latest version confirmed and
\* every version names the one before it as its parent.
LinearHistory ==
  \A scope \in Scopes, type \in ArtifactTypes :
    LET history == History(scope, type)
        latest  == NextVersion(scope, type) - 1
    IN /\ {x.version : x \in history} = 1..latest
       /\ \A x, y \in history : x.version = y.version => x = y
       /\ type = "document" => \A x \in history :
            x.parent = x.version - 1 /\ (x.status = "confirmed" <=> x.version = latest)

\* A conversation is never working on a closed task.
ActiveTaskOpen == active # None => tasks[active].status = "exploring"

\* Only an execution that sent no task version can write a document into a
\* task that was closed after the policy was asked.
ClosedTaskKeepsDocuments ==
  [][\A t \in Tasks : tasks[t].status = "closed" =>
       \/ History(t, "document")' = History(t, "document")
       \/ \E w \in Workers : job[w].at = "execute" /\ job[w].ask.scope = t
                             /\ job[w].expected = None]_vars

\* An action that was claimed is completed or failed, unless a worker crashed.
ImageActionsSettle ==
  \A a \in Actions : actions[a].status = "running" ~>
    (actions[a].status \in {"completed", "failed"} \/ crashes > 0)

\* The detailed handlers implement the contract of an approved action.
Contract == INSTANCE ApprovedEffect WITH
  state <- [a \in Actions |-> actions[a].status],
  effects <- [a \in Actions |-> Effects(a)]

ImplementsContract == Contract!Spec
=============================================================================
