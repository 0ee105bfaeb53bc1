------------------------ MODULE ActionLifecycleProofs ------------------------
(***************************************************************************)
(* Safety of the action life cycle for any number of workers, tasks,       *)
(* actions and crashes.  The inductive invariant says what a handler has   *)
(* made sure of at each point of its code (JobInv), who may be working on  *)
(* a running action (RunningInv), and that versions are numbered without   *)
(* gaps (Contiguous), which is what makes MAX(version_number) + 1 a number.*)
(* Two more rest on it: that histories are linear (HistoryInv), and that   *)
(* a handler about to execute knows a version its task had while it was    *)
(* open (ExpectedInv).  The last part shows that the handlers implement    *)
(* ApprovedEffect, the promise made to the user.                           *)
(***************************************************************************)
EXTENDS ActionLifecycle, TLAPS

ImageLocations == {"provider", "providerDone", "complete", "imageFailed"}

\* What a handler has read and is sure of.
JobInv == \A w \in Workers :
  /\ job[w].at # "idle" => job[w].action \in Actions
  /\ job[w].at = "insert" =>
       (job[w].ask.kind = "archive" => job[w].ask.scope \in Tasks)
  /\ job[w].at \in {"approve", "execute"} \cup ImageLocations =>
       /\ actions[job[w].action].status # "absent"
       /\ job[w].ask = actions[job[w].action].ask
  /\ job[w].at = "execute" => job[w].ask.kind # "image"

\* A proposal that archives names a task, and only image actions run.
ActionInv == \A a \in Actions :
  /\ actions[a].ask.kind = "archive" => actions[a].ask.scope \in Tasks
  /\ actions[a].status = "running" => actions[a].ask.kind = "image"

\* A running image action has one handler at most, which has called the
\* provider unless it is about to.
RunningInv ==
  /\ \A w \in Workers : job[w].at \in ImageLocations =>
       /\ actions[job[w].action].status = "running"
       /\ calls[job[w].action] = IF job[w].at = "provider" THEN 0 ELSE 1
  /\ \A v, w \in Workers :
       job[v].at \in ImageLocations /\ job[w].at \in ImageLocations
         /\ job[v].action = job[w].action => v = w

\* An open task was closed by nobody.
TaskInv == \A t \in Tasks : tasks[t].status # "closed" => tasks[t].closedBy = None

VersionsIn(A, scope, type) ==
  {x.version : x \in {y \in A : y.scope = scope /\ y.type = type}}

Contiguous == \A scope \in Scopes, type \in ArtifactTypes :
  \E n \in Nat : VersionsIn(artifacts, scope, type) = 1..n

-----------------------------------------------------------------------------
(* Version numbers.                                                         *)

\* MAX + 1 over versions 1..n is n + 1.
LEMMA NextVersionIs ==
  ASSUME NEW scope, NEW type, NEW n \in Nat,
         VersionsIn(artifacts, scope, type) = 1..n
  PROVE  NextVersion(scope, type) = n + 1
<1> DEFINE S == {0} \cup {x.version : x \in History(scope, type)}
<1>1. S = 0..n
  BY DEF VersionsIn, History
<1>2. NextVersion(scope, type) = 1 + Max(S)
  BY Zenon DEF NextVersion
<1> HIDE DEF S
<1>3. Max(S) = n
  BY <1>1 DEF Max
<1>4. QED
  BY <1>2, <1>3

\* The next version is always a number, at least 1.
LEMMA NextVersionType ==
  ASSUME Contiguous, NEW scope \in Scopes, NEW type \in ArtifactTypes
  PROVE  NextVersion(scope, type) \in Nat \ {0}
<1>1. PICK n \in Nat : VersionsIn(artifacts, scope, type) = 1..n
  BY DEF Contiguous
<1>2. QED
  BY <1>1, NextVersionIs

\* A write adds one artifact and changes only the status of others.
Added(old, new) ==
  (artifacts \ old) \cup {new} \cup {[x EXCEPT !.status = "superseded"] : x \in old}

\* Superseding keeps versions; the new artifact adds its own.
LEMMA AddedVersions ==
  ASSUME artifacts \in SUBSET Artifact, NEW old \in SUBSET artifacts,
         NEW new \in Artifact, NEW scope, NEW type
  PROVE  LET V == VersionsIn(artifacts, scope, type)
         IN  VersionsIn(Added(old, new), scope, type) =
               IF new.scope = scope /\ new.type = type
                 THEN V \cup {new.version} ELSE V
<1> DEFINE V == VersionsIn(artifacts, scope, type)
           own == IF new.scope = scope /\ new.type = type THEN {new.version} ELSE {}
<1>1. ASSUME NEW n \in VersionsIn(Added(old, new), scope, type) PROVE n \in V \cup own
  <2>1. PICK x \in Added(old, new) : x.scope = scope /\ x.type = type /\ n = x.version
    BY <1>1 DEF VersionsIn
  <2>2. CASE x \in artifacts
    BY <2>1, <2>2 DEF VersionsIn
  <2>3. CASE x = new
    BY <2>1, <2>3
  <2>4. ASSUME NEW y \in old, x = [y EXCEPT !.status = "superseded"] PROVE n \in V
    <3>1. y \in artifacts /\ y \in Artifact
      OBVIOUS
    <3>2. x.scope = y.scope /\ x.type = y.type /\ x.version = y.version
      BY <2>4, <3>1 DEF Artifact
    <3>3. QED
      BY <2>1, <3>1, <3>2 DEF VersionsIn
  <2>5. QED
    BY <2>1, <2>2, <2>3, <2>4 DEF Added
<1>2. ASSUME NEW n \in V PROVE n \in VersionsIn(Added(old, new), scope, type)
  <2>1. PICK x \in artifacts : x.scope = scope /\ x.type = type /\ n = x.version
    BY <1>2 DEF VersionsIn
  <2>2. CASE x \notin old
    BY <2>1, <2>2 DEF VersionsIn, Added
  <2>3. CASE x \in old
    <3> DEFINE y == [x EXCEPT !.status = "superseded"]
    <3>1. y \in Added(old, new)
      BY <2>3 DEF Added
    <3>2. y.scope = x.scope /\ y.type = x.type /\ y.version = x.version
      BY <2>1 DEF Artifact
    <3> HIDE DEF y
    <3>3. QED
      BY <2>1, <3>1, <3>2 DEF VersionsIn
  <2>4. QED
    BY <2>2, <2>3
<1>3. ASSUME NEW n \in own PROVE n \in VersionsIn(Added(old, new), scope, type)
  <2>1. new.scope = scope /\ new.type = type /\ n = new.version
    BY <1>3
  <2>2. new \in Added(old, new)
    BY DEF Added
  <2>3. QED
    BY <2>1, <2>2 DEF VersionsIn
<1>4. QED
  BY <1>1, <1>2, <1>3

LEMMA AddedType ==
  ASSUME artifacts \in SUBSET Artifact, NEW old \in SUBSET artifacts, NEW new \in Artifact
  PROVE  Added(old, new) \in SUBSET Artifact
  BY DEF Added, Artifact

\* A write at the next version keeps the numbering without gaps.
LEMMA AddedContiguous ==
  ASSUME Contiguous, artifacts \in SUBSET Artifact, NEW old \in SUBSET artifacts,
         NEW new \in Artifact, new.version = NextVersion(new.scope, new.type),
         artifacts' = Added(old, new)
  PROVE  Contiguous'
<1> SUFFICES ASSUME NEW scope \in Scopes, NEW type \in ArtifactTypes
             PROVE  \E n \in Nat : VersionsIn(artifacts', scope, type) = 1..n
  BY DEF Contiguous
<1>1. PICK n \in Nat : VersionsIn(artifacts, scope, type) = 1..n
  BY DEF Contiguous
<1>2. CASE new.scope = scope /\ new.type = type
  <2>1. new.version = n + 1
    BY <1>1, <1>2, NextVersionIs
  <2>2. VersionsIn(artifacts', scope, type) = (1..n) \cup {n + 1}
    BY <1>1, <1>2, <2>1, AddedVersions
  <2>3. VersionsIn(artifacts', scope, type) = 1..(n + 1)
    BY <2>2
  <2>4. QED
    BY <2>3
<1>3. CASE ~(new.scope = scope /\ new.type = type)
  <2>1. VersionsIn(artifacts', scope, type) = 1..n
    <3>1. VersionsIn(Added(old, new), scope, type) = VersionsIn(artifacts, scope, type)
      BY <1>3, AddedVersions
    <3>2. QED
      BY <1>1, <3>1
  <2>2. QED
    BY <2>1
<1>4. QED
  BY <1>2, <1>3

\* What a document execution writes.
LEMMA DocumentWrite ==
  ASSUME TypeOK, Contiguous, JobInv, NEW w \in Workers, ExecuteDocument(w)
  PROVE  \E old \in SUBSET artifacts, new \in Artifact :
           /\ artifacts' = Added(old, new)
           /\ new.scope = job[w].ask.scope /\ new.type = job[w].ask.type
           /\ new.version = NextVersion(new.scope, new.type)
           /\ new.by = job[w].action
<1> DEFINE ask == job[w].ask
           old == Replaced(ask)
           up  == IF old = {} THEN 0 ELSE (CHOOSE x \in old : TRUE).version
           new == [scope |-> ask.scope, type |-> ask.type,
                   version |-> NextVersion(ask.scope, ask.type), parent |-> up,
                   status |-> "confirmed", by |-> job[w].action]
<1>1. ask.scope \in Scopes /\ ask.type \in ArtifactTypes
  BY DEF TypeOK, Job, Proposal
<1>2. job[w].action \in Actions
  BY DEF ExecuteDocument, Executable, JobInv
<1>3. old \in SUBSET artifacts
  BY DEF Replaced, History
<1>4. up \in Nat
  BY <1>3 DEF TypeOK, Artifact
<1>5. NextVersion(ask.scope, ask.type) \in Nat
  BY <1>1, NextVersionType
<1>6. artifacts' = Added(old, new)
  BY DEF ExecuteDocument, Added
<1> HIDE DEF old, up
<1>7. new \in Artifact
  BY <1>1, <1>2, <1>4, <1>5 DEF Artifact
<1>8. QED
  BY <1>3, <1>6, <1>7

\* What the completion of an image action writes.
LEMMA ImageWrite ==
  ASSUME TypeOK, Contiguous, JobInv, NEW w \in Workers, CompleteImage(w)
  PROVE  \E new \in Artifact :
           /\ artifacts' = Added({}, new)
           /\ new.type = "generated_image" /\ new.status = "confirmed"
           /\ new.version = NextVersion(new.scope, new.type)
           /\ new.by = job[w].action
<1> DEFINE a   == job[w].action
           new == [scope |-> actions[a].ask.scope, type |-> "generated_image",
                   version |-> NextVersion(actions[a].ask.scope, "generated_image"),
                   parent |-> 0, status |-> "confirmed", by |-> a]
<1>1. a \in Actions
  BY DEF CompleteImage, JobInv
<1>2. actions[a].ask.scope \in Scopes
  BY <1>1 DEF TypeOK, Action, Proposal
<1>3. NextVersion(actions[a].ask.scope, "generated_image") \in Nat
  BY <1>2, NextVersionType DEF ArtifactTypes
<1>4. new \in Artifact
  BY <1>1, <1>2, <1>3 DEF Artifact, ArtifactTypes
<1>5. artifacts' = Added({}, new)
  BY DEF CompleteImage, Added
<1> HIDE DEF new
<1>6. new.type = "generated_image" /\ new.status = "confirmed" /\ new.by = a
        /\ new.version = NextVersion(new.scope, new.type)
  BY DEF new
<1>7. QED
  BY <1>4, <1>5, <1>6

-----------------------------------------------------------------------------
LEMMA InitTypeOK == Init => TypeOK
  BY ActionAssumption
  DEF Init, TypeOK, Task, Action, ActionStatus, Proposal, NoProposal, Scopes, Kinds,
      ArtifactTypes, Job, Idle, Locations, Versions

\* Every step keeps the types.
LEMMA NextTypeOK == TypeOK /\ Contiguous /\ JobInv /\ [Next]_vars => TypeOK'
<1> SUFFICES ASSUME TypeOK, Contiguous, JobInv, [Next]_vars PROVE TypeOK'
  OBVIOUS
<1> USE DEF TypeOK, stored, observed
<1>1. ASSUME NEW w \in Workers, ClientRequest(w) PROVE TypeOK'
  <2> USE DEF Start
  <2>1. ASSUME NEW a \in Actions, RequestAction(w, a) PROVE TypeOK'
    <3>0. PICK ask \in Offered : \E expected \in ClientVersions(ask.scope) :
                                   Start(w, "insert", a, ask, expected)
      BY <2>1 DEF RequestAction
    <3>1. PICK expected \in ClientVersions(ask.scope) :
            Start(w, "insert", a, ask, expected)
      BY <3>0
    <3>2. ask \in Proposal
      BY DEF Offered, Proposal, Artifact
    <3>3. expected \in Versions
      BY <3>2 DEF ClientVersions, Versions, Proposal, Scopes, Task
    <3>4. job' \in [Workers -> Job]
      BY <3>1, <3>2, <3>3 DEF Job, Locations
    <3>5. QED
      BY <2>1, <3>4 DEF RequestAction
  <2>2. ASSUME NEW a \in Actions, ApproveAction(w, a) PROVE TypeOK'
    BY <2>2 DEF ApproveAction, ClientVersions, Versions, Scopes, Task, Action,
                Proposal, Job, Locations
  <2>3. ASSUME NEW a \in Actions, RejectAction(w, a) PROVE TypeOK'
    BY <2>3 DEF RejectAction, Action, ActionStatus
  <2>4. ASSUME NEW a \in Actions, ExecuteAction(w, a) PROVE TypeOK'
    BY <2>4 DEF ExecuteAction, ClientVersions, Versions, Scopes, Task, Action,
                Proposal, Job, Locations
  <2>5. ASSUME NEW a \in Actions, ClaimImage(w, a) PROVE TypeOK'
    BY <2>5 DEF ClaimImage, Mark, Action, ActionStatus, Versions, Job, Locations
  <2>6. QED
    BY <1>1, <2>1, <2>2, <2>3, <2>4, <2>5 DEF ClientRequest
<1>2. ASSUME NEW w \in Workers, HandlerStep(w) PROVE TypeOK'
  <2>0. Idle \in Job
    BY ActionAssumption DEF Idle, Job, Locations, NoProposal, Proposal, Scopes, Kinds,
                            ArtifactTypes, Versions
  <2> USE <2>0 DEF Done, GoTo
  <2>1. CASE InsertRequest(w)
    BY <2>1 DEF InsertRequest, Action, ActionStatus, Job
  <2>2. CASE StoreApproval(w)
    BY <2>2 DEF StoreApproval, Action, ActionStatus
  <2>3. CASE ExecuteDocument(w)
    <3>1. artifacts' \in SUBSET Artifact
      BY <2>3, DocumentWrite, AddedType
    <3>2. tasks' \in [Tasks -> Task]
      <4>1. CASE job[w].ask.scope = None
        BY <2>3, <4>1 DEF ExecuteDocument
      <4>2. CASE job[w].ask.scope \in Tasks
        BY <2>3, <4>2, ActionAssumption DEF ExecuteDocument, Task
      <4>3. QED
        BY <4>1, <4>2 DEF Job, Proposal, Scopes
    <3>3. actions' \in [Actions -> Action]
      BY <2>3 DEF ExecuteDocument, Executable, JobInv, Mark, Action, ActionStatus
    <3>4. QED
      BY <2>3, <3>1, <3>2, <3>3 DEF ExecuteDocument
  <2>4. CASE ExecuteArchive(w)
    <3>1. job[w].action \in Actions
      BY <2>4 DEF ExecuteArchive, Executable, JobInv
    <3>2. tasks' \in [Tasks -> Task]
      <4> DEFINE t == job[w].ask.scope
                 closed == [status |-> "closed", version |-> tasks[t].version + 1,
                            closedBy |-> job[w].action]
      <4>1. tasks' = [tasks EXCEPT ![t] = closed]
        BY <2>4 DEF ExecuteArchive
      <4>2. t \in Tasks => closed \in Task
        BY <3>1 DEF Task
      <4> HIDE DEF closed, t
      <4>3. QED
        BY <4>1, <4>2
    <3>3. actions' \in [Actions -> Action]
      BY <2>4, <3>1 DEF ExecuteArchive, Mark, Action, ActionStatus
    <3>4. QED
      BY <2>4, <3>2, <3>3 DEF ExecuteArchive
  <2>5. CASE ExecutionRefused(w)
    BY <2>5 DEF ExecutionRefused
  <2>6. CASE CallProvider(w)
    BY <2>6 DEF CallProvider, JobInv, Job, Locations
  <2>7. CASE MarkProviderSucceeded(w)
    <3>1. actions' \in [Actions -> Action]
      BY <2>7 DEF MarkProviderSucceeded, Mark, JobInv, Action, ActionStatus
    <3>2. job' \in [Workers -> Job]
      BY <2>7 DEF MarkProviderSucceeded, Job, Locations
    <3>3. QED
      BY <2>7, <3>1, <3>2 DEF MarkProviderSucceeded
  <2>8. CASE CompleteImage(w)
    <3>1. PICK new \in Artifact : artifacts' = Added({}, new)
      BY <2>8, ImageWrite
    <3>2. artifacts' \in SUBSET Artifact
      BY <3>1, AddedType
    <3>3. actions' \in [Actions -> Action] /\ logs' \in [Actions -> Nat]
      BY <2>8 DEF CompleteImage, Mark, JobInv, Action, ActionStatus
    <3>4. QED
      BY <2>8, <3>2, <3>3 DEF CompleteImage
  <2>9. CASE CompletionFails(w)
    BY <2>9 DEF CompletionFails, Job, Locations
  <2>10. CASE MarkImageFailed(w)
    BY <2>10 DEF MarkImageFailed, Action, ActionStatus
  <2>11. QED
    BY <1>2, <2>1, <2>2, <2>3, <2>4, <2>5, <2>6, <2>7, <2>8, <2>9, <2>10 DEF HandlerStep
<1>3. ASSUME NEW w \in Workers, Crash(w) PROVE TypeOK'
  BY <1>3, ActionAssumption
  DEF Crash, Done, Idle, Job, Locations, NoProposal, Proposal, Scopes, Kinds,
      ArtifactTypes, Versions
<1>4. ASSUME NEW t \in Tasks, CreateTask(t) \/ SelectTask(t) PROVE TypeOK'
  BY <1>4 DEF CreateTask, SelectTask, Task
<1>5. CASE UNCHANGED vars
  BY <1>5 DEF vars
<1>6. QED
  BY <1>1, <1>2, <1>3, <1>4, <1>5 DEF Next

\* A handler's knowledge stays true while others write: actions keep their
\* proposal and never become absent again.
LEMMA NextJobInv ==
  TypeOK /\ JobInv /\ RunningInv /\ [Next]_vars => JobInv'
<1> SUFFICES ASSUME TypeOK, JobInv, RunningInv, [Next]_vars PROVE JobInv'
  OBVIOUS
<1> USE DEF TypeOK, Job, Action, stored, observed, Start, Done, GoTo, Idle, JobInv, ImageLocations,
     Allowed
<1>1. ASSUME NEW w \in Workers, ClientRequest(w) PROVE JobInv'
  <2>1. ASSUME NEW a \in Actions, RequestAction(w, a) PROVE JobInv'
    <3>1. PICK ask \in Offered : /\ Allowed(ask)
                                 /\ \E expected \in ClientVersions(ask.scope) :
                                      Start(w, "insert", a, ask, expected)
      BY <2>1 DEF RequestAction
    <3>2. ask.kind = "archive" => ask.scope \in Tasks
      BY <3>1 DEF Offered, Scopes
    <3>3. QED
      BY <2>1, <3>1, <3>2 DEF RequestAction
  <2>2. ASSUME NEW a \in Actions, ApproveAction(w, a) PROVE JobInv'
    BY <2>2 DEF ApproveAction
  <2>3. ASSUME NEW a \in Actions, RejectAction(w, a) PROVE JobInv'
    BY <2>3 DEF RejectAction
  <2>4. ASSUME NEW a \in Actions, ExecuteAction(w, a) PROVE JobInv'
    BY <2>4 DEF ExecuteAction
  <2>5. ASSUME NEW a \in Actions, ClaimImage(w, a) PROVE JobInv'
    BY <2>5 DEF ClaimImage, Mark
  <2>6. QED
    BY <1>1, <2>1, <2>2, <2>3, <2>4, <2>5 DEF ClientRequest
<1>2. ASSUME NEW w \in Workers, HandlerStep(w) PROVE JobInv'
  <2>1. CASE InsertRequest(w)
    BY <2>1 DEF InsertRequest
  <2>2. CASE StoreApproval(w)
    BY <2>2 DEF StoreApproval
  <2>3. CASE ExecuteDocument(w)
    BY <2>3 DEF ExecuteDocument, Executable, Mark
  <2>4. CASE ExecuteArchive(w)
    BY <2>4 DEF ExecuteArchive, Executable, Mark
  <2>5. CASE ExecutionRefused(w)
    BY <2>5 DEF ExecutionRefused
  <2>6. CASE CallProvider(w)
    <3>1. CASE GoTo(w, "providerDone")
      BY <2>6, <3>1 DEF CallProvider
    <3>2. CASE GoTo(w, "imageFailed")
      BY <2>6, <3>2 DEF CallProvider
    <3>3. QED
      BY <2>6, <3>1, <3>2 DEF CallProvider
  <2>7. CASE MarkProviderSucceeded(w)
    <3>1. CASE GoTo(w, "complete")
      BY <2>7, <3>1 DEF MarkProviderSucceeded, Mark
    <3>2. CASE GoTo(w, "imageFailed")
      BY <2>7, <3>2 DEF MarkProviderSucceeded, Mark
    <3>3. QED
      BY <2>7, <3>1, <3>2 DEF MarkProviderSucceeded
  <2>8. CASE CompleteImage(w)
    BY <2>8 DEF CompleteImage, Mark
  <2>9. CASE CompletionFails(w)
    BY <2>9 DEF CompletionFails
  <2>10. CASE MarkImageFailed(w)
    BY <2>10 DEF MarkImageFailed
  <2>11. QED
    BY <1>2, <2>1, <2>2, <2>3, <2>4, <2>5, <2>6, <2>7, <2>8, <2>9, <2>10 DEF HandlerStep
<1>3. ASSUME NEW w \in Workers, Crash(w) PROVE JobInv'
  BY <1>3 DEF Crash
<1>4. ASSUME NEW t \in Tasks, CreateTask(t) \/ SelectTask(t) PROVE JobInv'
  BY <1>4 DEF CreateTask, SelectTask
<1>5. CASE UNCHANGED vars
  BY <1>5 DEF vars
<1>6. QED
  BY <1>1, <1>2, <1>3, <1>4, <1>5 DEF Next

\* Actions are inserted from checked proposals, and only images are claimed.
LEMMA NextActionInv ==
  TypeOK /\ JobInv /\ ActionInv /\ [Next]_vars => ActionInv'
<1> SUFFICES ASSUME TypeOK, JobInv, ActionInv, [Next]_vars PROVE ActionInv'
  OBVIOUS
<1> USE DEF TypeOK, Job, Action, stored, observed, Start, Done, GoTo, Idle, JobInv, ImageLocations,
     ActionInv
<1>1. ASSUME NEW w \in Workers, ClientRequest(w) PROVE ActionInv'
  <2>1. ASSUME NEW a \in Actions, RequestAction(w, a) PROVE ActionInv'
    BY <2>1 DEF RequestAction
  <2>2. ASSUME NEW a \in Actions, ApproveAction(w, a) PROVE ActionInv'
    BY <2>2 DEF ApproveAction
  <2>3. ASSUME NEW a \in Actions, RejectAction(w, a) PROVE ActionInv'
    BY <2>3 DEF RejectAction
  <2>4. ASSUME NEW a \in Actions, ExecuteAction(w, a) PROVE ActionInv'
    BY <2>4 DEF ExecuteAction
  <2>5. ASSUME NEW a \in Actions, ClaimImage(w, a) PROVE ActionInv'
    BY <2>5 DEF ClaimImage, Mark
  <2>6. QED
    BY <1>1, <2>1, <2>2, <2>3, <2>4, <2>5 DEF ClientRequest
<1>2. ASSUME NEW w \in Workers, HandlerStep(w) PROVE ActionInv'
  <2>1. CASE InsertRequest(w)
    BY <2>1 DEF InsertRequest
  <2>2. CASE StoreApproval(w)
    BY <2>2 DEF StoreApproval
  <2>3. CASE ExecuteDocument(w)
    BY <2>3 DEF ExecuteDocument, Executable, Mark
  <2>4. CASE ExecuteArchive(w)
    BY <2>4 DEF ExecuteArchive, Executable, Mark
  <2>5. CASE ExecutionRefused(w)
    BY <2>5 DEF ExecutionRefused
  <2>6. CASE CallProvider(w)
    BY <2>6 DEF CallProvider
  <2>7. CASE MarkProviderSucceeded(w)
    BY <2>7 DEF MarkProviderSucceeded, Mark
  <2>8. CASE CompleteImage(w)
    BY <2>8 DEF CompleteImage, Mark
  <2>9. CASE CompletionFails(w)
    BY <2>9 DEF CompletionFails
  <2>10. CASE MarkImageFailed(w)
    BY <2>10 DEF MarkImageFailed
  <2>11. QED
    BY <1>2, <2>1, <2>2, <2>3, <2>4, <2>5, <2>6, <2>7, <2>8, <2>9, <2>10 DEF HandlerStep
<1>3. ASSUME NEW w \in Workers, Crash(w) PROVE ActionInv'
  BY <1>3 DEF Crash
<1>4. ASSUME NEW t \in Tasks, CreateTask(t) \/ SelectTask(t) PROVE ActionInv'
  BY <1>4 DEF CreateTask, SelectTask
<1>5. CASE UNCHANGED vars
  BY <1>5 DEF vars
<1>6. QED
  BY <1>1, <1>2, <1>3, <1>4, <1>5 DEF Next

\* Only one claim of an approved action succeeds, and nobody else moves it on.
LEMMA NextRunningInv ==
  TypeOK /\ JobInv /\ ActionInv /\ RunningInv /\ OneEffect /\ [Next]_vars => RunningInv'
<1> SUFFICES ASSUME TypeOK, JobInv, ActionInv, RunningInv, OneEffect, [Next]_vars PROVE RunningInv'
  OBVIOUS
<1> USE DEF TypeOK, Job, Action, stored, observed, Start, Done, GoTo, Idle, JobInv, ImageLocations,
     ActionInv, RunningInv, OneEffect, EffectMatches
<1>1. ASSUME NEW w \in Workers, ClientRequest(w) PROVE RunningInv'
  <2>1. ASSUME NEW a \in Actions, RequestAction(w, a) PROVE RunningInv'
    BY <2>1 DEF RequestAction
  <2>2. ASSUME NEW a \in Actions, ApproveAction(w, a) PROVE RunningInv'
    BY <2>2 DEF ApproveAction
  <2>3. ASSUME NEW a \in Actions, RejectAction(w, a) PROVE RunningInv'
    BY <2>3 DEF RejectAction
  <2>4. ASSUME NEW a \in Actions, ExecuteAction(w, a) PROVE RunningInv'
    BY <2>4 DEF ExecuteAction
  <2>5. ASSUME NEW a \in Actions, ClaimImage(w, a) PROVE RunningInv'
    BY <2>5 DEF ClaimImage, Mark
  <2>6. QED
    BY <1>1, <2>1, <2>2, <2>3, <2>4, <2>5 DEF ClientRequest
<1>2. ASSUME NEW w \in Workers, HandlerStep(w) PROVE RunningInv'
  <2>1. CASE InsertRequest(w)
    BY <2>1 DEF InsertRequest
  <2>2. CASE StoreApproval(w)
    BY <2>2 DEF StoreApproval
  <2>3. CASE ExecuteDocument(w)
    BY <2>3 DEF ExecuteDocument, Executable, Mark
  <2>4. CASE ExecuteArchive(w)
    BY <2>4 DEF ExecuteArchive, Executable, Mark
  <2>5. CASE ExecutionRefused(w)
    BY <2>5 DEF ExecutionRefused
  <2>6. CASE CallProvider(w)
    <3>1. CASE GoTo(w, "providerDone")
      BY <2>6, <3>1 DEF CallProvider
    <3>2. CASE GoTo(w, "imageFailed")
      BY <2>6, <3>2 DEF CallProvider
    <3>3. QED
      BY <2>6, <3>1, <3>2 DEF CallProvider
  <2>7. CASE MarkProviderSucceeded(w)
    <3>1. CASE GoTo(w, "complete")
      BY <2>7, <3>1 DEF MarkProviderSucceeded, Mark
    <3>2. CASE GoTo(w, "imageFailed")
      BY <2>7, <3>2 DEF MarkProviderSucceeded, Mark
    <3>3. QED
      BY <2>7, <3>1, <3>2 DEF MarkProviderSucceeded
  <2>8. CASE CompleteImage(w)
    BY <2>8 DEF CompleteImage, Mark
  <2>9. CASE CompletionFails(w)
    BY <2>9 DEF CompletionFails
  <2>10. CASE MarkImageFailed(w)
    BY <2>10 DEF MarkImageFailed
  <2>11. QED
    BY <1>2, <2>1, <2>2, <2>3, <2>4, <2>5, <2>6, <2>7, <2>8, <2>9, <2>10 DEF HandlerStep
<1>3. ASSUME NEW w \in Workers, Crash(w) PROVE RunningInv'
  BY <1>3 DEF Crash
<1>4. ASSUME NEW t \in Tasks, CreateTask(t) \/ SelectTask(t) PROVE RunningInv'
  BY <1>4 DEF CreateTask, SelectTask
<1>5. CASE UNCHANGED vars
  BY <1>5 DEF vars
<1>6. QED
  BY <1>1, <1>2, <1>3, <1>4, <1>5 DEF Next

\* A task is closed once.
LEMMA NextTaskInv ==
  TypeOK /\ JobInv /\ TaskInv /\ [Next]_vars => TaskInv'
<1> SUFFICES ASSUME TypeOK, JobInv, TaskInv, [Next]_vars PROVE TaskInv'
  OBVIOUS
<1> USE DEF TypeOK, Task, stored, observed, TaskInv, Executable
<1>1. ASSUME NEW w \in Workers, ClientRequest(w) PROVE TaskInv'
  <2>1. ASSUME NEW a \in Actions, RequestAction(w, a) PROVE TaskInv'
    BY <2>1 DEF RequestAction
  <2>2. ASSUME NEW a \in Actions, ApproveAction(w, a) PROVE TaskInv'
    BY <2>2 DEF ApproveAction
  <2>3. ASSUME NEW a \in Actions, RejectAction(w, a) PROVE TaskInv'
    BY <2>3 DEF RejectAction
  <2>4. ASSUME NEW a \in Actions, ExecuteAction(w, a) PROVE TaskInv'
    BY <2>4 DEF ExecuteAction
  <2>5. ASSUME NEW a \in Actions, ClaimImage(w, a) PROVE TaskInv'
    BY <2>5 DEF ClaimImage, Mark
  <2>6. QED
    BY <1>1, <2>1, <2>2, <2>3, <2>4, <2>5 DEF ClientRequest
<1>2. ASSUME NEW w \in Workers, HandlerStep(w) PROVE TaskInv'
  <2>1. CASE InsertRequest(w)
    BY <2>1 DEF InsertRequest
  <2>2. CASE StoreApproval(w)
    BY <2>2 DEF StoreApproval
  <2>3. CASE ExecuteDocument(w)
    BY <2>3 DEF ExecuteDocument, Executable, Mark
  <2>4. CASE ExecuteArchive(w)
    BY <2>4 DEF ExecuteArchive, Executable, Mark
  <2>5. CASE ExecutionRefused(w)
    BY <2>5 DEF ExecutionRefused
  <2>6. CASE CallProvider(w)
    BY <2>6 DEF CallProvider
  <2>7. CASE MarkProviderSucceeded(w)
    BY <2>7 DEF MarkProviderSucceeded, Mark
  <2>8. CASE CompleteImage(w)
    BY <2>8 DEF CompleteImage, Mark
  <2>9. CASE CompletionFails(w)
    BY <2>9 DEF CompletionFails
  <2>10. CASE MarkImageFailed(w)
    BY <2>10 DEF MarkImageFailed
  <2>11. QED
    BY <1>2, <2>1, <2>2, <2>3, <2>4, <2>5, <2>6, <2>7, <2>8, <2>9, <2>10 DEF HandlerStep
<1>3. ASSUME NEW w \in Workers, Crash(w) PROVE TaskInv'
  BY <1>3 DEF Crash
<1>4. ASSUME NEW t \in Tasks, CreateTask(t) \/ SelectTask(t) PROVE TaskInv'
  BY <1>4 DEF CreateTask, SelectTask
<1>5. CASE UNCHANGED vars
  BY <1>5 DEF vars
<1>6. QED
  BY <1>1, <1>2, <1>3, <1>4, <1>5 DEF Next

\* Closing the active task deselects it in the same transaction.
LEMMA NextActiveTaskOpen ==
  TypeOK /\ ActiveTaskOpen /\ [Next]_vars => ActiveTaskOpen'
<1> SUFFICES ASSUME TypeOK, ActiveTaskOpen, [Next]_vars PROVE ActiveTaskOpen'
  OBVIOUS
<1> USE DEF TypeOK, Task, stored, observed, ActiveTaskOpen
<1>1. ASSUME NEW w \in Workers, ClientRequest(w) PROVE ActiveTaskOpen'
  <2>1. ASSUME NEW a \in Actions, RequestAction(w, a) PROVE ActiveTaskOpen'
    BY <2>1 DEF RequestAction
  <2>2. ASSUME NEW a \in Actions, ApproveAction(w, a) PROVE ActiveTaskOpen'
    BY <2>2 DEF ApproveAction
  <2>3. ASSUME NEW a \in Actions, RejectAction(w, a) PROVE ActiveTaskOpen'
    BY <2>3 DEF RejectAction
  <2>4. ASSUME NEW a \in Actions, ExecuteAction(w, a) PROVE ActiveTaskOpen'
    BY <2>4 DEF ExecuteAction
  <2>5. ASSUME NEW a \in Actions, ClaimImage(w, a) PROVE ActiveTaskOpen'
    BY <2>5 DEF ClaimImage, Mark
  <2>6. QED
    BY <1>1, <2>1, <2>2, <2>3, <2>4, <2>5 DEF ClientRequest
<1>2. ASSUME NEW w \in Workers, HandlerStep(w) PROVE ActiveTaskOpen'
  <2>1. CASE InsertRequest(w)
    BY <2>1 DEF InsertRequest
  <2>2. CASE StoreApproval(w)
    BY <2>2 DEF StoreApproval
  <2>3. CASE ExecuteDocument(w)
    BY <2>3 DEF ExecuteDocument, Executable, Mark
  <2>4. CASE ExecuteArchive(w)
    BY <2>4 DEF ExecuteArchive, Executable, Mark
  <2>5. CASE ExecutionRefused(w)
    BY <2>5 DEF ExecutionRefused
  <2>6. CASE CallProvider(w)
    BY <2>6 DEF CallProvider
  <2>7. CASE MarkProviderSucceeded(w)
    BY <2>7 DEF MarkProviderSucceeded, Mark
  <2>8. CASE CompleteImage(w)
    BY <2>8 DEF CompleteImage, Mark
  <2>9. CASE CompletionFails(w)
    BY <2>9 DEF CompletionFails
  <2>10. CASE MarkImageFailed(w)
    BY <2>10 DEF MarkImageFailed
  <2>11. QED
    BY <1>2, <2>1, <2>2, <2>3, <2>4, <2>5, <2>6, <2>7, <2>8, <2>9, <2>10 DEF HandlerStep
<1>3. ASSUME NEW w \in Workers, Crash(w) PROVE ActiveTaskOpen'
  BY <1>3 DEF Crash
<1>4. ASSUME NEW t \in Tasks, CreateTask(t) \/ SelectTask(t) PROVE ActiveTaskOpen'
  BY <1>4 DEF CreateTask, SelectTask
<1>5. CASE UNCHANGED vars
  BY <1>5 DEF vars
<1>6. QED
  BY <1>1, <1>2, <1>3, <1>4, <1>5 DEF Next

-----------------------------------------------------------------------------
(* Effects.                                                                 *)

\* Nothing saved and nothing closed: no effect.
LEMMA SameEffects ==
  ASSUME artifacts' = artifacts,
         \A t \in Tasks : tasks'[t].closedBy = tasks[t].closedBy, NEW a
  PROVE  Effects(a)' = Effects(a)
  BY DEF Effects

IdsBy(A, a) == {<<x.scope, x.type, x.version>> : x \in {y \in A : y.by = a}}

\* Superseding takes no effect away; the new artifact is its action's effect.
LEMMA AddedIds ==
  ASSUME artifacts \in SUBSET Artifact, NEW old \in SUBSET artifacts,
         NEW new \in Artifact, NEW a
  PROVE  IdsBy(Added(old, new), a) =
           IF new.by = a THEN IdsBy(artifacts, a) \cup {<<new.scope, new.type, new.version>>}
                         ELSE IdsBy(artifacts, a)
<1> DEFINE I == IdsBy(artifacts, a)
           own == IF new.by = a THEN {<<new.scope, new.type, new.version>>} ELSE {}
<1>1. ASSUME NEW n \in IdsBy(Added(old, new), a) PROVE n \in I \cup own
  <2>1. PICK x \in Added(old, new) : x.by = a /\ n = <<x.scope, x.type, x.version>>
    BY <1>1 DEF IdsBy
  <2>2. CASE x \in artifacts
    BY <2>1, <2>2 DEF IdsBy
  <2>3. CASE x = new
    BY <2>1, <2>3
  <2>4. ASSUME NEW y \in old, x = [y EXCEPT !.status = "superseded"] PROVE n \in I
    <3>1. y \in artifacts /\ y \in Artifact
      OBVIOUS
    <3>2. x.scope = y.scope /\ x.type = y.type /\ x.version = y.version /\ x.by = y.by
      BY <2>4, <3>1 DEF Artifact
    <3>3. QED
      BY <2>1, <3>1, <3>2 DEF IdsBy
  <2>5. QED
    BY <2>1, <2>2, <2>3, <2>4 DEF Added
<1>2. ASSUME NEW n \in I PROVE n \in IdsBy(Added(old, new), a)
  <2>1. PICK x \in artifacts : x.by = a /\ n = <<x.scope, x.type, x.version>>
    BY <1>2 DEF IdsBy
  <2>2. CASE x \notin old
    BY <2>1, <2>2 DEF IdsBy, Added
  <2>3. CASE x \in old
    <3> DEFINE y == [x EXCEPT !.status = "superseded"]
    <3>1. y \in Added(old, new)
      BY <2>3 DEF Added
    <3>2. y.scope = x.scope /\ y.type = x.type /\ y.version = x.version /\ y.by = x.by
      BY <2>1 DEF Artifact
    <3> HIDE DEF y
    <3>3. QED
      BY <2>1, <3>1, <3>2 DEF IdsBy
  <2>4. QED
    BY <2>2, <2>3
<1>3. ASSUME NEW n \in own PROVE n \in IdsBy(Added(old, new), a)
  <2>1. new.by = a /\ n = <<new.scope, new.type, new.version>>
    BY <1>3
  <2>2. new \in Added(old, new)
    BY DEF Added
  <2>3. QED
    BY <2>1, <2>2 DEF IdsBy
<1>4. QED
  BY <1>1, <1>2, <1>3

\* A document or image write is the effect of its own action only.
LEMMA AddedEffects ==
  ASSUME artifacts \in SUBSET Artifact, NEW old \in SUBSET artifacts, NEW new \in Artifact,
         artifacts' = Added(old, new),
         \A t \in Tasks : tasks'[t].closedBy = tasks[t].closedBy, NEW a
  PROVE  Effects(a)' = IF new.by = a
                         THEN Effects(a) \cup {<<new.scope, new.type, new.version>>}
                         ELSE Effects(a)
<1>1. {t \in Tasks : tasks'[t].closedBy = a} = {t \in Tasks : tasks[t].closedBy = a}
  OBVIOUS
<1>2. Effects(a) = IdsBy(artifacts, a) \cup {t \in Tasks : tasks[t].closedBy = a}
  BY Zenon DEF Effects, IdsBy
<1>3. Effects(a)' = IdsBy(artifacts', a) \cup {t \in Tasks : tasks'[t].closedBy = a}
  BY Zenon DEF Effects, IdsBy
<1>4. IdsBy(artifacts', a) =
        IF new.by = a THEN IdsBy(artifacts, a) \cup {<<new.scope, new.type, new.version>>}
                      ELSE IdsBy(artifacts, a)
  BY AddedIds
<1>5. QED
  BY <1>1, <1>2, <1>3, <1>4

\* Closing a task is the effect of the archive action only.
LEMMA ArchiveEffects ==
  ASSUME TypeOK, TaskInv, JobInv, ActionInv, NEW w \in Workers, ExecuteArchive(w),
         NEW a \in Actions
  PROVE  Effects(a)' = IF job[w].action = a THEN Effects(a) \cup {job[w].ask.scope}
                                            ELSE Effects(a)
<1>1. job[w].ask.scope \in Tasks
  BY DEF ExecuteArchive, Executable, JobInv, ActionInv
<1>2. tasks[job[w].ask.scope].closedBy = None /\ a # None
  BY <1>1, ActionAssumption DEF ExecuteArchive, TaskInv
<1>3. \A t \in Tasks : tasks'[t].closedBy =
         IF t = job[w].ask.scope THEN job[w].action ELSE tasks[t].closedBy
  BY <1>1 DEF ExecuteArchive, TypeOK, Task
<1>4. artifacts' = artifacts
  BY DEF ExecuteArchive
<1>5. QED
  BY <1>1, <1>2, <1>3, <1>4 DEF Effects

\* An effect is taken in the transaction that completes the action, once.
LEMMA NextOneEffect ==
  TypeOK /\ Contiguous /\ JobInv /\ ActionInv /\ RunningInv /\ TaskInv /\ OneEffect
    /\ [Next]_vars => OneEffect'
<1> SUFFICES ASSUME TypeOK, Contiguous, JobInv, ActionInv, RunningInv, TaskInv,
                    OneEffect, [Next]_vars
             PROVE  OneEffect'
  OBVIOUS
<1> DEFINE Same == \A a \in Actions : Effects(a)' = Effects(a)
<1> USE DEF OneEffect, EffectMatches, TypeOK, Action, stored, observed
<1>1. ASSUME NEW w \in Workers, ClientRequest(w) PROVE OneEffect'
  <2>0. Same
    BY <1>1, SameEffects DEF ClientRequest, RequestAction, ApproveAction, RejectAction,
                             ExecuteAction, ClaimImage
  <2>1. ASSUME NEW a \in Actions, RequestAction(w, a) PROVE OneEffect'
    BY <2>0, <2>1 DEF RequestAction
  <2>2. ASSUME NEW a \in Actions, ApproveAction(w, a) PROVE OneEffect'
    BY <2>0, <2>2 DEF ApproveAction
  <2>3. ASSUME NEW a \in Actions, RejectAction(w, a) PROVE OneEffect'
    BY <2>0, <2>3 DEF RejectAction
  <2>4. ASSUME NEW a \in Actions, ExecuteAction(w, a) PROVE OneEffect'
    BY <2>0, <2>4 DEF ExecuteAction
  <2>5. ASSUME NEW a \in Actions, ClaimImage(w, a) PROVE OneEffect'
    BY <2>0, <2>5 DEF ClaimImage, Mark
  <2>6. QED
    BY <1>1, <2>1, <2>2, <2>3, <2>4, <2>5 DEF ClientRequest
<1>2. ASSUME NEW w \in Workers, HandlerStep(w) PROVE OneEffect'
  <2> DEFINE a == job[w].action
  <2>1. CASE InsertRequest(w)
    <3>1. Same
      BY <2>1, SameEffects DEF InsertRequest
    <3>2. QED
      BY <2>1, <3>1 DEF InsertRequest
  <2>2. CASE StoreApproval(w)
    <3>1. Same
      BY <2>2, SameEffects DEF StoreApproval
    <3>2. CASE UNCHANGED actions
      BY <2>2, <3>1, <3>2 DEF StoreApproval
    <3>3. CASE /\ actions[a].status = "requested"
               /\ actions' = [actions EXCEPT ![a].status = "approved"]
      BY <2>2, <3>1, <3>3 DEF StoreApproval
    <3>4. QED
      BY <2>2, <3>2, <3>3 DEF StoreApproval
  <2>3. CASE ExecuteDocument(w)
    <3>1. PICK old \in SUBSET artifacts, new \in Artifact :
             artifacts' = Added(old, new) /\ new.by = a
      BY <2>3, DocumentWrite
    <3>2. \A t \in Tasks : tasks'[t].closedBy = tasks[t].closedBy
      BY <2>3 DEF ExecuteDocument, Task
    <3>3. \A b \in Actions : Effects(b)' =
            IF a = b THEN Effects(b) \cup {<<new.scope, new.type, new.version>>}
                     ELSE Effects(b)
      BY <3>1, <3>2, AddedEffects
    <3>4. a \in Actions /\ actions[a].status = "approved" /\ actions[a].ask.kind # "image"
      BY <2>3 DEF ExecuteDocument, Executable, JobInv
    <3>5. actions' = [actions EXCEPT ![a] = [status |-> "completed", ask |-> @.ask,
                                            outcome |-> None]]
      BY <2>3 DEF ExecuteDocument, Mark
    <3>6. UNCHANGED <<calls, logs>>
      BY <2>3 DEF ExecuteDocument
    <3>7. QED
      BY <3>3, <3>4, <3>5, <3>6
  <2>4. CASE ExecuteArchive(w)
    <3>1. \A b \in Actions : Effects(b)' =
            IF a = b THEN Effects(b) \cup {job[w].ask.scope} ELSE Effects(b)
      BY <2>4, ArchiveEffects
    <3>2. a \in Actions /\ actions[a].status = "approved" /\ actions[a].ask.kind # "image"
      BY <2>4 DEF ExecuteArchive, Executable, JobInv
    <3>3. actions' = [actions EXCEPT ![a] = [status |-> "completed", ask |-> @.ask,
                                            outcome |-> None]]
      BY <2>4 DEF ExecuteArchive, Mark
    <3>4. UNCHANGED <<calls, logs>>
      BY <2>4 DEF ExecuteArchive
    <3>5. QED
      BY <3>1, <3>2, <3>3, <3>4
  <2>5. CASE ExecutionRefused(w)
    <3>1. Same
      BY <2>5, SameEffects DEF ExecutionRefused
    <3>2. QED
      BY <2>5, <3>1 DEF ExecutionRefused
  <2>6. CASE CallProvider(w)
    <3>1. Same
      BY <2>6, SameEffects DEF CallProvider
    <3>2. a \in Actions /\ actions[a].status = "running" /\ calls[a] = 0
      BY <2>6 DEF CallProvider, JobInv, RunningInv, ImageLocations
    <3>3. QED
      BY <2>6, <3>1, <3>2 DEF CallProvider
  <2>7. CASE MarkProviderSucceeded(w)
    <3>1. Same
      BY <2>7, SameEffects DEF MarkProviderSucceeded
    <3>2. QED
      BY <2>7, <3>1 DEF MarkProviderSucceeded, Mark
  <2>8. CASE CompleteImage(w)
    <3>1. PICK new \in Artifact : artifacts' = Added({}, new) /\ new.by = a
      BY <2>8, ImageWrite
    <3>2. \A t \in Tasks : tasks'[t].closedBy = tasks[t].closedBy
      BY <2>8 DEF CompleteImage
    <3>3. \A b \in Actions : Effects(b)' =
            IF a = b THEN Effects(b) \cup {<<new.scope, new.type, new.version>>}
                     ELSE Effects(b)
      BY <3>1, <3>2, AddedEffects
    <3>4. a \in Actions /\ actions[a].status = "running" /\ actions[a].ask.kind = "image"
            /\ calls[a] = 1
      BY <2>8 DEF CompleteImage, JobInv, RunningInv, ActionInv, ImageLocations
    <3>5. actions' = [actions EXCEPT ![a] = [status |-> "completed", ask |-> @.ask,
                                            outcome |-> "completed"]]
      BY <2>8 DEF CompleteImage, Mark
    <3>6. calls' = calls /\ logs' = [logs EXCEPT ![a] = @ + 1]
      BY <2>8 DEF CompleteImage
    <3>7. Effects(a) = {} /\ logs[a] = 0
      BY <3>4
    <3>8. \A b \in Actions : b = a => Effects(b)' = {<<new.scope, new.type, new.version>>}
      BY <3>3, <3>7
    <3>9. \A b \in Actions : b # a => /\ Effects(b)' = Effects(b)
                                     /\ actions'[b] = actions[b] /\ logs'[b] = logs[b]
      BY <3>3, <3>5, <3>6
    <3>10. actions'[a].status = "completed" /\ actions'[a].ask = actions[a].ask
             /\ logs'[a] = 1
      BY <3>4, <3>5, <3>6, <3>7
    <3>11. ASSUME NEW b \in Actions, b = a
           PROVE  /\ calls'[b] = 1 /\ logs'[b] = 1
                  /\ \E x : Effects(b)' = {x}
                  /\ actions'[b].status = "completed" /\ actions'[b].ask.kind = "image"
      BY <3>4, <3>6, <3>8, <3>10, <3>11
    <3>12. ASSUME NEW b \in Actions, b = a PROVE EffectMatches(b)'
      <4>1. /\ calls'[b] = 1 /\ logs'[b] = 1 /\ actions'[b].status = "completed"
            /\ actions'[b].ask.kind = "image"
        BY <3>11, <3>12
      <4>2. \E x : Effects(b)' = {x}
        BY <3>11, <3>12
      <4>3. \E x \in Effects(b)' : Effects(b)' = {x}
        BY <4>2
      <4>4. QED
        BY <4>1, <4>3
    <3>13. ASSUME NEW b \in Actions, b # a PROVE EffectMatches(b)'
      BY <3>6, <3>9, <3>13
    <3>14. QED
      BY <3>12, <3>13
  <2>9. CASE CompletionFails(w)
    <3>1. Same
      BY <2>9, SameEffects DEF CompletionFails
    <3>2. QED
      BY <2>9, <3>1 DEF CompletionFails
  <2>10. CASE MarkImageFailed(w)
    <3>1. Same
      BY <2>10, SameEffects DEF MarkImageFailed
    <3>2. QED
      BY <2>10, <3>1 DEF MarkImageFailed
  <2>11. QED
    BY <1>2, <2>1, <2>2, <2>3, <2>4, <2>5, <2>6, <2>7, <2>8, <2>9, <2>10 DEF HandlerStep
<1>3. ASSUME NEW w \in Workers, Crash(w) PROVE OneEffect'
  <2>1. Same
    BY <1>3, SameEffects DEF Crash
  <2>2. QED
    BY <1>3, <2>1 DEF Crash
<1>4. ASSUME NEW t \in Tasks, CreateTask(t) \/ SelectTask(t) PROVE OneEffect'
  <2>1. Same
    BY <1>4, SameEffects DEF CreateTask, SelectTask, Task
  <2>2. QED
    BY <1>4, <2>1 DEF CreateTask, SelectTask
<1>5. CASE UNCHANGED vars
  <2>1. Same
    BY <1>5, SameEffects DEF vars
  <2>2. QED
    BY <1>5, <2>1 DEF vars
<1>6. QED
  BY <1>1, <1>2, <1>3, <1>4, <1>5 DEF Next

\* Only the two writes touch the artifacts, each at the next version.
LEMMA NextContiguous ==
  TypeOK /\ Contiguous /\ JobInv /\ [Next]_vars => Contiguous'
<1> SUFFICES ASSUME TypeOK, Contiguous, JobInv, [Next]_vars PROVE Contiguous'
  OBVIOUS
<1>1. ASSUME NEW w \in Workers, ExecuteDocument(w) PROVE Contiguous'
  <2>1. PICK old \in SUBSET artifacts, new \in Artifact :
          artifacts' = Added(old, new) /\ new.version = NextVersion(new.scope, new.type)
    BY <1>1, DocumentWrite
  <2>2. QED
    BY <2>1, AddedContiguous DEF TypeOK
<1>2. ASSUME NEW w \in Workers, CompleteImage(w) PROVE Contiguous'
  <2>1. PICK new \in Artifact :
          artifacts' = Added({}, new) /\ new.version = NextVersion(new.scope, new.type)
    BY <1>2, ImageWrite
  <2>2. QED
    BY <2>1, AddedContiguous DEF TypeOK
<1>3. CASE ~ \E w \in Workers : ExecuteDocument(w) \/ CompleteImage(w)
  <2>1. artifacts' = artifacts
    BY <1>3 DEF Next, vars, stored, ClientRequest, HandlerStep, RequestAction,
      ApproveAction, RejectAction, ExecuteAction, ClaimImage, InsertRequest,
      StoreApproval, ExecuteArchive, ExecutionRefused, CallProvider,
      MarkProviderSucceeded, CompletionFails, MarkImageFailed, Crash, CreateTask, SelectTask
  <2>2. QED
    BY <2>1 DEF Contiguous
<1>4. QED
  BY <1>1, <1>2, <1>3

-----------------------------------------------------------------------------
\* The inductive invariant.
IInv == /\ TypeOK /\ Contiguous /\ JobInv /\ ActionInv /\ RunningInv
        /\ TaskInv /\ ActiveTaskOpen /\ OneEffect

LEMMA InitIInv == Init => IInv
<1> SUFFICES ASSUME Init PROVE IInv
  OBVIOUS
<1>1. Contiguous
  <2>1. \A scope, type : VersionsIn(artifacts, scope, type) = 1..0
    BY DEF Init, VersionsIn
  <2>2. QED
    BY <2>1 DEF Contiguous
<1>2. OneEffect
  BY ActionAssumption DEF Init, OneEffect, EffectMatches, Effects
<1>3. QED
  BY <1>1, <1>2, InitTypeOK
  DEF Init, IInv, JobInv, ActionInv, RunningInv, TaskInv, ActiveTaskOpen, Idle,
      ImageLocations, NoProposal

LEMMA NextIInv == IInv /\ [Next]_vars => IInv'
  BY NextTypeOK, NextContiguous, NextJobInv, NextActionInv, NextRunningInv,
     NextTaskInv, NextActiveTaskOpen, NextOneEffect DEF IInv

THEOREM Invariance == Spec => []IInv
<1>1. Init => IInv
  BY InitIInv
<1>2. IInv /\ [Next]_vars => IInv'
  BY NextIInv
<1>3. QED
  BY <1>1, <1>2, PTL DEF Spec

\* Tasks, actions, artifacts and handlers keep their types; every version
\* number that a transaction computes is a number.
THEOREM TypeCorrect == Spec => []TypeOK
<1>1. IInv => TypeOK
  BY DEF IInv
<1>2. QED
  BY <1>1, Invariance, PTL

\* However many workers execute an action however often, it has exactly the
\* one effect it was approved for, and none unless it is completed.
THEOREM EffectOnce == Spec => []OneEffect
<1>1. IInv => OneEffect
  BY DEF IInv
<1>2. QED
  BY <1>1, Invariance, PTL

\* select_active_task and the archive command never leave a conversation on a
\* closed task.
THEOREM ActiveTaskIsOpen == Spec => []ActiveTaskOpen
<1>1. IInv => ActiveTaskOpen
  BY DEF IInv
<1>2. QED
  BY <1>1, Invariance, PTL
-----------------------------------------------------------------------------
(* Artifact histories.                                                      *)

\* Two artifacts of one history have different versions, and of a document
\* the confirmed ones are exactly those no other is newer than.
SameHistory(x, y) == x.scope = y.scope /\ x.type = y.type

HistoryInv ==
  /\ \A x, y \in artifacts : SameHistory(x, y) /\ x.version = y.version => x = y
  /\ \A x \in artifacts : x.type = "document" =>
       /\ x.parent = x.version - 1
       /\ x.status = "confirmed" <=> \A y \in artifacts : SameHistory(x, y) => y.version <= x.version

\* The next version is greater than any of its history.
LEMMA NextIsGreater ==
  ASSUME TypeOK, Contiguous, NEW scope \in Scopes, NEW type \in ArtifactTypes
  PROVE  \A x \in History(scope, type) : x.version < NextVersion(scope, type)
<1>1. PICK n \in Nat : VersionsIn(artifacts, scope, type) = 1..n
  BY DEF Contiguous
<1>2. NextVersion(scope, type) = n + 1
  BY <1>1, NextVersionIs
<1>3. ASSUME NEW x \in History(scope, type) PROVE x.version \in 1..n
  BY <1>1 DEF History, VersionsIn
<1> QED BY <1>2, <1>3

\* The version before the next one, if any, is there and has none above it.
LEMMA LatestOfHistory ==
  ASSUME TypeOK, Contiguous, NEW scope \in Scopes, NEW type \in ArtifactTypes
  PROVE  \/ History(scope, type) = {} /\ NextVersion(scope, type) = 1
         \/ \E x \in History(scope, type) : /\ NextVersion(scope, type) = x.version + 1
                                            /\ \A y \in History(scope, type) : y.version <= x.version
<1>1. PICK n \in Nat : VersionsIn(artifacts, scope, type) = 1..n
  BY DEF Contiguous
<1>2. NextVersion(scope, type) = n + 1
  BY <1>1, NextVersionIs
<1>3. ASSUME NEW x \in History(scope, type) PROVE x.version \in 1..n
  BY <1>1 DEF History, VersionsIn
<1>4. CASE n = 0
  <2>1. 1..n = {}
    BY <1>4
  <2> QED BY <1>2, <1>3, <1>4, <2>1
<1>5. CASE n > 0
  <2>1. n \in VersionsIn(artifacts, scope, type)
    BY <1>1, <1>5
  <2>2. PICK x \in History(scope, type) : x.version = n
    BY <2>1 DEF History, VersionsIn
  <2> QED BY <1>2, <1>3, <2>2
<1> QED BY <1>4, <1>5

\* What an artifact is after a write.
After(old, x) == IF x \in old THEN [x EXCEPT !.status = "superseded"] ELSE x

LEMMA AfterKeeps ==
  ASSUME artifacts \in SUBSET Artifact, NEW old \in SUBSET artifacts, NEW x \in artifacts
  PROVE  LET y == After(old, x)
         IN  /\ y.scope = x.scope /\ y.type = x.type
             /\ y.version = x.version /\ y.parent = x.parent
             /\ y.status = IF x \in old THEN "superseded" ELSE x.status
  BY DEF After, Artifact

LEMMA AddedAre ==
  ASSUME NEW old \in SUBSET artifacts, NEW new
  PROVE  Added(old, new) = {After(old, x) : x \in artifacts} \cup {new}
  BY DEF Added, After

\* A write at the next version that supersedes what is confirmed keeps a
\* history linear; images supersede nothing and have no order of their own.
LEMMA AddedLinear ==
  ASSUME TypeOK, Contiguous, HistoryInv,
         NEW old \in SUBSET artifacts, NEW new \in Artifact,
         new.version = NextVersion(new.scope, new.type), new.status = "confirmed",
         \A x \in old : SameHistory(x, new),
         new.type = "document" =>
           /\ new.parent = new.version - 1
           /\ \A x \in artifacts : SameHistory(x, new) /\ x.status = "confirmed" => x \in old,
         artifacts' = Added(old, new)
  PROVE  HistoryInv'
<1>1. artifacts' = {After(old, x) : x \in artifacts} \cup {new}
  BY AddedAre
<1>2. \A x \in artifacts : /\ After(old, x).scope = x.scope /\ After(old, x).type = x.type
                           /\ After(old, x).version = x.version /\ After(old, x).parent = x.parent
                           /\ After(old, x).status = IF x \in old THEN "superseded" ELSE x.status
  BY AfterKeeps DEF TypeOK
<1>3. \A x \in artifacts : SameHistory(x, new) => x.version < new.version
  BY NextIsGreater DEF History, SameHistory, Artifact
<1>4. \A x \in artifacts \cup {new} : x.version \in Nat
  BY DEF TypeOK, Artifact
<1>5. ASSUME NEW x \in artifacts', NEW y \in artifacts', SameHistory(x, y), x.version = y.version
      PROVE  x = y
  <2>1. CASE x = new \/ y = new
    BY <1>1, <1>2, <1>3, <1>4, <1>5, <2>1 DEF SameHistory
  <2>2. CASE x # new /\ y # new
    <3>1. PICK p \in artifacts, q \in artifacts : x = After(old, p) /\ y = After(old, q)
      BY <1>1, <2>2
    <3>2. SameHistory(p, q) /\ p.version = q.version
      BY <1>2, <1>5, <3>1 DEF SameHistory
    <3> QED BY <3>1, <3>2 DEF HistoryInv
  <2> QED BY <2>1, <2>2
<1>6. ASSUME NEW x \in artifacts', x.type = "document"
      PROVE  /\ x.parent = x.version - 1
             /\ x.status = "confirmed" <=> \A y \in artifacts' : SameHistory(x, y) => y.version <= x.version
  <2>1. CASE x = new
    <3>1. ASSUME NEW y \in artifacts', SameHistory(x, y) PROVE y.version <= x.version
      <4>1. CASE y = new
        BY <1>4, <2>1, <4>1
      <4>2. CASE y # new
        <5>1. PICK q \in artifacts : y = After(old, q)
          BY <1>1, <4>2
        <5> QED BY <1>2, <1>3, <1>4, <2>1, <3>1, <5>1 DEF SameHistory
      <4> QED BY <4>1, <4>2
    <3> QED BY <1>6, <2>1, <3>1
  <2>2. CASE x # new
    <3>1. PICK p \in artifacts : x = After(old, p)
      BY <1>1, <2>2
    <3>2. p.type = "document" /\ x.version = p.version /\ x.parent = p.parent /\ x.scope = p.scope
      BY <1>2, <1>6, <3>1
    <3>3. x.parent = x.version - 1
      BY <3>2 DEF HistoryInv
    <3>4. CASE SameHistory(p, new)
      <4>1. x.status # "confirmed"
        BY <1>2, <1>6, <3>1, <3>2, <3>4 DEF SameHistory
      <4>2. SameHistory(x, new) /\ ~(new.version <= x.version) /\ new \in artifacts'
        BY <1>1, <1>3, <1>4, <1>6, <3>2, <3>4 DEF SameHistory
      <4> QED BY <3>3, <4>1, <4>2
    <3>5. CASE ~SameHistory(p, new)
      <4>1. x = p
        BY <3>1, <3>5 DEF After
      <4>2. ASSUME NEW y \in artifacts', SameHistory(x, y)
            PROVE  \E q \in artifacts : SameHistory(p, q) /\ q.version = y.version
        <5>1. y # new
          BY <3>5, <4>1, <4>2
        <5>2. PICK q \in artifacts : y = After(old, q)
          BY <1>1, <5>1
        <5> QED BY <1>2, <4>1, <4>2, <5>2 DEF SameHistory
      <4>3. ASSUME NEW q \in artifacts, SameHistory(p, q)
            PROVE  \E y \in artifacts' : SameHistory(x, y) /\ q.version = y.version
        <5>1. After(old, q) \in artifacts'
          BY <1>1
        <5> QED BY <1>2, <4>1, <4>3, <5>1 DEF SameHistory
      <4>4. p.status = "confirmed" <=> \A q \in artifacts : SameHistory(p, q) => q.version <= p.version
        BY <3>2 DEF HistoryInv
      <4> QED BY <3>3, <4>1, <4>2, <4>3, <4>4
    <3> QED BY <3>4, <3>5
  <2> QED BY <2>1, <2>2
<1> QED BY <1>5, <1>6 DEF HistoryInv
\* A document execution supersedes the latest version of a document, the one
\* that is confirmed, and names it as the parent.
LEMMA DocumentLinear ==
  ASSUME IInv, HistoryInv, NEW w \in Workers, ExecuteDocument(w)
  PROVE  HistoryInv'
<1> DEFINE ask == job[w].ask
           old == Replaced(ask)
           up  == IF old = {} THEN 0 ELSE (CHOOSE x \in old : TRUE).version
           new == [scope |-> ask.scope, type |-> ask.type,
                   version |-> NextVersion(ask.scope, ask.type), parent |-> up,
                   status |-> "confirmed", by |-> job[w].action]
           confirmed == {x \in History(ask.scope, ask.type) : x.status = "confirmed"}
<1>0. TypeOK /\ Contiguous /\ JobInv
  BY DEF IInv
<1>1. ask.scope \in Scopes /\ ask.type \in ArtifactTypes /\ job[w].action \in Actions
  BY <1>0 DEF TypeOK, Job, Proposal, ExecuteDocument, Executable, JobInv
<1>2. old \in SUBSET artifacts /\ \A x \in old : x.scope = ask.scope /\ x.type = ask.type
  BY DEF Replaced, History
<1>3. new \in Artifact
  <2>1. up \in Nat
    BY <1>0, <1>2 DEF TypeOK, Artifact
  <2>2. NextVersion(ask.scope, ask.type) \in Nat
    BY <1>0, <1>1, NextVersionType
  <2> HIDE DEF up
  <2> QED BY <1>1, <2>1, <2>2 DEF Artifact
<1>4. artifacts' = Added(old, new)
  BY DEF ExecuteDocument, Added
<1>5. CASE ask.type = "document"
  <2>1. \A x \in artifacts : x.version \in Nat
    BY <1>0 DEF TypeOK, Artifact
  <2>2. \A x \in confirmed : \A y \in History(ask.scope, ask.type) : y.version <= x.version
    BY <1>5 DEF HistoryInv, History, SameHistory
  <2>3. ASSUME History(ask.scope, ask.type) = {}
        PROVE  old = {} /\ confirmed = {}
    BY <2>3 DEF Replaced
  <2>4. ASSUME NEW top \in History(ask.scope, ask.type),
               NextVersion(ask.scope, ask.type) = top.version + 1,
               \A y \in History(ask.scope, ask.type) : y.version <= top.version
        PROVE  old = {top} /\ confirmed = {top}
    <3>1. top \in artifacts /\ top.type = "document" /\ top.version \in Nat
      BY <1>5, <2>1, <2>4 DEF History
    <3>2. \A y \in artifacts : SameHistory(top, y) => y.version <= top.version
      BY <2>4 DEF History, SameHistory
    <3>3. top \in confirmed
      BY <3>1, <3>2 DEF HistoryInv
    <3>4. ASSUME NEW x \in confirmed PROVE x = top
      <4>1. x.version \in Nat /\ x.version <= top.version /\ top.version <= x.version
        BY <2>1, <2>2, <2>4, <3>4 DEF History
      <4>2. x.version = top.version
        BY <3>1, <4>1
      <4> QED BY <3>1, <3>4, <4>2 DEF HistoryInv, History, SameHistory
    <3>5. confirmed = {top}
      BY <3>3, <3>4
    <3>6. CASE ask.kind = "revise"
      <4>1. old = {x \in confirmed : x.version = ask.base} /\ old # {}
        BY <3>6 DEF Replaced, ExecuteDocument
      <4> QED BY <3>5, <4>1
    <3>7. CASE ask.kind # "revise"
      <4>1. old = {x \in confirmed : \A y \in confirmed : y.version <= x.version}
        BY <3>7 DEF Replaced
      <4> QED BY <3>1, <3>5, <4>1
    <3> QED BY <3>5, <3>6, <3>7
  <2>5. /\ up = NextVersion(ask.scope, ask.type) - 1
        /\ confirmed \subseteq old
    <3>1. CASE History(ask.scope, ask.type) = {} /\ NextVersion(ask.scope, ask.type) = 1
      <4>1. old = {} /\ confirmed = {}
        BY <2>3, <3>1
      <4>2. up = 0
        BY <4>1
      <4> QED BY <3>1, <4>1, <4>2
    <3>2. CASE \E top \in History(ask.scope, ask.type) :
                 /\ NextVersion(ask.scope, ask.type) = top.version + 1
                 /\ \A y \in History(ask.scope, ask.type) : y.version <= top.version
      <4>1. PICK top \in History(ask.scope, ask.type) :
                 /\ NextVersion(ask.scope, ask.type) = top.version + 1
                 /\ \A y \in History(ask.scope, ask.type) : y.version <= top.version
        BY <3>2
      <4>2. old = {top} /\ confirmed = {top} /\ top.version \in Nat
        BY <2>1, <2>4, <4>1 DEF History
      <4>3. up = top.version
        BY <4>2
      <4> QED BY <4>1, <4>2, <4>3
    <3> QED BY <1>0, <1>1, <3>1, <3>2, LatestOfHistory
  <2> HIDE DEF old, up
  <2>6. \A x \in artifacts : SameHistory(x, new) /\ x.status = "confirmed" => x \in old
    BY <2>5 DEF SameHistory, History
  <2> QED BY <1>0, <1>2, <1>3, <1>4, <2>5, <2>6, AddedLinear DEF SameHistory
<1>6. CASE ask.type # "document"
  <2> HIDE DEF old, up
  <2> QED BY <1>0, <1>2, <1>3, <1>4, <1>6, AddedLinear DEF SameHistory
<1> QED BY <1>5, <1>6

LEMMA NextHistoryInv == IInv /\ HistoryInv /\ [Next]_vars => HistoryInv'
<1> SUFFICES ASSUME IInv, HistoryInv, [Next]_vars PROVE HistoryInv'
  OBVIOUS
<1>1. ASSUME NEW w \in Workers, ExecuteDocument(w) PROVE HistoryInv'
  BY <1>1, DocumentLinear
<1>2. ASSUME NEW w \in Workers, CompleteImage(w) PROVE HistoryInv'
  <2>1. PICK new \in Artifact : /\ artifacts' = Added({}, new) /\ new.type = "generated_image"
                                /\ new.version = NextVersion(new.scope, new.type)
                                /\ new.status = "confirmed"
    BY <1>2, ImageWrite DEF IInv
  <2> QED BY <2>1, AddedLinear DEF IInv
<1>3. CASE ~ \E w \in Workers : ExecuteDocument(w) \/ CompleteImage(w)
  <2>1. artifacts' = artifacts
    BY <1>3 DEF Next, vars, stored, ClientRequest, HandlerStep, RequestAction,
      ApproveAction, RejectAction, ExecuteAction, ClaimImage, InsertRequest,
      StoreApproval, ExecuteArchive, ExecutionRefused, CallProvider,
      MarkProviderSucceeded, CompletionFails, MarkImageFailed, Crash, CreateTask, SelectTask
  <2> QED BY <2>1 DEF HistoryInv
<1> QED BY <1>1, <1>2, <1>3
\* However many executions, in whatever order, save artifacts: a history has
\* no gap and no fork, and one confirmed document, the latest.
THEOREM HistoriesAreLinear == Spec => []LinearHistory
<1>1. Init => HistoryInv
  BY DEF Init, HistoryInv
<1>2. IInv /\ HistoryInv => LinearHistory
  <2> SUFFICES ASSUME IInv, HistoryInv, NEW scope \in Scopes, NEW type \in ArtifactTypes
               PROVE  LET history == History(scope, type)
                          latest  == NextVersion(scope, type) - 1
                      IN /\ {x.version : x \in history} = 1..latest
                         /\ \A x, y \in history : x.version = y.version => x = y
                         /\ type = "document" => \A x \in history :
                              x.parent = x.version - 1 /\ (x.status = "confirmed" <=> x.version = latest)
    BY DEF LinearHistory
  <2>1. PICK n \in Nat : VersionsIn(artifacts, scope, type) = 1..n
    BY DEF IInv, Contiguous
  <2>2. NextVersion(scope, type) - 1 = n
    BY <2>1, NextVersionIs
  <2>3. {x.version : x \in History(scope, type)} = 1..n
    BY <2>1 DEF VersionsIn, History
  <2>4. \A x, y \in History(scope, type) : x.version = y.version => x = y
    BY DEF HistoryInv, SameHistory, History
  <2>5. ASSUME type = "document", NEW x \in History(scope, type)
        PROVE  x.parent = x.version - 1 /\ (x.status = "confirmed" <=> x.version = n)
    <3>1. x \in artifacts /\ x.type = "document" /\ x.version \in 1..n
      BY <2>3, <2>5 DEF History
    <3>2. \A y \in artifacts : SameHistory(x, y) <=> y \in History(scope, type)
      BY DEF SameHistory, History
    <3>3. PICK top \in History(scope, type) : top.version = n
      <4>1. n \in 1..n
        BY <3>1
      <4> QED BY <2>3, <4>1
    <3>4. \A y \in History(scope, type) : y.version \in 1..n
      BY <2>3
    <3>5. (\A y \in artifacts : SameHistory(x, y) => y.version <= x.version) <=> x.version = n
      <4>1. top \in artifacts /\ SameHistory(x, top)
        BY <3>2, <3>3 DEF History
      <4>2. x.version = n => \A y \in artifacts : SameHistory(x, y) => y.version <= x.version
        BY <3>2, <3>4
      <4>3. n <= x.version => x.version = n
        BY <3>1
      <4> QED BY <3>3, <4>1, <4>2, <4>3
    <3> QED BY <3>1, <3>5 DEF HistoryInv
  <2> QED BY <2>2, <2>3, <2>4, <2>5
<1> QED BY <1>1, <1>2, Invariance, NextHistoryInv, PTL DEF Spec
-----------------------------------------------------------------------------
(* Closed tasks.                                                            *)

\* A handler that is about to execute has seen its task open: the version it
\* was sent, if any, is one the task had while open, and closing adds one.
ExpectedInv == \A w \in Workers :
  LET t == job[w].ask.scope
  IN job[w].at = "execute" /\ t \in Tasks =>
       /\ tasks[t].status # "absent"
       /\ job[w].expected # None =>
            /\ job[w].expected <= tasks[t].version
            /\ tasks[t].status = "closed" => job[w].expected < tasks[t].version

\* Tasks only move on.
Later(t) == \/ tasks'[t] = tasks[t]
            \/ tasks[t].status = "absent"
            \/ /\ tasks[t].status # "absent" /\ tasks'[t].version = tasks[t].version + 1
               /\ tasks'[t].status \in {tasks[t].status, "closed"}

LEMMA TasksMoveOn == IInv /\ [Next]_vars => \A t \in Tasks : Later(t)
<1> SUFFICES ASSUME IInv, [Next]_vars, NEW t \in Tasks PROVE Later(t)
  OBVIOUS
<1>1. tasks \in [Tasks -> Task] /\ job \in [Workers -> Job]
  BY DEF IInv, TypeOK
<1>2. ASSUME NEW w \in Workers, ExecuteDocument(w) PROVE Later(t)
  <2>1. tasks' = tasks \/ tasks' = [tasks EXCEPT ![job[w].ask.scope].version = @ + 1]
    BY <1>2 DEF ExecuteDocument
  <2> QED BY <1>1, <2>1 DEF Later, Task
<1>3. ASSUME NEW w \in Workers, ExecuteArchive(w) PROVE Later(t)
  BY <1>1, <1>3 DEF ExecuteArchive, Later, Task
<1>4. ASSUME NEW k \in Tasks, CreateTask(k) PROVE Later(t)
  BY <1>1, <1>4 DEF CreateTask, Later, Task
<1>5. CASE ~ ((\E w \in Workers : ExecuteDocument(w) \/ ExecuteArchive(w))
               \/ \E k \in Tasks : CreateTask(k))
  <2>1. tasks' = tasks
    BY <1>5 DEF Next, vars, stored, ClientRequest, HandlerStep, RequestAction,
      ApproveAction, RejectAction, ExecuteAction, ClaimImage, InsertRequest,
      StoreApproval, CompleteImage, ExecutionRefused, CallProvider,
      MarkProviderSucceeded, CompletionFails, MarkImageFailed, Crash, SelectTask
  <2> QED BY <2>1 DEF Later
<1> QED BY <1>2, <1>3, <1>4, <1>5

\* A handler comes to the execution by ExecuteAction only.
LEMMA ReachesExecute ==
  ASSUME IInv, [Next]_vars, NEW w \in Workers, job'[w].at = "execute"
  PROVE  job'[w] = job[w] \/ \E a \in Actions : ExecuteAction(w, a)
<1>1. job \in [Workers -> Job] /\ Idle.at = "idle"
  BY DEF IInv, TypeOK, Idle
<1>2. ASSUME NEW v \in Workers, ClientRequest(v)
      PROVE  job'[w] = job[w] \/ \E a \in Actions : ExecuteAction(w, a)
  <2>1. CASE \E a \in Actions : RequestAction(v, a)
    BY <1>1, <2>1 DEF RequestAction, Start
  <2>2. CASE \E a \in Actions : ExecuteAction(v, a)
    BY <1>1, <2>2 DEF ExecuteAction, Start
  <2>3. CASE \E a \in Actions : ApproveAction(v, a) \/ RejectAction(v, a) \/ ClaimImage(v, a)
    BY <1>1, <2>3 DEF ApproveAction, RejectAction, ClaimImage, Start
  <2> QED BY <1>2, <2>1, <2>2, <2>3 DEF ClientRequest
<1>3. ASSUME NEW v \in Workers, HandlerStep(v) \/ Crash(v) PROVE job'[w] = job[w]
  BY <1>1, <1>3 DEF HandlerStep, Crash, InsertRequest, StoreApproval, ExecuteDocument,
     ExecuteArchive, ExecutionRefused, CallProvider, MarkProviderSucceeded, CompleteImage,
     CompletionFails, MarkImageFailed, Done, GoTo, Job
<1>4. CASE (\E t \in Tasks : CreateTask(t) \/ SelectTask(t)) \/ UNCHANGED vars
  BY <1>4 DEF CreateTask, SelectTask, vars
<1> QED BY <1>2, <1>3, <1>4 DEF Next

LEMMA NextExpectedInv == IInv /\ ExpectedInv /\ [Next]_vars => ExpectedInv'
<1> SUFFICES ASSUME IInv, ExpectedInv, [Next]_vars, NEW w \in Workers,
                    job'[w].at = "execute", job'[w].ask.scope \in Tasks
             PROVE  LET t == job'[w].ask.scope
                    IN /\ tasks'[t].status # "absent"
                       /\ job'[w].expected # None =>
                            /\ job'[w].expected <= tasks'[t].version
                            /\ tasks'[t].status = "closed" => job'[w].expected < tasks'[t].version
  BY DEF ExpectedInv
<1> DEFINE t == job'[w].ask.scope
<1>1. /\ tasks \in [Tasks -> Task] /\ job \in [Workers -> Job]
      /\ tasks[t].version \in Nat
  BY DEF IInv, TypeOK, Task
<1>2. CASE job'[w] = job[w]
  <2>1. /\ tasks[t].status # "absent"
        /\ job[w].expected # None =>
             /\ job[w].expected <= tasks[t].version
             /\ tasks[t].status = "closed" => job[w].expected < tasks[t].version
    BY <1>2 DEF ExpectedInv
  <2>2. tasks'[t] = tasks[t] \/ (/\ tasks'[t].version = tasks[t].version + 1
                                /\ tasks'[t].status \in {tasks[t].status, "closed"})
    BY <2>1, TasksMoveOn DEF Later
  <2>3. job[w].expected # None => job[w].expected \in Nat
    BY <1>1 DEF Job, Versions
  <2> QED BY <1>1, <1>2, <2>1, <2>2, <2>3
<1>3. ASSUME NEW a \in Actions, ExecuteAction(w, a)
      PROVE  /\ tasks'[t].status = "exploring"
             /\ job'[w].expected \in {None, tasks'[t].version} /\ tasks' = tasks
  <2>1. PICK expected \in ClientVersions(actions[a].ask.scope) :
          Start(w, "execute", a, actions[a].ask, expected)
    BY <1>3 DEF ExecuteAction
  <2>2. job'[w].ask = actions[a].ask /\ job'[w].expected = expected
    BY <1>1, <2>1 DEF Start
  <2>3. tasks' = tasks /\ t # None /\ tasks[t].status = "exploring"
    BY <1>3, <2>2, ActionAssumption DEF ExecuteAction, Allowed, stored
  <2> QED BY <2>2, <2>3 DEF ClientVersions
<1>4. CASE \E a \in Actions : ExecuteAction(w, a)
  BY <1>1, <1>3, <1>4
<1> QED BY <1>2, <1>4, ReachesExecute

\* A document written into a task that was closed since the policy was asked
\* comes from a client that sent no version: a version sent is compared under
\* the lock, and closing has raised it.
THEOREM ClosedTasksKept == Spec => ClosedTaskKeepsDocuments
<1> DEFINE Kept == \A t \in Tasks : tasks[t].status = "closed" =>
               \/ History(t, "document")' = History(t, "document")
               \/ \E w \in Workers : job[w].at = "execute" /\ job[w].ask.scope = t
                                     /\ job[w].expected = None
<1>1. Init => ExpectedInv
  BY DEF Init, ExpectedInv, Idle
<1>2. IInv /\ ExpectedInv /\ [Next]_vars => [Kept]_vars
  <2> SUFFICES ASSUME IInv, ExpectedInv, [Next]_vars, NEW t \in Tasks, tasks[t].status = "closed",
                      History(t, "document")' # History(t, "document")
               PROVE  \E w \in Workers : job[w].at = "execute" /\ job[w].ask.scope = t
                                         /\ job[w].expected = None
    OBVIOUS
  <2>0. TypeOK /\ Contiguous /\ JobInv
    BY DEF IInv
  <2>1. ASSUME NEW w \in Workers, ExecuteDocument(w)
        PROVE  job[w].at = "execute" /\ job[w].ask.scope = t /\ job[w].expected = None
    <3>1. /\ job[w].at = "execute"
          /\ job[w].expected = None \/ tasks[job[w].ask.scope].version = job[w].expected
      BY <2>1 DEF ExecuteDocument, Executable, VersionHolds
    <3>2. job[w].ask.scope = t
      <4> SUFFICES ASSUME job[w].ask.scope # t
                   PROVE  History(t, "document")' = History(t, "document")
        OBVIOUS
      <4> DEFINE ask == job[w].ask
                 old == Replaced(ask)
                 new == [scope |-> ask.scope, type |-> ask.type,
                         version |-> NextVersion(ask.scope, ask.type),
                         parent |-> IF old = {} THEN 0 ELSE (CHOOSE x \in old : TRUE).version,
                         status |-> "confirmed", by |-> job[w].action]
      <4>1. artifacts' = (artifacts \ old) \cup {new} \cup {[x EXCEPT !.status = "superseded"] : x \in old}
        BY <2>1 DEF ExecuteDocument
      <4>2. \A x \in old : x.scope # t /\ x \in artifacts
        BY DEF Replaced, History
      <4>3. new.scope # t
        OBVIOUS
      <4> HIDE DEF old, new
      <4>4. \A x \in old : [x EXCEPT !.status = "superseded"].scope # t
        BY <2>0, <4>2 DEF TypeOK, Artifact
      <4>5. \A x : x.scope = t => (x \in artifacts' <=> x \in artifacts)
        BY <4>1, <4>2, <4>3, <4>4
      <4> QED BY <4>5 DEF History
    <3>3. job[w].expected # None => job[w].expected < tasks[t].version
      BY <3>1, <3>2 DEF ExpectedInv
    <3>4. tasks[t].version \in Nat
      BY <2>0 DEF TypeOK, Task
    <3> QED BY <3>1, <3>2, <3>3, <3>4
  <2>2. ASSUME NEW w \in Workers, CompleteImage(w) PROVE FALSE
    <3>1. PICK new \in Artifact : artifacts' = Added({}, new) /\ new.type = "generated_image"
      BY <2>0, <2>2, ImageWrite
    <3>2. artifacts' = artifacts \cup {new}
      BY <3>1 DEF Added
    <3> QED BY <3>1, <3>2 DEF History
  <2>3. CASE ~ \E w \in Workers : ExecuteDocument(w) \/ CompleteImage(w)
    <3>1. artifacts' = artifacts
      BY <2>3 DEF Next, vars, stored, ClientRequest, HandlerStep, RequestAction,
        ApproveAction, RejectAction, ExecuteAction, ClaimImage, InsertRequest,
        StoreApproval, ExecuteArchive, ExecutionRefused, CallProvider,
        MarkProviderSucceeded, CompletionFails, MarkImageFailed, Crash, CreateTask, SelectTask
    <3> QED BY <3>1 DEF History
  <2> QED BY <2>1, <2>2, <2>3
<1> QED BY <1>1, <1>2, Invariance, NextExpectedInv, PTL DEF Spec, ClosedTaskKeepsDocuments
-----------------------------------------------------------------------------
(* The contract: the handlers implement ApprovedEffect.                     *)

\* The refinement mapping.
State == [a \in Actions |-> actions[a].status]
Made  == [a \in Actions |-> Effects(a)]

\* A step that gives one action a status moves it in the contract.
LEMMA StateMoves ==
  ASSUME NEW a \in Actions, NEW to,
         \A b \in Actions :
           actions'[b].status = IF b = a THEN to ELSE actions[b].status
  PROVE  State' = [State EXCEPT ![a] = to]
  BY DEF State

\* A step that writes nothing the user can see stutters.
LEMMA Stutters ==
  ASSUME \A a \in Actions : actions'[a].status = actions[a].status,
         \A a \in Actions : Effects(a)' = Effects(a), calls' = calls
  PROVE  UNCHANGED Contract!vars
<1>1. State' = State
  BY DEF State
<1>2. Made' = Made
  BY DEF Made
<1>3. QED
  BY <1>1, <1>2 DEF State, Made, Contract!vars

\* A step that gives one action its one effect takes it in the contract.
LEMMA TakesEffect ==
  ASSUME NEW a \in Actions, NEW thing, Effects(a) = {},
         \A b \in Actions :
           Effects(b)' = IF b = a THEN Effects(b) \cup {thing} ELSE Effects(b)
  PROVE  Contract!TakeEffect(a)
<1>1. Made' = [Made EXCEPT ![a] = {thing}]
  BY DEF Made
<1>2. Made[a] = {} /\ Made'[a] = {thing}
  BY DEF Made
<1>3. Made[a] = {} /\ \E x \in Made'[a] : Made' = [Made EXCEPT ![a] = {x}]
  BY <1>1, <1>2
<1>4. QED
  BY <1>3, Zenon DEF Contract!TakeEffect, Made

LEMMA InitMaps == Init => Contract!Init
<1> SUFFICES ASSUME Init PROVE Contract!Init
  OBVIOUS
<1>1. State = [a \in Actions |-> "absent"]
  BY DEF Init, State
<1>2. \A a \in Actions : Effects(a) = {}
  BY ActionAssumption DEF Init, Effects
<1>3. Made = [a \in Actions |-> {}]
  BY <1>2 DEF Made
<1>4. QED
  BY <1>1, <1>3 DEF Contract!Init, State, Made, Init

\* Every step of a handler is a step of the contract or leaves it unchanged.
LEMMA StepMaps == IInv /\ [Next]_vars => [Contract!Next]_(Contract!vars)
<1> SUFFICES ASSUME IInv, [Next]_vars PROVE Contract!Next \/ UNCHANGED Contract!vars
  OBVIOUS
<1> USE DEF IInv, TypeOK, Action, stored, observed, State
<1>1. ASSUME NEW w \in Workers, ClientRequest(w)
      PROVE  Contract!Next \/ UNCHANGED Contract!vars
  <2>0. \A a \in Actions : Effects(a)' = Effects(a)
    BY <1>1, SameEffects DEF ClientRequest, RequestAction, ApproveAction, RejectAction,
                             ExecuteAction, ClaimImage
  <2>1. ASSUME NEW a \in Actions,
               RequestAction(w, a) \/ ApproveAction(w, a) \/ ExecuteAction(w, a)
        PROVE  UNCHANGED Contract!vars
    BY <2>0, <2>1, Stutters DEF RequestAction, ApproveAction, ExecuteAction
  <2>2. Made' = Made
    BY <2>0 DEF Made
  <2>3. ASSUME NEW a \in Actions, RejectAction(w, a) PROVE Contract!Reject(a)
    <3>1. State' = [State EXCEPT ![a] = "rejected"]
      BY <2>3, StateMoves DEF RejectAction
    <3>2. QED
      BY <2>2, <2>3, <3>1 DEF RejectAction, Contract!Reject, Contract!Move, Made
  <2>4. ASSUME NEW a \in Actions, ClaimImage(w, a) PROVE Contract!Claim(a)
    <3>1. State' = [State EXCEPT ![a] = "running"]
      BY <2>4, StateMoves DEF ClaimImage, Mark
    <3>2. QED
      BY <2>2, <2>4, <3>1 DEF ClaimImage, Contract!Claim, Contract!Move, Made
  <2>5. QED
    BY <1>1, <2>1, <2>3, <2>4 DEF ClientRequest, Contract!Next
<1>2. ASSUME NEW w \in Workers, HandlerStep(w)
      PROVE  Contract!Next \/ UNCHANGED Contract!vars
  <2>1. PICK a : a = job[w].action
    OBVIOUS
  <2>2. CASE InsertRequest(w)
    <3>0. a \in Actions
      BY <2>1, <2>2 DEF InsertRequest, JobInv
    <3>1. \A b \in Actions : Effects(b)' = Effects(b)
      BY <2>2, SameEffects DEF InsertRequest
    <3>2. Made' = Made
      BY <3>1 DEF Made
    <3>3. CASE actions' = actions
      BY <2>2, <3>1, <3>3, Stutters DEF InsertRequest
    <3>4. CASE actions[a].status = "absent" /\ actions' # actions
      <4>1. State' = [State EXCEPT ![a] = "requested"]
        BY <2>1, <2>2, <3>0, <3>4, StateMoves DEF InsertRequest
      <4>2. Contract!Request(a)
        BY <2>2, <3>0, <3>2, <3>4, <4>1
        DEF InsertRequest, Contract!Request, Contract!Move, Made
      <4>3. QED
        BY <3>0, <4>2 DEF Contract!Next
    <3>5. QED
      BY <2>1, <2>2, <3>3, <3>4 DEF InsertRequest
  <2>3. CASE StoreApproval(w)
    <3>0. a \in Actions
      BY <2>1, <2>3 DEF StoreApproval, JobInv
    <3>1. \A b \in Actions : Effects(b)' = Effects(b)
      BY <2>3, SameEffects DEF StoreApproval
    <3>2. Made' = Made
      BY <3>1 DEF Made
    <3>3. CASE actions' = actions
      BY <2>3, <3>1, <3>3, Stutters DEF StoreApproval
    <3>4. CASE /\ actions[a].status = "requested"
               /\ actions' = [actions EXCEPT ![a].status = "approved"]
      <4>1. State' = [State EXCEPT ![a] = "approved"]
        BY <3>0, <3>4, StateMoves
      <4>2. Contract!Approve(a)
        BY <2>3, <3>0, <3>2, <3>4, <4>1
        DEF StoreApproval, Contract!Approve, Contract!Move, Made
      <4>3. QED
        BY <3>0, <4>2 DEF Contract!Next
    <3>5. QED
      BY <2>1, <2>3, <3>3, <3>4 DEF StoreApproval
  <2>4. CASE ExecuteDocument(w)
    <3>1. a \in Actions /\ actions[a].status = "approved"
      BY <2>1, <2>4 DEF ExecuteDocument, Executable, JobInv
    <3>2. PICK old \in SUBSET artifacts, new \in Artifact :
             artifacts' = Added(old, new) /\ new.by = a
      BY <2>1, <2>4, DocumentWrite
    <3>3. \A t \in Tasks : tasks'[t].closedBy = tasks[t].closedBy
      BY <2>4 DEF ExecuteDocument, Task
    <3>4. \A b \in Actions : Effects(b)' =
            IF a = b THEN Effects(b) \cup {<<new.scope, new.type, new.version>>}
                     ELSE Effects(b)
      BY <3>2, <3>3, AddedEffects
    <3>5. Contract!TakeEffect(a)
      <4>1. Effects(a) = {}
        BY <3>1 DEF OneEffect, EffectMatches
      <4>2. QED
        BY <3>1, <3>4, <4>1, TakesEffect
    <3>6. State' = [State EXCEPT ![a] = "completed"]
      BY <2>1, <2>4, <3>1, StateMoves DEF ExecuteDocument, Mark
    <3>7. Contract!Perform(a)
      BY <2>4, <3>1, <3>5, <3>6 DEF ExecuteDocument, Contract!Perform, Contract!Move
    <3>8. QED
      BY <3>1, <3>7 DEF Contract!Next
  <2>5. CASE ExecuteArchive(w)
    <3>1. a \in Actions /\ actions[a].status = "approved"
      BY <2>1, <2>5 DEF ExecuteArchive, Executable, JobInv
    <3>2. \A b \in Actions : Effects(b)' =
            IF a = b THEN Effects(b) \cup {job[w].ask.scope} ELSE Effects(b)
      BY <2>1, <2>5, ArchiveEffects
    <3>3. Contract!TakeEffect(a)
      <4>1. Effects(a) = {}
        BY <3>1 DEF OneEffect, EffectMatches
      <4>2. QED
        BY <3>1, <3>2, <4>1, TakesEffect
    <3>4. State' = [State EXCEPT ![a] = "completed"]
      BY <2>1, <2>5, <3>1, StateMoves DEF ExecuteArchive, Mark
    <3>5. Contract!Perform(a)
      BY <2>5, <3>1, <3>3, <3>4 DEF ExecuteArchive, Contract!Perform, Contract!Move
    <3>6. QED
      BY <3>1, <3>5 DEF Contract!Next
  <2>6. CASE ExecutionRefused(w) \/ CompletionFails(w)
    <3>1. \A b \in Actions : Effects(b)' = Effects(b)
      BY <2>6, SameEffects DEF ExecutionRefused, CompletionFails
    <3>2. QED
      BY <2>6, <3>1, Stutters DEF ExecutionRefused, CompletionFails
  <2>7. CASE CallProvider(w)
    <3>1. a \in Actions /\ actions[a].status = "running" /\ calls[a] = 0
      BY <2>1, <2>7 DEF CallProvider, JobInv, RunningInv, ImageLocations
    <3>2. \A b \in Actions : Effects(b)' = Effects(b)
      BY <2>7, SameEffects DEF CallProvider
    <3>3. State' = State /\ Made' = Made
      BY <2>7, <3>2 DEF CallProvider, Made
    <3>4. calls' = [calls EXCEPT ![a] = 1]
      BY <2>1, <2>7, <3>1 DEF CallProvider
    <3>5. Contract!CallProvider(a)
      BY <3>1, <3>3, <3>4 DEF Contract!CallProvider, Made
    <3>6. QED
      BY <3>1, <3>5 DEF Contract!Next
  <2>8. CASE MarkProviderSucceeded(w)
    <3>1. a \in Actions
      BY <2>1, <2>8 DEF MarkProviderSucceeded, JobInv
    <3>2. \A b \in Actions : Effects(b)' = Effects(b)
      BY <2>8, SameEffects DEF MarkProviderSucceeded
    <3>3. \A b \in Actions : actions'[b].status = actions[b].status
      BY <2>8 DEF MarkProviderSucceeded, Mark
    <3>4. QED
      BY <2>8, <3>2, <3>3, Stutters DEF MarkProviderSucceeded
  <2>9. CASE CompleteImage(w)
    <3>1. a \in Actions /\ actions[a].status = "running" /\ calls[a] = 1
      BY <2>1, <2>9 DEF CompleteImage, JobInv, RunningInv, ImageLocations
    <3>2. PICK new \in Artifact : artifacts' = Added({}, new) /\ new.by = a
      BY <2>1, <2>9, ImageWrite
    <3>3. \A t \in Tasks : tasks'[t].closedBy = tasks[t].closedBy
      BY <2>9 DEF CompleteImage
    <3>4. \A b \in Actions : Effects(b)' =
            IF a = b THEN Effects(b) \cup {<<new.scope, new.type, new.version>>}
                     ELSE Effects(b)
      BY <3>2, <3>3, AddedEffects
    <3>5. Contract!TakeEffect(a)
      <4>1. Effects(a) = {}
        BY <3>1 DEF OneEffect, EffectMatches
      <4>2. QED
        BY <3>1, <3>4, <4>1, TakesEffect
    <3>6. State' = [State EXCEPT ![a] = "completed"]
      BY <2>1, <2>9, <3>1, StateMoves DEF CompleteImage, Mark
    <3>7. Contract!Persist(a)
      BY <2>9, <3>1, <3>5, <3>6 DEF CompleteImage, Contract!Persist, Contract!Move
    <3>8. QED
      BY <3>1, <3>7 DEF Contract!Next
  <2>10. CASE MarkImageFailed(w)
    <3>1. a \in Actions /\ actions[a].status = "running" /\ calls[a] = 1
      BY <2>1, <2>10 DEF MarkImageFailed, JobInv, RunningInv, ImageLocations
    <3>2. \A b \in Actions : Effects(b)' = Effects(b)
      BY <2>10, SameEffects DEF MarkImageFailed
    <3>3. Made' = Made
      BY <3>2 DEF Made
    <3>4. State' = [State EXCEPT ![a] = "failed"]
      <4>1. actions' = [actions EXCEPT ![a].status = "failed"]
        BY <2>1, <2>10, <3>1 DEF MarkImageFailed
      <4>2. actions \in [Actions -> Action]
        BY <2>1 DEF TypeOK
      <4>3. actions'[a].status = "failed" /\ \A b \in Actions : b # a => actions'[b] = actions[b]
        BY <3>1, <4>1, <4>2 DEF Action
      <4>4. QED
        BY <3>1, <4>3 DEF State
    <3>5. Contract!Fail(a)
      BY <2>10, <3>1, <3>3, <3>4 DEF MarkImageFailed, Contract!Fail, Contract!Move, Made
    <3>6. QED
      BY <3>1, <3>5 DEF Contract!Next
  <2>11. QED
    BY <1>2, <2>2, <2>3, <2>4, <2>5, <2>6, <2>7, <2>8, <2>9, <2>10 DEF HandlerStep
<1>3. CASE \/ \E w \in Workers : Crash(w)
           \/ \E t \in Tasks : CreateTask(t) \/ SelectTask(t)
           \/ UNCHANGED vars
  <2>1. \A b \in Actions : Effects(b)' = Effects(b)
    <3>1. artifacts' = artifacts
      BY <1>3 DEF Crash, CreateTask, SelectTask, vars, stored
    <3>2. \A t \in Tasks : tasks'[t].closedBy = tasks[t].closedBy
      <4>1. CASE \E t \in Tasks : CreateTask(t)
        BY <4>1 DEF CreateTask, IInv, TypeOK, Task
      <4>2. CASE tasks' = tasks
        BY <4>2
      <4>3. QED
        BY <1>3, <4>1, <4>2 DEF Crash, SelectTask, vars, stored
    <3>3. QED
      BY <3>1, <3>2, SameEffects
  <2>2. actions' = actions /\ calls' = calls
    BY <1>3 DEF Crash, CreateTask, SelectTask, vars
  <2>3. QED
    BY <2>1, <2>2, Stutters
<1>4. QED
  BY <1>1, <1>2, <1>3 DEF Next

\* The detailed handlers implement the contract of a human-approved action.
THEOREM Implements == Spec => ImplementsContract
<1>1. Init => Contract!Init
  BY InitMaps
<1>2. IInv /\ [Next]_vars => [Contract!Next]_(Contract!vars)
  BY StepMaps
<1>3. QED
  BY <1>1, <1>2, Invariance, PTL DEF Spec, ImplementsContract, Contract!Spec
=============================================================================
