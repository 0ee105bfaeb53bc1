# Formal model of the smart cultural platform

The platform designs cultural products with a language model and paid image
providers. A user talks with a design agent and confirms what it proposes, or
fills the form of the quick workspace; a script copies what was generated to
Hive; an offline harness compares two ways to prompt. The difficult logic is in
the backend: handlers that are chains of short MySQL transactions with model
and provider calls between them, clients that retry, human approvals that must
have exactly one effect. This directory models that logic in TLA+, checks it
with TLC on small instances and proves the central results with TLAPS for every
size.

Paths are relative to the repository; `R` stands for
`backend/services/agent_runtime_repository.py`, `DR` for
`backend/services/agent_dialogue_repository.py` and `AR` for
`backend/services/agent_design_domain_repository.py`.

## 1. Inventory

| Component | State | Operations | Hard behaviour | What makes it correct | Modules |
|---|---|---|---|---|---|
| Confirmation dialogue (`services/agent_dialogue_service.py`, the stage services, DR) | the `agent_sessions` row, `agent_messages`, `agent_steps`, decision receipts | post a message; confirm brief, text, image; request a revision | handlers of 2 to 4 transactions around model and provider calls; late handlers, lost claims and acknowledgements, crashes, repeated decisions | one provider call per confirmation, one log per session, every stage ends, the image is that of the confirmed text, a text called grounded is, errors are explained | `DialogueSession`, `DesignStage` |
| Design tasks, actions, artifacts (`services/agent_action_service.py`, `agents/actions/*`, AR) | tasks, active task, actions, artifact versions | create, select task; request, approve, reject, execute | policy read outside the transaction, claims of image actions, retries, archive of a task in use, proposals computed anew at each request | one effect after one approval, of what was on the screen; linear version history | `ActionLifecycle`, `ApprovedEffect`, `ProposalReview` |
| Agent routes (`routes/agent_dialogue.py`) | none | one service call each | two transactions of `create_design_task` | as its services | as its services |
| Runtime turns, summaries (`services/agent_runtime_turn_service.py`, R, `agents/context/*`) | runs, the message log, the active summary of each scope | one assistant turn: store run, build context, compress, ask the model, complete | three reads in three transactions, retried turns, a task switched or closed meanwhile | a turn is recorded whole, once, in its task; a summary covers a prefix; the model is asked once | `RuntimeTurn`, `ReplyContract` |
| Tool runtime (`agents/runtime/*`, `design_conversation/service.py`) | the call ledger, budgets and request count of one run | authorize, execute, replay a call; repair, retry, fall back | budgets over a long mix of calls and replays, second attempts that share one limit | budgets hold, nothing unapproved runs, a wanted image is not passed over | `ToolRuntime` |
| Generation API (`routes/api.py`, `services/mysql_service.py`, `generation_tracking.py`, `aigc_service.py`, `image_storage.py`) | attempts, metrics, `generation_logs`, files | generate on two routes | idempotency keys, retried INSERTs, lost acknowledgements, disk errors | a key pays once, a success is durable, attempts end | `GenerationAttempt` |
| User activity, history (`routes/api.py`, `mysql_service.py`, `hive_service.py`, `frontend/src/App.vue`) | log rows, the page | page, rate, download | offsets shift under writes, retried UPDATE | pages have no holes, a download counts once | `UserActivity` |
| Accounts, login (`routes/auth.py`, `routes/api.py`) | `users_data`, the users file | login with migration of plain passwords | threads, file write failures, restarts | nobody is locked out | `Accounts` |
| Analytics export (`scripts/mysql_to_hive_ods.py`) | batches, watermarks, Hive rows | one incremental copy | overlapping and dying scripts, stamps committed out of order | the watermark passes nothing that was not copied | `OdsSync` |
| RAG, skill routing (`rag/*`, `agents/skill_*`) | a fixed corpus | retrieve, decide | numeric ranking | a citation is relevant | part of `DesignStage` |
| Prompts, output contracts | none | build, validate | text | only storable replies are stored | parts of `DesignStage`, `ReplyContract` |
| Web client, collaborative panel (`AgentDesignPanel.vue`) | proposal cards | show, confirm, resume | several tabs, cards kept per run | as actions | part of `ProposalReview` |
| Round 17C evaluation (`evaluation/round17c_*`) | one run folder | run, judge, resume twice over, finalize, reseal | a command that fails or dies between two files | paid once, sealed whole, a winner only on agreement | `EvaluationRun` |
| Text skill generation (`services/round17c_business.py`, `routes/generation.py`) | none of its own | one pipeline | its evidence check always fails (section 4) | - | - |
| Users, media, dashboard, health | none of their own | single queries and files | none beyond the database | - | - |
| Other evaluation runners; batch statistics and synthetic data (`scripts/spark_etl.py`, `monidatast.py`) | files, tables replaced whole | offline | none | - | - |

The browser calls the routes; a route calls one service method. Dialogue,
actions and runtime turns share the session row (its lock, `active_task_id`) and
`agent_messages`: a runtime turn stores a proposal, an action is requested from
it, its execution saves artifacts that the next turn's context reads. The quick
workspace, the history and the export share `generation_logs`.

### Concurrency of the deployment

The documented command is one uvicorn process (`README.md:371`,
`backend/app.py:49`). Its `async def` routes call synchronous services, so a
dialogue, action or generation handler runs alone there and runtime turns
interleave only where they await; plain `def` routes (login) run on threads.
But the code is written for more: `README.md:194` promises
`SELECT ... FOR UPDATE` for concurrent claims, `docs/AGENT_DIALOGUE_MVP_AUDIT.md:257`
asks that two tabs never generate two images, and a docstring of R speaks of
"two workers". Hence the constants `Workers` and `Processes`: with one they
show what the documented deployment keeps, with two what survives every race.
`DesignStage` and `UserActivity` are about one process, whose handlers are
atomic towards each other.

`PROJECT.json` lists the hazards, each with its line and the property aimed at
it, or the reason why there is none.

## 2. Modules

An action stands for one transaction, unlocked read, external call or statement
of a handler, with every call of it that changes state. A transaction that
raises changes nothing, so a refused request is an action that is not enabled,
unless the handler had written before. Variables that only observe (calls paid,
faults met) are named as such in the module; no guard of the code's actions reads
them.

### DialogueSession

One action per transaction and external call of `append_message` and
`submit_decision`. A worker's `job` says where its handler is. Content is the
set of user turns it incorporates, so "this image belongs to that text" is an
equality of sets, and {} is NULL. `Crash` forgets the handler, keeps the row.

- `ReceiveMessage`, `StoreTurn`, `MessageForBrief`, `MessageForText`,
  `MessageReplayed`, `MessageRefused`: a message and its state dependent
  continuation; `ClaimRevision`, `CallBriefAgent`, `FinishBrief`, `FailBrief`.
- `Decide` with `ConfirmBrief`, `ConfirmProductText`, `ConfirmImage`,
  `UnsupportedDecision`; then the read / call / finish steps of text
  (`ReadForText`, `FinishText`, `FailText`, `FailRevision`), image prompt
  (`ReadForVisual`, `FinishVisual`, `FailVisual`) and image (`CallImageProvider`,
  `PersistImage`, `FinishImage`, `RecordImageFailure`). The provider returns an
  address; the image is safe only once `PersistImage` has stored its file (`files`).

The optional `expected_version` (a mismatch only refuses) is left out. Under
concurrency the revision limit is held by the table's CHECK
(`migrations/versions/0007_agent_dialogue_sessions.py:43`) alone, and is
modelled by it.

### DesignStage

The same stages from the inside, one handler at a time: each tool opens a row of
`agent_steps`, works, closes it; evidence is retrieved and ranked, the model's
brief, text and image package pass their contracts or fail, errors are recorded
and the session detail (`Detail`) shows what a client reads. Any transaction may
raise before its commit or after it (`MaxFaults`), the process may die
(`MaxCrashes`). `Tools` is the chain of each stage; `Working(tool)` guards the
operation of a tool. Scores are given per topic and source instead of computed
from tokens.

### ActionLifecycle and ApprovedEffect

`ActionLifecycle` holds tasks, actions, artifact versions and the handlers that
request, approve, reject and execute. Document and archive actions execute in
one transaction; an image action is claimed, called at the provider, marked and
completed in separate steps, each of which can fail. `create_design_task` is two
transactions of the route and two actions here. The policy's several unlocked
reads are one step; the write transaction after it checks what it checks in the
code. `ApprovedEffect` is the contract of the README's state diagram: approval
before effect, one effect and one provider call at most, none after a refusal or
failure. `ImplementsContract` is that specification under the mapping
`state <- status`, `effects <- Effects(a)`.

Reading the code excludes: task statuses `paused` and `active` and other
conversation statuses (never written); the `execution_idempotency_key` branch for
approved rows (dead). The retry of a request whose answer was lost carries the
old task version and is refused before the idempotency key is looked at:
nothing is done twice, nothing is replayed.

### RuntimeTurn, ReplyContract and ProposalReview

`RuntimeTurn` follows `run_turn`: `StartTurn` (`create_or_get_run`),
`ReadMessages`, `ReadSummary`, `Compress` or `KeepSummary` (context builder and
validator), `StoreSummary`, then the model and `CompleteRun`. From `StartTurn`
until the model is awaited nothing suspends, so the process is held: `Free(p)`.
A summary is the set of log positions it covers; what the token budget admits is
any set that contains the last `MinRecent` rows. "ended" stands for completed,
pending_approval and failed. `LoseTurn` is a crash or an exception that escapes.

`ReplyContract` says which of the model's replies becomes a stored output
(`Adapt`, `Normalized`, `Accepted`): a pure module.

`ProposalReview` composes RuntimeTurn with what becomes of an answer: a proposal
is computed from the newest messages of its scope each time it is fetched
(`RuntimeProposal`), shown on a card that the panel keeps per run
(`ShowProposal`), sent back with a digest (`Click`, `Matches`), approved by that
click or by the resume button of another tab (`ApproveClicked`,
`ApproveResumed`) and executed. A handler of an action is one step there; its
inner interleavings are ActionLifecycle's.

### ToolRuntime

One run: the framework's loop (`RespondCalls`, `RespondReply`,
`RespondMalformed`, `ReachLimit`, `ProviderFails`), the executor for one call
(`ExecuteCall`, with `Replay`, `SemanticReplay`, `Authorize`, `Dispatch`), the
second attempts at a reply (`RepairReply`, `RetryReply`, `RetryImage`) and what the
service makes of a failed run: `FallBack` completes it with the system's words, as
`DesignConversationService.run_turn` does, `Fail` leaves it failed. `origin` says
whose words a completed run ends with. The model is free: any tool, id, arguments,
order and quality of reply. What a check on a reply decides is a choice, what is
done about it is the code's.

### GenerationAttempt

Both routes from the database check to the answer, each try of each statement a
step: `Receive`, `StartAttempt`, `ReadExisting`, `Retrieve`, `CallProvider`,
`RecordMetric`, `PersistImage`, `InsertLog`, `Succeed`, `Cleanup`, `Fail`, and
the legacy route's shorter chain. `Tries` and `Again` are `execute_insert` with
its reconnects: a statement may be lost before it is executed or after it
committed. `Crash` may strike at any point.

### UserActivity, Accounts, OdsSync, EvaluationRun

`UserActivity` is a tab that pages, generates, rates and downloads against the
handlers, which are atomic, and rows written elsewhere (`WriteElsewhere`). A
history is the set of rows shown and their number, repeated ones included: the
latter is the offset of the next page.
`Accounts` has one action per Python statement of a login that touches the
shared dictionary or the file, since logins run on threads (`DumpAccount` writes
one account of the dump). `OdsSync` has one action per statement of `run_sync`
and the two halves of a source write (`StartWrite` takes the stamp,
`CommitWrite` makes it visible). `EvaluationRun` has the commands of an operator
on one folder as scripts of files (`Script`), with a failure or a death between
any two.

### How they are instantiated

`MC*.tla` add symmetry sets and constant values. Definitions marked "Mutant of"
are plausible bugs of the operation they precede; each property of a passing run
has one that breaks it. `*Proofs.tla` hold the theorems and extend the
component; `ProposalReviewProofs` also proves the turns it is composed with,
`ScriptsProofs` the two modules of an operator's scripts (OdsSync,
EvaluationRun), `WorkspaceProofs` the two of the quick workspace (Accounts,
UserActivity). UserActivity and EvaluationRun therefore name their specification
`ActivitySpec` and `EvaluationSpec`. The type invariant of a module (`TypeOK`,
`ActivityTypes`, `EvaluationTypes`) is the first conjunct of its inductive
invariant (section 5).

## 3. Runs

| Run | Instance | Distinct states | Properties |
|---|---|---|---|
| `dialogue_serial` | 1 worker, 3 turns, 4 decisions, revision limit 2, 1 crash, symmetry | 2 924 | `OneImageCall`, `ImageMatchesText`, `NoImageLost`, `NoOrphanedStage` |
| `dialogue_concurrent` | 2 workers, 2 turns, 6 decisions, limit 1, no crash, fair | 442 299 | `ConfirmableContent`, `OneGenerationLog`, `OneCallPerConfirmation`, `StagesEnd` |
| `dialogue_second_image` | 2 workers, 2 turns, 6 decisions, limit 0 | stops at the violation | `OneImageCall` is violated |
| `design_stages` | 6 briefs, 5 corpora, 3 sources, 2 results, limit 1, 5 requests, 2 faults, 1 crash | 1 319 347 | `GroundedCites`, `ErrorHasStep`, `ProviderBudget`, `SettledOnce` |
| `action_races` | 2 workers, 1 task, 2 actions, 1 crash, fair | 692 480 | `OneEffect`, `LinearHistory`, `ClosedTaskKeepsDocuments`, `ImplementsContract`, `ImageActionsSettle` |
| `runtime_turns` | 2 processes, 2 handlers, 2 turns, 1 task, recent 1 to 2, window 2, 1 dialogue message, 1 lost turn, 2 commands, fair | 339 372 | `TurnRecorded`, `OneModelTurn`, `SummaryIsPrefix`, `ExecutedAsShown`, `FrozenWhole`, `RunsEnd` |
| `tool_runtime` | 3 call ids, a tool of each risk and one not allowed, budgets 2 / 2 / 1, 3 requests, batches of 2, symmetry | 8 141 637 | `BudgetsHold`, `NoUnapprovedEffect`, `ImageNotPassedOver` |
| `generation` | 2 requests, 1 key, 2 processes, 2 retries, 3 faults, fair | 783 494 | `OneGenerationPerKey`, `SuccessIsDurable`, `SucceededIsComplete`, `AttemptsEnd` |
| `user_activity` | 1 tab, 2 old rows, 6 rows, page of 2, 6 shown, 1 retry, 1 click, 2 faults, 1 restart | 5 425 760 | `HistoryGapless`, `DownloadsCounted` |
| `accounts` | 2 accounts, 2 logins, 2 file faults, 2 restarts | 102 257 | `CredentialKept`, `FileNotAhead` |
| `ods_sync` | 2 scripts, 2 rows, 2 stamps, 2 batches, 1 crash, symmetry | 1 179 200 | `NothingSkipped`, `SucceededIsClean` |
| `evaluation` | 4 commands, 1 death, 6 judge answers, fair | 1 049 779 | `V2PaidOnce`, `WinnerAgreed`, `FinalSealIsWhole`, `RunSealed` |

**Bounds.** Every hazard here is a race of two actors over one row, a fault
between two steps, or a count at its limit. Two workers, processes, scripts or
logins are enough for the first, since no operation looks at more than one
other. The faults are bounded by counters (`MaxFaults`, `MaxCrashes`, `MaxLost`)
large enough for a fault during the repair of a fault. Counts get limits of 1 or
2 in place of the code's 4 to 12, so that a run reaches them from below and
tries to pass. `dialogue_concurrent` has six decisions because a second image
takes six: brief, text and image, twice. Its revision limit of 1 lets one
revision race with a confirmation and refuses the next. In `tool_runtime` the
forbidden tool and the one not allowed are registered and never offered to the model:
a call of one is a malformed response there, and the policy behind it is proved
(`ApprovalKept`). `design_stages` offers a
corpus that is missing, empty, irrelevant, weak or relevant, and briefs in every
mode, with and without a design. `evaluation` has four commands: a run, a resume,
a finalize and one more of any kind. `user_activity` has room for four rows
written while the user pages: enough for a row that nobody is shown (section 4),
which `HistoryGapless` must leave out. Where a smaller instance could hide a case, the
theorems of section 5 hold for every size.

**Deadlock.** `CHECK_DEADLOCK FALSE` everywhere: no user must send another
request, and in a finite instance the identifiers, commands and budgets are used
up. That a handler is never stuck is what the liveness properties say.

**Fairness.** Weak fairness of the steps of a handler that has begun, and of
nothing else: a coroutine or thread is scheduled again, calls to models,
providers and the database have timeouts, and exceptions are caught or end the
handler. No request, click, crash or fault is fair. `StagesEnd`,
`ImageActionsSettle`, `RunsEnd`, `AttemptsEnd` and `RunSealed` therefore say what
happens unless a crash, loss or fault met the handler, which each names (`RunsEnd`
of the run that was left without a handler only, not of the others). The code
has no recovery for those: the stage, action, run or attempt then stays open.

**Symmetry** is used only in runs without temporal properties, over identifiers
that the specification never compares but for equality.

Every property of a passing run has in `PROJECT.json` a mutant of a modelled
operation that violates it under the same instance.

## 4. Disagreements found

One is kept as a run that must be violated. `dialogue_second_image`: the docstring
of `confirm_image_generation` (DR:483) promises the only image of a session. But
`finish_brief` (DR:244) and `mark_failed` (DR:356) look at no status: a handler
that was overtaken drags the session back, and three more confirmations call the
provider again. Two workers are needed; for one, `OneWorkerPaysOnce` proves that
it cannot happen.

The others showed while the code was translated. The models follow the code, and
properties are stated so that they say what remains true.

Dialogue and stages
- After a failed revision `session.error` stays set through later successes. The
  failure of an image prompt is recorded under one code and answered under
  another (`agent_dialogue_service.py:222`). An image failure is always answered
  as retryable, also when the session records that it is not.
- The final result shown as grounded shows no citations: its response reads a
  field that `final_payload` never writes.
- A lost acknowledgement makes `finish_brief` or the first `finish_product_text`
  fail a result that is stored, and answers a conflict for a completed session.
- A provider image that was paid and cannot be fetched or stored is lost: `persist`
  raises after the provider has returned (`agent_image_generation.py:39`), and the
  handler records the failure without an address (`agent_dialogue_service.py:293`,
  `:316`). `PersistImage` has this branch; `NoImageLost` therefore speaks of images
  whose file is stored, as the docstring of `record_image_persistence_failure` does
  ("Keep a locally persisted artifact discoverable"). An error of a helper step
  leaves the stage in progress with its step running.
- The confirmed `understanding` is never compared with `normalized_brief`, which
  is what is generated and paid.

Actions and proposals
- `actions/executor.py:63` marks an image failed that the provider returned and
  that could only not be persisted; the README (lines 132 and 135) calls the
  transition a confirmed failure.
- `save_brief` and `save_design_text` proposed as a business action are always
  denied: their kind is overwritten with the action's name. No attachment can
  back a design text, and the panel never offers to save a brief.
- Any other action whose snapshot has no content is approved and then refused by
  the executor for ever.
- A card whose scope got a new message can no longer be confirmed.

Runtime
- The process that read less may store its summary last (R:42): the active one
  then ends earlier, which the validator means to exclude. Nothing is lost, as
  `SummaryIsPrefix` says, and with one process it cannot happen
  (`OneProcessAdvances`).
- At most 10 recent messages are sent and compression starts above 12
  (`context/models.py:29`): with 11 or 12 short ones the oldest reach the model
  in no form.
- The docstring of `_retry_final_response` says that it "remains within the Runtime
  budget": after malformed output `max_model_requests` may be passed by one
  (`BudgetsHold` bounds it there), and that retry returns before the guard for
  explicit images.
- A run that cannot be repaired, or that reaches its request limit after a tool was
  refused for its budget, is completed with a general answer of the system
  (`design_conversation/service.py:44`), also when the user asked for an image.
  `ImageNotPassedOver` names both ways past the guard and excludes any other.
- An id answered by a semantic replay is not recorded; `validate_design_constraints` is excluded from
  every turn; the thread of a tool that timed out runs on.

Generation, history, export
- A lost acknowledgement duplicates a log row, or leaves a key IN_PROGRESS; a
  retried metric meets its UNIQUE key after a paid call; `None` after a committed
  INSERT deletes the image of a row that stays. A failed key never runs again,
  and the page sends the same key until its brief is edited, so the advice to
  submit a new request is refused.
- The quick workspace rates by a name its rows do not have (`api.py:888` adds the
  type); the UPDATE answers success and its `log_id` is ignored.
- The Hive fallback of the history ignores the offset; concurrent rows show
  twice; a page of malformed rows makes paging stick. When more rows are written
  between two pages than a page holds, some of them are on neither: they show
  after a refresh only. `HistoryGapless` therefore speaks of the rows that were
  there when the first page was read, and of those none is passed over.
- At the schema's head revision the export always refuses
  (`mysql_to_hive_ods.py:217`), and one row without origin fails every batch.

Accounts and the rest
- Two logins at once: the right password may be refused, an older dump may
  replace a newer file, and a failed write answers 500 and leaves memory and file
  apart. `/api/register` answers 422 to every request (`auth.py:34`).
- Text skill generation stops at its evidence check, which requires "grounded"
  where the frozen evidence says "matched" (`round17c_business.py:119`).
- Dashboards show failed queries as empty results with 200, where
  `docs/v0.1.0-phase1-security.md:38` says 503.
- Evaluation: the built-in path of a fresh run fails at extraction, after it has
  paid; a resume that failed or died pays again; a stale judge file of an earlier
  resume is accepted; a later resume overwrites the file behind an existing
  report; "verified" integrity is never verified.

## 5. Proofs

Constants are arbitrary sets and numbers under the assumption named in each
module, which TLC evaluates in the runs. No proved module uses a recursive
operator. Each proof follows one pattern: an inductive invariant `IInv`, an
`Init` lemma, a `Next` lemma with a step for each action, and theorems read off
`IInv`.

- **DialogueSessionProofs.** To `NoOrphanedStage`, `ConfirmableContent` and
  `OneGenerationLog`, `IInv` adds `JobInv` (argument and draft of a handler at
  each place) and `ClaimInv` (a confirmation is in one handler's hands or spent).
  Without them a handler could stand at the provider with a decision it never
  claimed. For `Workers = {p}` `SerialInv` adds what the session looks like while
  the only handler is at a given place; `OneImageCall`, `ImageMatchesText` and
  `NoImageLost` follow, which two workers violate or may violate. For the last it has
  that a handler about to log an image holds one whose file is stored.
- **ActionLifecycleProofs.** `IInv` ties the place of a handler to the status of
  its action and the effects so far (`JobInv`, `ActionInv`, `RunningInv`), and says
  that version numbers are contiguous and tasks in use are open. `HistoryInv` adds
  parents and the one confirmed version, `ExpectedInv` that the version a handler
  expects is one its task has had: hence `LinearHistory` and, as an action property,
  `ClosedTaskKeepsDocuments`. `Implements` is the refinement: initial states map to
  initial states of `ApprovedEffect`, each action to one of its actions or a stutter,
  with the invariant for the reachable states.
- **DesignStageProofs.** To `GroundedCites`, `ErrorHasStep` and `ProviderBudget`,
  `IInv` adds where a handler can be for its stage (`PlaceInv`), which content each
  status has and what it was made from (`StatusInv`, `ContentInv`), what the output
  in the handler's hands was made from (`OutInv`), the calls paid at each place of
  an image (`CallInv`) and that the newest step is the one the request works on
  (`StepInv`). A draft cites by the evidence of its brief, so none may exist while the
  brief can still change: `ContentInv` has that. `SettledOnce`, an action property,
  follows from `StepInv`.
- **ProposalReviewProofs**, turns. `IInv` adds `TurnInv` (a running turn has one
  handler and one model call) and `ReadInv` (what a handler has read stays true,
  because the log only grows and summaries are prefixes of it). With one process what
  it read is also current (`LoopInv`, `FreshInv`): `SummaryGrows`.
- **ProposalReviewProofs**, proposals. `Composition`: the composed specification
  implies the one of turns, so that every theorem above holds of it. `ReviewInv`: a
  run that ended keeps its output and proposes one command; a turn has one row; a
  request in progress holds the proposal its row was frozen with; what a snapshot was
  taken from. It rests on `TurnRecorded` (the question of the turn is in the log) and
  on a counting lemma about the newest rows (`NewestRows`).
- **GenerationAttemptProofs.** `KeyInv` (only the holder of an attempt row gets to
  the provider), `MetricInv` (metrics a handler's place implies), `ResultInv` (what a
  success leads to).
- **ToolRuntimeProofs.** `BudgetsHold` ties the counters to the cardinality of the
  charged part of the ledger, so that a replay cannot charge; `LedgerInv` says that
  every ok, also one replayed, goes back to a call that ran, `RunInv` when a run ends
  or waits, `CountInv` where the adapter's count of requests is exact and where it
  may lag, `Trusted` that only tools free of approval were executed. `EndStep` covers
  every end but approval: failure, fallback and reply.
- **ScriptsProofs**, export. All rows up to the end of a succeeded batch are copied
  (`Covered`), not only those of its own range: a batch is known to be complete only
  with the succeeded one it starts from (`ScriptInv`). That there is a newest one to
  start from (`LargestOf`) is by well-founded induction.
- **ScriptsProofs**, evaluation. What a seal certifies depends on what the command
  that wrote it did before, so `FolderInv` follows the running command file by file
  (`ProgressInv`), keeps a record and its report as they were written (`RecordInv`),
  has the mark of the second attempt before its payment (`AttemptInv`) and the folder
  of a blocked run unpaid (`BlockedInv`).
- **WorkspaceProofs**, accounts. The memory only moves forward, every dump in progress
  is a copy of an earlier memory (`DumpCopies`), and a hash is stored before the plain
  password is dropped (`HashedFirst`).
- **WorkspaceProofs**, user activity. `HistoryGapless` says nothing of what the next
  page skips. `Paged` does: a history has all visible rows from some row `lo` on, and
  `lo` plus the number of rows shown is at most the number of rows plus one, so that a
  page at that offset begins at `lo - 1` or above (`PageExtends`, with the arithmetic
  in `PageBounds`). It must hold of every answer still to be shown too (`LoadInv`), and
  rows written since only weaken the second part (`RowsGrow`). `DownloadsCounted`
  counts the marks not yet served with the downloads (`MarkInv`).

Every safety invariant and every action property that a run checks is stated by a
theorem. Three of them, `OneImageCall`, `ImageMatchesText` and `NoImageLost`, are
proved, as they are checked, for one worker. Only model-checked is liveness
(`StagesEnd`, `ImageActionsSettle`, `RunsEnd`, `AttemptsEnd`, `RunSealed`): it needs
ENABLED, which is out of the prover's reach. Rankings and verdicts that the code
computes by recursion over data are given as constants or free choices, so no theorem
is about them.

## 6. Not modelled, and what is left

- **Row locks.** `execute_approved_action` locks action, session, task; the other
  handlers of AR session, task, action: a cycle is possible, and InnoDB rolls one
  back. The models have the victim's view, a transaction that fails; who waits for
  whom would be a module of its own (`ActionLocks`).
- **The payload of a turn.** Which rows reach the model, as operators against
  "every row is sent or condensed"; token estimates and the facts inside a summary.
- **Ranking and text.** BM25 scores, tokens, prompts, templates and lengths: given
  as data or as a free verdict.
- **Routing of skills**, whose failure falls back to a default, and the single tools'
  answers.
- **Text skill generation** after its evidence check, and
  `scripts/spark_etl.py` after `main` raises: unreachable.
- **Users, media, dashboard, health, the other evaluation runners, synthetic data**:
  single queries or stateless scripts.
- **Web client**: rendering, and the parts of `App.vue` other than paging, rating and
  the generation key.

Next proofs: what liveness rests on and is not itself temporal, that every place a
handler can stop at has an enabled step (the guards of a stage's steps cover its
`JobInv` or `PlaceInv`); and lemmas that give the free choices of one module from
another (`ReplyContract` for the replies `ToolRuntime` delivers).
