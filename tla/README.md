# Radar de Vagas in TLA+

A verification development of the Radar: what its processes do to the one
SQLite file they share, as TLA+ modules checked by TLC on small instances and,
but for liveness, proved with TLAPS for every instance. Paths below are relative
to the repository root (`src/db/x.ts` is the server's code, `scripts/ops/` its
command lines).

## 1. The system

### Processes

| process | how it reaches the data | atomic unit |
| --- | --- | --- |
| dashboard server (`src/server.ts`) | opens the file | a handler, from the end of the body's parse to the response: `node:sqlite` is synchronous, so two handlers never interleave unless they `await` |
| MCP server (`src/mcp-server.ts`), executor (`scripts/ops/apply-authorized.mjs`), Telegram bridge (`notify-` and `answer-human-questions.mjs`), Hermes agents | HTTP, to the dashboard server | a request |
| `automation.mjs`, `expire-jobs.mjs`, `collect-connectors.mjs`, backup, restore, anonymize | open the file themselves | a transaction: `tx` is `BEGIN IMMEDIATE` (`src/db/connection.ts`) |
| the server's timer (`runExpiration`, every 15 minutes) | inside the server | a handler |

Two kinds of interleaving follow, and the models keep both: handlers against
handlers only at their boundaries (and at their `await`s), and the other
processes between the *reads* a handler makes before its transaction and the
transaction itself. `server.ts:128-158` lists the routes only a human may call.

### Components

State, operations, hard behaviour, and what makes each one correct.

* **Job workflow rules** (`src/workflow.ts`, `src/db/job-workflow.ts`). State:
  `jobs.status`. Operations: a table of commands (from, to, facts required),
  `transitionJob`, the forward walk `advanceJobTo` that other operations use,
  `abortApplyingJob`. Hard: the same column is moved by the endpoint, by walks,
  by aborts and by expiration. Correct: no sequence of them shows a job as
  applied whose application was not sent.
* **Automatic application** (`src/db/authorizations.ts`). State:
  `application_authorizations` (issued, claimed, consumed, revoked, expired;
  TTL, lease, claimer) and the application's three "granted" columns.
  Operations: authorize (AUTORIZO), revoke, claim, heartbeat, submit, fail,
  sweep of expired rows, recovery of stuck jobs, withdrawal. Hard: executors
  that die, late heartbeats, revocation against claim, a grant whose resume or
  URL changed, expiration by another process between reads and transaction.
  Correct: one live grant per application, the one it points at; what is
  submitted is what was granted; a submission is final; reservations end.
* **Final confirmation, kill-switch, daily limit** (`src/db/applications.ts`,
  `settings.ts`, `scripts/ops/automation.mjs`). State: capture, confirmation,
  token hash of the row; `automation.enabled`; `automation.daily_limit`.
  Operations: request, ENVIAR, cancel, poll (mints the token once), pause,
  resume, change the limit. Hard: a new capture after a confirmation, the
  switch flicked between any two steps and from another process, two executors
  at the day's last submission. Correct: no token outlives its capture or a
  pause; the limit in force is never passed.
* **Application store** (`application-store.ts`): creation, the manual flow,
  the PATCHes of the status. Correct: never leaves an authorization behind.
* **Human questions** (`questions.ts`): pending, delivered, failed, answered,
  cancelled; four effects of an answer (continue, manual, stop, free text).
  Hard: answers that come late, from either channel, to one of several
  questions. Correct: whatever an answer ends, it ends whole.
* **Jobs** (`jobs.ts`, `expire-jobs.mjs`, `deadline.ts`): decision, edition,
  expiration (in the server and by cron), closing by a source, archive,
  restore. Hard: the cron's reads are old when it writes. Correct: a sent
  application keeps its job "applied"; an archived job has no live grant.
* **Preferences and feedback** (`preferences.ts`, `jobs.ts`, the panel's
  notices). State: the decision of a card, `job_feedback_events`,
  `preference_rules`, `preference_values`, `preference_signal_events`, the
  columns that hide a card. Operations: interest, no time, rejection in part or
  whole, undo, pause and reactivate a rule, show a card again. Hard: undos in
  another order than the decisions, of cards edited meanwhile. Correct: what is
  learned is what the decisions that stand say; nothing is hidden by a rule
  that ended; a notice takes back its own decision.
* **Resumes** (`resumes.ts`, `resume-facts.ts`, `fact-check.ts`,
  `resume-parse-check.ts`): drafts, superseded drafts, edits with a version,
  approval behind an asynchronous parse check. Hard: the `await` between the
  request and `approveResume`. Correct: no text is approved or passes its
  review with a claim nobody confirmed; a job keeps an approved resume at the
  stages that need one.
* **Agents** (`agents.ts`, `agent-configs.ts`, `agent-jobs.ts`): versions
  (draft, proposal, published, rollback); runs with a concurrency limit and a
  timeout. Correct: one published version, whose instructions a
  person wrote or was shown; a pause holds; a late answer never succeeds.
* **Search rounds and ingestion** (`ingestion.ts`, `sources.ts`): rounds,
  per-source status, batches with checkpoints, possible duplicates. Hard:
  retried, repeated and late batches, ends decided by two processes. Correct:
  counters and checkpoints agree; a round ends when its sources have; a posting
  is on one card.
* **Field evidence** (`agent-jobs.ts`): which evidence a field shows; human
  values are protected; conflicts wait for a human.
* **Profiles** (`profiles.ts`, `base-resumes.ts`, `profile-import.ts`): base
  resumes, drafts, extraction of a PDF with an `await`, confirmation with a
  snapshot. Correct: a confirmed version stays as confirmed, and what it gained
  is not lost by confirming an older draft.
* **Connectors** (`src/connectors/`): a pool of fetches under a budget and a
  deadline, whose results are ingested.
* **Liveness checks** (`src/liveness/`): what a portal's answer says of a
  vacancy, and what it writes when it comes late. Correct: a closed vacancy is
  not reopened by an older answer.
* **Scores, blockers and coverage** (`match-scores.ts`, `domain.ts`,
  `blockers.ts`, `coverage.ts`). State: `match_scores`, the board's
  `match_score`. Hard: answers about an older version of the profile. Correct:
  versions do not mix; what nobody said counts neither way.
* **Telegram bridge** (`notify-human-questions.mjs`): a lock file, a send, a
  mark, remembered references. Hard: a crash between send and mark.
* **Executor** (`apply-authorized.mjs`): the protocol's client; its token is
  in its own memory or state file.
* **Backup, rotation, restore** (`backup-sqlite.mjs`, `restore-sqlite.mjs`,
  `rotate-backups.mjs`, `src/process-registry.ts`): a process registry with
  heartbeats, a lock, a rename. Hard: a crash at each step.
* **HTTP layer, MCP server, panel, Hermes scripts**: no state of the domain.

`PROJECT.json` says of each component how far it is modelled, and lists the
hazards: what can go wrong in this code at which line, and the property that
would see it.

## 2. The modules

| module | what it is |
| --- | --- |
| `Workflow` | the transition table, the legality of a command under given facts, the forward walk, the abort: pure operators |
| `AutoApply` | the automatic application: state, one action per route, timer, command or environment event |
| `AutoApplySafety` | what it promises of every state and step, and the inductive invariant |
| `AutoApplyLiveness` | fairness and what must happen in the end |
| `SubmissionGate` | the abstract specification: grant, reserve, show, approve, arm, send, hold, void |
| `AutoApplyGate` | the refinement mapping from the rows of `AutoApply` to the gate's stages |
| `Executor` | the executor and its browser, composed with `AutoApply`: the command line, the MCP tools, lost answers, conversations that die |
| `AutoApplyProofs` | the theorems of `AutoApply` and `Executor`: of states, of steps, the refinement among them, of the executors |
| `QuestionBridge` | the notifier, its lock file, the chat and the answers that come back |
| `ResumeApproval` | the resumes of a job, from the draft to APROVO; uses `Workflow` |
| `ProfileDrafts` | the versions of the profile |
| `AgentVersions`, `AgentRuns` | the configurations of the agents; what they report, under those limits |
| `Rounds`, `Collection` | sources and rounds; the collector of the connectors, on top of them |
| `Discovery`, `Liveness`, `Provenance` | which card a posting is about; what a portal's answer says (pure); evidence, conflicts and closings, over both |
| `Feedback` | decisions, what is learned from them, hidden cards, undo |
| `MatchScores` | scores per version of the profile, over what `Feedback` learned; blockers; coverage |
| `QuestionBridgeProofs`, `ResumeApprovalProofs`, `ProfileDraftsProofs`, `AgentRunsProofs`, `FeedbackProofs` | the theorems of these components, the last of `Feedback` and `MatchScores` |
| `RoundsProofs` | the theorems of `Rounds` and `Collection` |
| `ProvenanceProofs` | the theorems of `Provenance`, with what it takes from `Discovery` and `Liveness` |
| `MC...` | the instances: constants, symmetry |

### How `AutoApply` corresponds to the code

* `job`, `resume`, `app`, `auth`, `question` are the tables `jobs`, `resumes`,
  `applications`, `application_authorizations`, `human_questions`, one record
  per row. `enabled` and `dailyLimit` are the two settings. `alive` is the
  environment: the executors that are running. `desk` is the handler of
  AUTORIZO between its reads and its transaction; `cron` the jobs
  `refreshExpiredJobs` has read and not yet expired. (Both are program
  counters with the locals that survive the gap.)
* Application and resume: one of each per job.
* Time: `ttlOver` and `leaseOver` of a row say that `expires_at` and
  `lease_expires_at` have passed; a heartbeat, a poll, a capture, ENVIAR or an
  answer that writes a new lease clears `leaseOver`; nothing clears `ttlOver`.
  `today` says that `consumed_at` is within the day whose submissions count.
* Tokens: `token` is the hash in the row, named by the capture it was minted
  for; `given` the tokens its executor holds in memory, lost in `WorkerCrash`.
* A row that leaves `Live` forgets its other columns: every read of a row tests
  its state first.
* `expireAuthorizations` sweeps one row per transaction and is called by the
  timer and at the head of claim, heartbeat, request, ENVIAR, poll, submit and
  fail. The model's `ExpireDue` and `RecoverStuck` are the sweep; the actions
  of those routes have the guard `Swept`, that is, they run after a sweep has
  left nothing: the sweep and the route are one handler in the code, which is
  one step of each in the model, with the steps of *other processes* between
  them, as the code allows. A row that lapses after the sweep and before the
  route's transaction is refused by `assertCurrentAuthorization`, which is the
  route's guard here (`Current`).
* `AuthorizeRead` / `AuthorizeWrite` / `AuthorizeRefused` are the two halves of
  `authorizeAutoApplication`: job, resume and mode are tested on the reads, the
  kill-switch and the application's status once more in the transaction. Other
  dashboard handlers wait (`Idle`); the cron, the collector and
  `automation.mjs` do not.
* `CronRead` / `CronExpire` are the read and the transactions, one per job, of
  `refreshExpiredJobs` as `expire-jobs.mjs` runs it beside the server; the
  server's own call is the same pair with nothing in between.
* `WriteFromSource` is what a posting does to a card that exists: `upsertJob`
  puts another URL and another opening in it whatever its application is doing,
  and `closeJobFromSource` expires it when it is reported closed.
* `EndExecution`, `WithdrawPending`, `MarkApplied`, `Walk` are the helpers the
  handlers share. A handler is one action with everything it calls.

Operators marked `Mutant:` in their comment stand before the definition they
are a plausible wrong version of. They are not part of the
model: `PROJECT.json` lists which property each of them breaks.

### How the other modules correspond to the code

* `Executor` adds to the handlers of `AutoApply` what the executor remembers:
  the file of the command line, its conversation, the form in its browser.
  Commands (`ByCommand`) and tools (`ByTool`) are separate actions that share
  the handler they reach; a tool reads the published agent first and refuses a
  page outside its domains. An agent clicks only a form whose capture it sent,
  and only after a heartbeat was accepted: those are the steps the command line
  prints. Any answer may be lost after the server did its part (`Hears`). The
  tab of the browser outlives the conversation. There is one conversation per
  worker id. `PanelStep` is the part of `AutoApply` an executor meets: what the
  person does with the application and its address, the settings, AUTORIZO,
  time and the sweep. Questions, the cron, the sources and the other operations
  on the job are left to `one_job` and to the theorems.
* `QuestionBridge`: a message answers by a short code or as a reply; one that
  gives the whole identifier of a question (`answer-human-questions.mjs:225`),
  which no other question shares, and one that comes without an identifier of
  its own, whose repetition nothing recognises, are left out. A run of the
  notifier is a process with a program counter between the file system (lock),
  the chat (send) and the server (mark); the lock has an age. Answered and cancelled questions are "closed".
  The questions are asked in the order of their numbers; the list a run works on
  is any `Listing` the query can return, its order included.
* `ResumeApproval`: an agent's draft counts as the writer's, and has neither
  facts nor a snapshot, which the route does not take (`http-schemas.ts:115`);
  those come with `Generate`. `request` holds the routes that wait for the
  reading test; what the parser makes of a text is chosen anew at each extraction. At most
  one of two texts, with and without the claim, is in the resume at a time.
* `ProfileDrafts`: `needs_review` is `proposed`, `import` is `pdf`. Only the
  answered interviews are kept: a pending one is never read.
* `AgentVersions`: a request is one action, and `cut` says whether a crash comes
  between two of its transactions. `AgentRuns`: the snapshot of the version a
  run started with is `config`; time is `late`.
* `Rounds`: a batch is its list of items, and `next_cursor` a number, or
  `NoCursor` in the last batch; two batches are the same when all of that is. A
  batch is one transaction, a report four statements, between which the other
  process runs (`call`). `Collection` is the other process. Its companies are
  asked page by page, `answered` counts the pages, and the list of their items
  reaches the collector with the last one (`AnswerLast`): one that fails or is
  refused takes the pages before it along.
* `Discovery` and `Provenance`: `writes` is the clock of every timestamp, so the
  timestamps of two requests are never equal. All the addresses of a posting
  are one; its description is long enough to be hashed. `WithClosing` is
  `closeJobFromSource`: the closing joins the evidence and is chosen, before the
  other fields of the same posting are.
* `Feedback`: one panel is open, with one notice; a decision and the reload of
  the panel after it are one step. A rule is named by the
  rejection it was made from. A partial rejection is taken back by its notice,
  which names it, or by a request of the API for any of them.
* `MatchScores`: a score is in hundredths, a learned signal in millionths, a
  part of the coverage in tenths. A version of the profile stands for its
  facts (`FactsOf`). An advert has at most the 40 keywords
  `extractJobKeywords` keeps (`CoverageAssumption`).

### What `AutoApply` leaves out

* Cryptography: HMAC, nonces and hashes are right by assumption. So are the
  ATS allowlist, the observed URL's host and the freshness of the liveness
  proof, which are tests of data at the head of a route.
* The per-ATS limit and the environment's ceiling on the daily limit: both are
  more instances of the comparison `SubmitWithinLimit` is about.
* A second resume of a job, and the PATCH of `resume_id`; `review` of a resume
  counts as not approved. The strong-match fact is FALSE and the draft fact
  TRUE: the jobs of the model have an approved resume.
* Undoing a declared interest (needs a job with no resume), the workflow's human
  assertions (reason, date, note), the optimistic version of a job.
* The reads PATCH, decision, question and creation handlers make before their
  transactions: the other processes change nothing those reads decide on, but
  for the URL, the opening and the decision of a job, which their transactions
  or the sweep look at again.
* A second delivery of a Telegram message that was recorded: no state changes.

## 3. The runs

All instances bound ids (rows and questions that may ever exist), captures,
URLs and versions; once they run out only closing steps remain, so deadlock is
not checked in most. Ids are symmetric where no liveness is checked.

| run | instance | question |
| --- | --- | --- |
| `one_job` | 1 job, 2 rows, 1 question, 1 executor, 2 captures, 2 URLs, 2 versions | ownership (`LiveRowIsCurrent`, `SubmissionIsFinal`); `KillSwitchHolds`, `TokenGate`; `SentStaysApplied`, `AppliedMeansSent`; `Inductive` (of which types, `GrantIsWhole` and `ArchivedHasNoLiveRow` are conjuncts); `SubmitMatchesGrant`, `ReservationEndsRun`; `ImplementsGate`: `AutoApply` implements `SubmissionGate` |
| `liveness` | 1 job, 2 rows, 1 question, limits 0 and 1 | `OrphanIsFreed`, `GrantIsNotForever` |
| `executor` | 1 application, 2 rows, 2 executors (a command line, an MCP client), 1 capture, 2 URLs of which one is allowed, limits 0 and 1 | `OneClickPerEnviar`, `ClearedIsGranted`, `SubmitWithinLimit` |
| `bridge` | 2 questions with the same short code, 2 runs of the notifier, `--limit 1`, 1 message of the person, 1 fault | `SentOnce`, `MessageAnswersItsQuestion`, `PendingIsTried` |
| `resumes` | 2 resumes, 1 claim that must be confirmed, 2 texts, 1 request that waits | `TextIsVouched`, `StageHasApproved`, `FailedCheckStays` |
| `profiles` | 3 versions of 2 facts, 1 type with a single value, 2 values, 1 PDF under extraction | `SnapshotHolds`, `NothingConfirmedIsLost` |
| `agents` | 1 agent, 3 versions, 2 instructions, 2 runs, 1 crash | `InstructionsWereRead`, `PauseHolds`, `ConcurrencyRespected`, `LateNeverSucceeds` |
| `rounds` | 2 sources, 1 round, 3 companies, one of them with 3 pages of which 2 are asked (`PageLimit`), 3 postings, 2 lanes, 2 edits or reports by requests, a death | `TwoGates`, `CountersAgree`, `ClosedWhenDone`, `NothingFetchedIsLost`, `ClosedStaysClosed` |
| `provenance` | 4 postings of 2 sources, 2 forms, agents, a person, a portal that is asked; 4 writes | `OneCardPerPosting`, `HumanValueKept`, `ClosedStaysClosed` |
| `human_card` | a posting without identifier that changes its title; the person edits the company | a counterexample, section 5 |
| `feedback` | 2 vacancies, one of them decided about, 2 reasons, 2 rejections | `LearnedIsBacked`, `HiddenHasReason`, `OfferIsCurrent` |
| `scores` | 1 vacancy with 2 contents, criteria given in part and none at all, 2 versions of the profile, 1 round, 2 scores, 1 partial rejection; 13 adverts and 360 texts | `VersionsDoNotMix`, `UnsaidDoesNotCount` |

Why these bounds are enough for the interesting cases. In `one_job`, two rows
are a grant and its successor (every property of ownership relates an old row
to a new one); two captures are one confirmed and one that replaces it; two
versions and two URLs are the granted and the other. `Inductive` sees an
archived job, or an application that was given up, with a live row left behind,
not every column an interrupted withdrawal could miss. More rows, executors and
jobs are what the theorems of section 6 are for. In `executor` the two
authorizations and the two executors are the holder and the late one. In
`bridge` one fault may be a death, a slow run or a failed request at any point,
and the code the questions share is the worst case of a code. In `resumes` two
resumes are the one taken back and the one that remains. In `profiles` three
versions are the active one and two drafts; every fact of the instance has
evidence, so that the part of `SnapshotHolds` about evidence rests on the
theorem, and the drafts of `NothingConfirmedIsLost` are those opened from the
active version. In `agents` three versions are the
published one, the draft and the copy a rollback makes. In `rounds` a
company of several pages is one that may end between two of them. In `scores`
the band of insufficient data comes from no criterion given; some given and too
few is left to the theorem. In `feedback` two
rejections are enough for a rule to be left when another is undone, and the
second card is the one hidden, edited and seen again. The instance of
`provenance` has no edits of the company: `human_card` shows `HumanValueKept`
broken there, and the run checks it for every other edit.

The type invariants of `resumes`, `rounds`, `provenance`, `agents`, `bridge`,
`feedback`, `scores` and `executor` hold in these instances too; they say
little beside the properties and are not among the runs' properties. `profiles`
has none: the records are built by the constructors its actions share.

`one_job` leaves `discard` and `reopen` out of the commands of the transition
endpoint. With `reopen` among them `SentStaysApplied` fails, in a way that
takes the cron to keep a reading across a discard, a reopen and a submission of
the same job: three human steps within one pass of the cron.

## 4. Fairness

`AutoApplyLiveness` assumes what the code's own machinery gives:

* the clock: a TTL, which nothing renews, runs out (`WF(TtlLapse)`); the lease
  of an executor that is *not running* runs out (`WF(DeadLapse)`), since only
  its heartbeats renew it. Nothing is assumed of a live executor.
* the sweep: strong fairness, because the server's timer and every executor
  route run it again and again, while a handler in the middle of AUTORIZO
  disables it for a moment, over and over.
* a handler that has read goes on to its transaction (`WF(AuthorizeStep)`).

`OrphanIsFreed` has the antecedent `SwitchSettles`: a user who turns the
kill-switch off and on forever renews a paused reservation forever, since
resuming writes a new lease.

`QuestionBridge` assumes that a run of the notifier goes on, that a lock ages,
and that somebody runs the notifier, without `--retry-failed`, again and again:
no cron does (`docs/operations-runbook.md`), it is the operator. Strong
fairness, because a lock that is held disables the step for a while, over and
over. Deaths, slow runs and failed requests are counted (`MaxFaults`), so there
are finitely many; nothing is assumed of the answers. With `--retry-failed` and
nothing else, new questions that fail starve an older pending one, since the
retries share its `--limit`.

## 5. What the documents say and the code does otherwise

One is a run whose counterexample is the behaviour; `PROJECT.json`, under
`findings`, quotes the line.

* `human_card`: after a person corrects the company of a card, the portal's
  next title makes its posting unrecognisable; it counts as new, but its id,
  the hash of the address and the published company, is the edited card's, and
  every field of it is written over (`src/db/ingestion.ts:205`).

The others were met while modelling, are what the models do, and have no run of
their own.

The automatic application:

* `stop` and `manual` revoke the authorization whatever the application's
  status and end the application only if it is in review
  (`src/db/questions.ts:113`, `:118`): after a pause and a resume a late answer
  leaves it in progress with no authorization. `docs/agent-api.md:422` says
  that `stop` ends the execution as `failed`. `ReservationEndsRun` names the
  exception.
* The heartbeat (`src/db/authorizations.ts:326-339`), which its comment calls
  the check "antes do clique final", tests neither the kill-switch nor the
  confirmation nor the day's limit. After the token is delivered a pause still
  lets the executor click; the submission is refused only afterwards.
  `docs/operations-runbook.md:114` says of the pause "Vale na hora".
* The click is made at the portal before the call that records it: a pause, the
  limit or a lost answer in between frees the application for another
  authorization. The code calls it "Resultado desconhecido" and leaves the
  check to the person; `OneClickPerEnviar` states what it does promise.
* A pause in review is undone by an answer; a reserved execution in review can
  be revoked; the cron expires a job claimed after it read; a second question
  is created beside one whose delivery failed; an execution revoked in review
  clears the columns by which the recovery would find it, and its job stays in
  applying; a closing by a source ends an execution the documents say is kept.
* ENVIAR names the application, not the capture the panel showed
  (`src/db/applications.ts:203`).

Resumes and profiles:

* The approval awaits `ensureResumeParseCheck` and approves whatever the resume
  has become (`src/server.ts:550`); a result of the old text is not stored
  (`src/db/resumes.ts:129`). The comment at `src/server.ts:543` says "revisão e
  aprovação garantem um resultado atual". The facts are checked on the text
  that is approved, which is `TextIsVouched`.
* Two drafts may be open at a time, by `POST /api/profiles` or two extractions,
  against "um rascunho por vez" (`src/db/profiles.ts:137`). A review names the
  fact, not the value the person read (`src/db/profiles.ts:117`).

The bridge: "só uma instância lista e envia por vez — sem mensagem duplicada"
(`scripts/ops/notify-human-questions.mjs:19-20`) does not hold when a run
outlives ten minutes, in the race between `stat` and `rm`, after a crash
between send and mark, or for a send that was not confirmed and is retried;
`release()` removes whoever's lock is there. Two questions may share a code of
six characters.

Agents: a run with no agent is adopted by the first report that names one
(`src/db/agents.ts:115`); the difference a person is shown is against the
published snapshot, not the paused live row; proposals posted with the person's
session need no checksum.

The collector: a company of several pages keeps those it has until the last
(`src/connectors/sources.ts:312-325`). When a later one fails, or finds the
budget spent or the deadline passed, the pages already answered are dropped,
and with other companies of the same source that went well the source ends
completed (`src/connectors/runner.ts:145-153`), against "o que já chegou é
ingerido" (`src/connectors/runner.ts:7`). `NothingFetchedIsLost` names these
companies (`CutShort`) as its exception.

Sources and cards: "Manter o valor atual" on an old conflict keeps what the
card showed then (`public/app.ts:1520`); a field the person emptied is filled
by an agent; a portal's answer about an address that was changed meanwhile
counts for the new one; an "open" answer writes the card without evidence.

Feedback:

* `docs/production-sdd-bdd-tdd.md:377` says that at most one signal is kept of a
  vacancy, cycle and facet, and that the last explicit one takes the place of the
  one before. The code counts each of two standing rejections of one facet of one
  vacancy, and keeps what an interest counted for a facet beside a later
  rejection of it; neither begins another cycle. `LearnedIsBacked` is about what
  the code counts: each count is of decisions that are stored and stand.
* `suppressed_count` counts a vacancy again after its rule is paused and
  reactivated, against "Cada regra conta a vaga uma única vez"
  (`src/db/preferences.ts:46-47`).
* A rule made from a vacancy whose seniority, place or work model is "Não
  informado" hides every vacancy that does not inform it.
* A vacancy hidden by a sighting while a panel still shows it can be marked as
  interesting, and stays hidden.
* A rejection overwritten by another decision can no longer be undone, and its
  rule stays in force; undoing a rejection keeps an earlier interest's signal.
* The notice of a whole rejection carries no identifier: with a second panel it
  would take back whatever decision is current. `OfferIsCurrent` is about one.

Scores: `workflowFacts`, `getMatchScore` and `listLatestMatchScores` read the
latest row, even of an old version, while the board shows the active one's;
`docs/production-sdd-bdd-tdd.md:379` says the final score does not alter the
threshold of a strong match, and `workflowFacts` reads it; after a new version
is confirmed the board keeps the old one's score until the vacancy is scored
again; only the MCP tool refuses a score of a closed vacancy; the coverage of a
resume is computed when the resume changes, not when the vacancy does; with no
date in the resume the part of the dates is zero, not unmeasured.

## 6. What is proved

Every theorem is about `Spec` of its component, for every value of the
constants that satisfies the component's named assumptions. They ask for little:
that the sets the database or a process keeps are finite, that the bounds are
natural numbers (or positive, where a zero would leave nothing to say), that
the value standing for "none" is none of the others, that each executor
belongs to an agent and each field has a source, that what a posting asks is
finite, that no card has the identifier standing for none and no opening the
blank value. TLC evaluates them on every run. Four theorems have a hypothesis of
their own, and say why:

* `ConcurrencyHolds` asks that no event of a run names another agent
  (`~Reassigned`); the code lets it, and the limit does not survive it
  (section 5);
* `SentIsApplied` asks that "reopen" is not among the transition commands;
  section 3 has the counterexample;
* `HumanValuesKept` and `ClosingsStay` ask that no step gives a card another
  company (`EmployersAlwaysStay`): the code lets a person and an agent do it,
  and `human_card` is what follows (section 5). Every other edit, of any field,
  is among the steps.

`AutoApplyProofs` proves `TypeCorrect` and `InductiveHolds`, and from the
second `OneGrant`, `FinalSubmission`, `SwitchHoldsRuns`, `TokenIsGated`,
`ArchivedIsInert` and the action property `SubmissionMatches`. The properties
are not inductive on their own, which is what the parts of `Inductive` that are
marked so are for:

* a row that is revoked through its application must be that application's
  (`PointsAtOwnRow`), or the revocation would leave another one live;
* a new AUTORIZO and a manual submission test the application's status, so a
  live row must not belong to a sent application (`LiveRowIsUnsent`);
* a token is minted from the confirmation, so the confirmation must be of the
  capture the row holds (`ConfirmationIsOfCapture`), and a claim takes the row
  as it is, so it must be clean before (`OnlyClaimedIsPaused`);
* AUTORIZO writes what it read before, so nothing may archive the job between
  (`DeskIsNotArchived`): the archive route is the same process's, and waits.

The argument: `KeptStep` says what a step may do to a row (leave it; move a
live one to claimed, revoked or expired; submit it; issue it), to an
application (leave its grant; give it up with all its live rows; be granted the
row just issued) and to a job (be archived only with no live row). It is
stated over the three tables together, because each is wrong without the
others: an application that gives up its grant and keeps a live row is exactly
the hazard. `KeptInductive` shows that such a step keeps the invariant,
`NextKept` that every action is such a step; the lemmas between are the code's
shared helpers.

It proves what is said of the steps of `AutoApply` in four parts:

* `GateIsImplemented`, `Spec => ImplementsGate`: the refinement of
  `SubmissionGate`. A handler writes the rows in one of four ways: one row goes
  one stage on, a set of live rows is closed, the kill-switch moves all reserved
  rows, or the columns written are not those a stage is read from; each is a
  lemma, and then each action one of the four. It needs one more invariant: a
  row that asks for the confirmation has a capture (`RequestHasCapture`), or
  ENVIAR would confirm nothing.
* `LimitHolds`, `Spec => SubmitWithinLimit`, for any number of applications and
  executors. `NoneSpent` (a handler adds no row to those the day counts) and
  `OneSpent` (it writes one, and the count made in that transaction was below
  the limit) cover the ways of writing the table; the theorem adds the
  cardinality of a finite set with one more member. Neither the dry run nor
  what a client remembers of the limit is used.
* `AppliedIsSent` and `SentIsApplied`: the job's status beside its
  application's. A job the workflow shows as applied has a sent application;
  and the other way round, without "reopen". `MarksKept` and `SentIsMarked`
  bring the status of the job into the invariant.
* `ReservationsEndRuns`, `Spec => ReservationEndsRun`: a run that loses its
  reservation is over (`RunsKept`).

And last what is said of the executors (`ExecSpec`). `ExecutorIsAutoApply`,
`ExecSpec => Spec`: the executor, its browser and its lost answers are a case of
`AutoApply`, so every theorem above holds with them, the day's limit among them
(`ExecutorsWithinLimit`). The rest needs an invariant of what the executors
remember (`ClientInvariant`), because nothing in the code compares it with the
rows: a token a conversation holds, or has clicked with, was given for a row and
a capture that mint no other, and no two conversations hold the same one
(`OneClick`, whence `ClicksOnce`); the form in the browser is of the page the
row's capture was made of, whenever the row's executor is the one that holds it
(`Clearing`, whence `ClearsGranted`). An answer that was lost leaves the row
ahead of the conversation, which is why `Clearing` is stated of rows that are
that executor's runs, and only of those. `AllQuiet` is what the steps of the
panel, the timer and the other executors do to a run: go on with it, or end it.

`AgentRunsProofs` is about `AgentRuns` and the `AgentVersions` it extends. Each
request changes the rows of one agent and the set of instructions a person has
read only grows, so the invariant is a conjunction of facts about one agent:
its pointers name versions it has (`Pointers`), the instructions in force were
read or written by a person (`Instructions`), a paused agent is disabled
(`Resting`). `InstructionsRead` and `PausesHold` follow from it; `LateAnswersFail`
is proved of the steps. For `ConcurrencyHolds` the invariant (`RoomInv`) is
stated for every subset of the running executions, because the limit may be
lowered while they run.

`ResumeApprovalProofs` proves `ApprovedIsVouched`, `StagesHaveApproved` and
`FailedChecksStay`. The invariant is one predicate of a row (`Sound`) over the
facts that were ever confirmed, which only grow; each helper of the code keeps
it, and each action writes rows that a helper made.

`ProfileDraftsProofs` proves `SnapshotsHold` and `ConfirmedFactsCarry`. The
invariant says that the numbers in use are the first ones (`InOrder`), that the
facts of a version change only while it is a draft (`Frozen`), and that a draft
opened from the active version keeps what it copied in place until a newer one
is active, which it may then not replace (`Heir`).

`QuestionBridgeProofs` proves `MessagesAnswerTheirQuestion` and
`QuestionsSentOnce`. The chat only grows, so what an identifier stood for when
it was written down, in a question or in a person's answer, it stands for still;
that gives the first. The second is about what three parties know: the lock, the
chat and the mark at the server. While no run lapsed, one run at most works, it
holds the lock, a question in the chat that is still pending is the one it has
just sent, and what it has left to send is not in the chat.

`FeedbackProofs` is about `Feedback` and the `MatchScores` that extends it.
`HiddenForAReason`: what hides a card is rules in force, and a rule is of a total
rejection and ends with it. `OffersAreCurrent`: the decision an undo would find
is the one its notice was raised for, whatever edits and sightings come between.
`LearningIsBacked`: the copies of a facet in a bag are the cardinality of the
interests, or rejections, that have it. `VersionsStayApart`: the scores of a round
are of the version it began with, and the board shows the newest of the active
one.

`TheUnsaidDoesNotCount` is about numbers. A row says the base, the band and the
final score of the criteria it keeps (`SaidInv`), so what remains is that a
weighted mean lies between the least and the greatest, rounding included
(`RoundedWithin`, `RoundedToTenths`), and that the mean of what was learned is a
number, since a posting has finitely many of the values that were counted
(`MatchingAreFew`: a value counted is one that an interest or a rejection in the
tables has, which is `LearningIsBacked` again). The sums are the folds of the
community modules, `CHOOSE`s over functions whose recursive equation has to be
shown to have a solution first (`SumsExist`, by the least number of members
without one); `SumWithout` and `SumBelow` are what the rest uses.

`RoundsProofs` is about `Collection` and the `Rounds` it drives, for any number
of sources, rounds and companies and any limits, and gives its invariant
(`RoundsInvariant`) in four parts, one to each property:

* `GatesHold` (`TwoGates`). Terms that are in force are of the site the source
  has now, so they do not follow it to another one (`TermsAccepted`), and a
  report writes the whole row it read before, so that row must be of its round
  and name the site of then (`ReportsListed`).
* `DoneRoundsClose` (`ClosedWhenDone`). Two processes report, in several
  statements each; `EndInv` says that once every source of a running round has
  ended, one of them is about to judge or to close it, or the collector died. `EndsAreFinal` (`ClosedStaysClosed`) is
  proved of the steps.
* `CountersHold` (`CountersAgree`). Items are counted as pairs of a checkpoint and
  a position in its batch, a finite set (`CountInv`); `OneMoreBatch` is the
  cardinality with one more batch, and a repeated batch adds none.
* `NothingIsLost` (`NothingFetchedIsLost`). `LossInv` says where each vacancy a
  portal returned is at each phase of the collector: in a page of a company
  still being asked, in the list kept for its source, in a chunk still to be
  sent, at the server, or given up with the source; and one without a
  description, to be read, read or queued. It says nothing of the pages of a
  company that a later page cut short, which the code drops (section 5).
  The lemmas under it are of the list itself: what filtering keeps
  (`KeptPlaces`), and that the slices an answer is cut into cover it, the last
  and shorter one included (`ChunkBounds`, `SliceBounds`, `SliceOf`).

`ProvenanceProofs` is about `Provenance` and the cards of `Discovery` under it.
The invariant (`ProvenanceInvariant`) has a part per table, and the last is the
property itself: `PostingsHaveOneCard` (`OneCardPerPosting`). A posting seen
before is recognised by its source's identifier first, whatever became of its
address, title and text, and by the rest only when it has none; so a sighting is
written to the card it was first seen on. Another portal's identifier says
nothing, so the theorem compares the sightings of one. Of what the cards say, `WritersAreKnown`
holds with no hypothesis: a field that says something is written over by a
person, or by a posting that nothing recognises and whose identifier is the
card's, but for a closing, which sources and portals may say. It rests on the
choices among the evidence: what an agent proposes finds at least the evidence
made of what the card already showed, and becomes a conflict. `HumanValuesKept`
and `ClosingsStay` follow once the second of these writers is excluded, which is
what the hypothesis on the company does: the identifier is made of it, so a card
whose company stays is recognised by the posting that has its identifier.
`ClosingsAreChosen` is the other half of `ClosedStaysClosed`, with no hypothesis:
what is reported closed is chosen over all earlier evidence of the opening, also
by a posting that is written as new over a card (`NewCloses`), and the rest of
that posting, which is chosen after it, leaves it so (`RowLeavesClosing`).

Left to TLC, and not proved: liveness under fairness (`OrphanIsFreed`,
`GrantIsNotForever`, `PendingIsTried`), which with `ENABLED` is out of the
prover's reach. Every other property of the passing runs is a theorem.

## 7. Not modelled, and the plan

Not modelled, and why:

* Backup, rotation and restore: a property needs a model of the file system and
  of the processes that hold the file open (a restore that dies between the
  removal of the WAL, the rename and its lock, `restore-sqlite.mjs:245`); the
  scripts are run by a person or a timer and nothing of the domain reads their
  state.
* The workflow's human assertions and bookkeeping columns, the optimistic
  version of a job, `suppressed_count`, the suggestions of rules, the per-ATS
  limit, the refs' cap of 200 entries and the concurrent rewriting of their
  file, the queue of the liveness cron and its limiter.
* Authentication, TLS and rate limits, the rest of the panel, reading MCP tools,
  parsing of portals and PDFs, layout of resumes: no state of the domain, or
  data the models take as given.

What would come next is `JobLifecycle`, the workflow with its human assertions
and bookkeeping, and then the file system under backup and restore.
