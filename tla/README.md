# A verification project for the VC lead research package

This directory holds TLA+ models of the package's own control logic, the TLC
instances that model-check them, and proofs that TLAPS checks.  All paths below
are relative to the repository root; `vcops` stands for
`workspaces/vc-chief/vc/bin/vcops.py`.

## 1. Inventory of the system

The package runs an agent gateway whose only durable effects go through a
command line helper, `vcops`, into PostgreSQL.  Agents never touch the database:
they launch one of eighteen fixed Lobster graphs through `vcrun`, and every step
of a graph is one short `vcops` process and one READ COMMITTED transaction.

| Component | State | Operations | How it interacts |
|---|---|---|---|
| Workflow runs (`migrations/001`, `018`) | `workflow_runs`: status, record_version, attempt, digest, cancellation; `audit_events` | start, replay probe, transition, reconcile failure, cancel, retry | every graph opens and closes one row; the trigger rechecks each update |
| `vcrun` (`vcrun.py`) | a process, its Lobster child, a deadline | run, failure hook, signal handler | probes the key, supervises Lobster, reconciles by key |
| `vcrun-control` (`vcrun_control.py`) | a process | approve, reject, cancel a paused continuation | cancels in Postgres first, then tells Lobster |
| Lobster (external) | continuation files | run, pause, resume, cancel | stops at the first failing step, has no `finally` |
| Evaluation (`evaluate-lead.lobster`, `vcops`) | `compiled_truth`, `evaluations` | compile, save, show | the only graph with an approval pause |
| Memos, contradictions, trajectories | `memos`, `contradictions`, `trajectory_events`, body files | check, record, save, show | lineage triggers of migrations 004, 005; lock of the lead |
| Scoring and pair classification | the rubric file | load, classify, score | pure functions between the tables |
| Facts and evidence | `facts`, `fact_sources`, `sources` | evidence-record, promote | claim hash under a company lock (migration 012) |
| Entity resolution | `companies`, aliases, domains, decisions, `leads` | request claim, resolve and create, create-lead, company-upsert, entity-resolve, memory-lookup | an advisory lock per request and per domain (migration 006) |
| Document intake | `document_extractions`, artifacts, stores, quarantine files | claim, preview, extract, show, associate | content addressed, bound to a request row |
| Preferences and trusted context | principals, observations, markers, preferences, consumed capabilities | observe, forget, lookup | one-use capabilities issued by the gateway extension |
| Approvals and erasure | `approvals`, tombstones | request, decide, consume, erase | decision and consumption in definer functions |
| Source catalogue and surveillance | `sources`, `signal_sources` | add, cite; watch, unwatch, list, scan | evidence raises what an operator set; scans take what is due |
| Notification outbox | `notification_outbox`, `notification_attempts` | enqueue, claim, finish, release, cancel | a database contract that no runtime command calls |
| Proposals, orchestration records | append-only rows | record, decide, show | decided once by an operator |
| Lifecycle scripts (`scripts/*.sh`) | database and state volume, `deployment-lock.json`, lock directories, recovery points | bootstrap, backup, update, restore, rotate, migrate | one lifecycle lock, publish by rename, and a stamp that names a release |
| Validators, release tools, prompts, schemas | files | check | no state that outlives a process |

What is hard: helpers that decide on an unlocked read and write later; keys that
are reused after timeouts, by duplicates and by retries; a runner that dies
between two steps; a checkpoint that stays open while the run moves on; a
cancellation that must stop late results; capabilities and files that are used
twice or change between two reads; limits that cut a document exactly at its
end; and evidence that changes between its freezing and its use.  The `hazards`
of `PROJECT.json` name the lines.

## 2. Plan

Most important behaviour first; a module is proved about after its runs pass.

| | Modules | Status |
|---|---|---|
| 1 | `RunRow`, `RunLifecycle`, `WorkflowRun`, `WorkflowRunProofs` | checked and proved |
| 2 | `EvaluateLead`, `EvaluateLeadProofs` | checked; safety and refinement proved |
| 3 | `EvidenceLedger`, `EvidenceLedgerProofs` | checked and proved |
| 4 | `Intake`, `IntakeProofs` | checked and proved |
| 5 | `Preferences`, `PreferencesProofs` | checked and proved |
| 6 | `Sources`, `SourcesProofs` | checked; safety proved |
| 7 | `Decisions`, `DecisionsProofs` | checked and proved |
| 8 | `DocumentFormats`, `DocumentIntake` | checked; proved in `EvidenceLedgerProofs` |
| 9 | `FactPairs`, `Scoring`, `Verdict` | checked; proved in `DecisionsProofs` |
| 10 | `EntityResolver` | checked; proved in `IntakeProofs` |
| 11 | `Deployment`, `DeploymentProofs` | checked and proved |
| 12 | notification outbox: a contract without a caller | not begun |

Every safety and action property of a passing run is a theorem.  Still worth
stating and proving: `Intake` composed with `EvaluateLead` (the lead that a run
evaluates is the one its request created), and what successive scans of `Sources`
return together.

## 3. The modules and the code they model

A vcops command is one READ COMMITTED transaction.  Where its decision and its
write are made on the same locked rows it is one action; where it waits for a
lock, or reads something without locking it and uses it in a later statement, it
is one action per such statement, and the action that writes is its COMMIT.  A
process that is killed before its COMMIT leaves nothing (`Abort`, `Killed`,
`Die`).

**`RunRow`** is a row of `workflow_runs` as a value: the status graph of vcops
(`RunTransitions`), the one of the trigger (`TriggerEdges`, `TriggerAdmits`, with
the recovery edge of migration 018 for a reopened row), the columns that the
trigger and the definer functions stamp (`Stamped`), the SET list of each
function (`RetrySets` and the others), the rows that it selects (`Reopenable`) and what it
makes of a row (`Transitioned`, `CancelRequested`, `Retried`).  Nullable columns are
the set `filled` of those that are not NULL.

**`RunLifecycle`** is the abstract promise: a status, an attempt and a
cancellation flag that move in atomic steps.  `WorkflowRun` and `EvaluateLead`
both implement it.

**`WorkflowRun`** drives one row by any number of concurrent helpers: `Start`,
`ReplayProbe`, `Retry`, `Transition`, `Reconcile`, `MarkFailed`, `Cancel` are the
`cmd_workflow_*` functions; `pending` holds an unlocked SELECT between read and
write; `audit` the events, each with the status that the row left and the one it got;
`reply` what the caller is told.  `Commit` hands the SET list of every UPDATE to
the trigger, and a row is replaced only if the trigger admits it.

**`EvaluateLead`** puts the processes around the row: `Probe`, `Start`,
`Running` and `Pause` are the graph under `vcrun`, `StepFails`, `Interrupt` and the three
`Hook` actions its failure handling, `Compile`, `Save`, `Succeed`, `Close` the
graph after `Approve` (vcrun-control), `Reject` and `Discard` the two halves of a
rejection.  `EvidenceChanges`, `AskToCancel`, `CancelOutside` and `GiveUp` are
what other commands do to the lead and the run meanwhile.

**`EvidenceLedger`** is the fact table of one company with its approvals:
evidence-record (`RecordBegin` to `RecordCommit`), fact-promote (`PromoteBegin` to
`PromoteCommit`), data-erase-lead (`EraseBegin` to `EraseCommit`) and
compiled-truth (`CompileBegin` to `CompileCommit`).  The locks are not variables:
`LeadLocked`, `LeadShared`, `FactLocked`, `FactShared`, `ApprovalLocked`,
`Recording` and `Compiling` say who holds which lock from where each transaction
stands.

**`Intake`** is the head shared by outbound-scout, inbound-text-intake and
inbound-intake: `Claim` (workflow-request-claim), `ResolveBegin`, `ResolveLock`,
`ResolveNames`, `ResolveCommit` (company-resolve-create), `CreateLead`, `Start`,
beside `CompanyUpsert`.  `Outcome` is what `decide_entity_resolution` makes of
the rows that the modelled commands can write.

**`EntityResolver`** is the same decision over every kind of row, those included
that only a reviewer adds: entity-resolve and memory-lookup read one database
and write nothing, so they are operators on it (`Exact`, `Fuzzy`, `Denied`,
`DecideResolution`, `Answer`, `MemoryLookup`).  Only rows that the trigram search
returns are normalized and compared (`Bucket`): which those are, after the filter,
the order and the limit, is the table `near`, and how similar a name then is the
table `alike`.  `plain` says that an alias is stored as it is normalized.  `Intake`
instantiates this module and asks it about every database of an instance.

**`Preferences`**: `Begin` verifies and consumes the capability, upserts the row of
the principal (whose lock is kept) and reads; `Commit` writes; `Lookup` is
preference-lookup.  `Verified` and `Permitted` are what a token and its
arguments must satisfy, `Consumable` when a nonce may be presented again,
`Cutoff` and `Evidence` which observations still count.  A request may be
executed any number of times.

**`Sources`**: `BeginAdd` and `CommitAdd` are source-add, `CiteSource` the upsert
that evidence-record makes of a cited source, `BeginWatch`, `CommitWatch` and
`Unwatch` the registrations of both lanes, `BeginScan` and `CommitScan` the
worklist.  Time appears as what is compared: `due`, `fresh` and `ahead`, the pairs
of rows of which one comes before the other.

**`Decisions`**: `CheckPair` is contradiction-check or trajectory-check, `Compile`
compiled-truth, `BeginEvaluate` and `CommitEvaluate` evaluation-save,
`ShownEvaluation` what evaluation-show names, `Invoke`, `BeginMemo`,
`PublishBody`, `InsertMemo`, `Replay` and `Refuse` memo-save of a run that may be
executed again, `Review` the trigger's status changes.

**`FactPairs`**, **`Scoring`** and **`Verdict`** are what these helpers compute.
`FactPairs` reads claims and periods and classifies a pair; `Scoring` loads a
rubric and calculates a score, with the conditions of the table as `Storable`;
`Verdict` puts them between the tables: `Record`, `Promote`, `Retract`,
`CheckContradiction`, `CheckTrajectory`, `ReviewFindings`, `FreezeTruth` and
`Evaluate`.

**`DocumentFormats`** is the acceptance and the extraction of PDF, PPTX, XLSX and
CSV with every limit (`Accepted`, `Extract`); a text is its number of
characters, and `Parsed` is what the libraries return.  **`DocumentIntake`** moves such documents: `Preview` and
`PreviewHash`, `Claim`, `ExtractParse`, `ExtractHash`, `Publish` and `Persist`
(one step per read of the file and per write outside the database),
`QuarantineCopy`, `QuarantineMark`, `Show`, `Bind` and `Associate`; `Replace`
changes a file between any two of them.

**`Absence`** declares `None`, a NULL or an absent row.  `Decisions` and `Verdict`
share it, as `EvidenceLedger` and `DocumentIntake` do, and have no other name in
common, so that one proof module extends both of a pair.

**`Deployment`** runs the scripts over one deployment, from the directories of
several releases.  `Start` is the lifecycle lock with the guards that each script
evaluates before it stops anything (`LedgerAccounted`, `LockIsExact`,
`Restorable`); `StopConsumers` to `Publish` are backup.sh, which update.sh runs
with the consumers left stopped; `DropDatabase` to `VerifyRestored` restore.sh;
`EnterRotation` to `CheckDatabase` rotate_runtime_role.sh with migrate.sh and the
state initializer, which bootstrap, update and rotation share; `RecordLock` is
record_images.py.  Before any step a script can fail, which runs its `cleanup`
(`Fail`: who stops, who brings back), or be killed, which leaves its lock
directories (`Kill`, `ClearLock`).  The consumers write files and artifact rows
meanwhile (`SnapshotFile`, `InsertArtifact`).  Three things are the operator's
and not the scripts': a restore that stopped half way is repaired by a restore, a
plain backup is run from the directory of the release that runs, and no CLI turn is
started behind the last reading of the consumers.

The type invariant of a module is the first conjunct of its first invariant
where a run does not name it, or a theorem.  Definitions marked as mutants change one
definition the way a plausible bug would; each property is known to fail under
one of them.

## 4. The runs

| Run | Question | Instance |
|---|---|---|
| `workflow_run` | Do concurrent helpers with stale revisions lose an update, leave a terminal status, forget a cancellation, or open a second attempt of one failure? Do they implement `RunLifecycle`? | 2 helpers, 2 digests, 6 versions |
| `evaluate_lead` | Can a run succeed without the approval of its own attempt, be evaluated on findings that changed, be rejected before it is cancelled, or be stranded silently? Does every launched process end? | 2 invocations, 6 versions, 2 changes of evidence |
| `evidence_ledger` | Is a fact superseded once, a claim recorded in one live row, a promotion corroborated, a snapshot never torn by an erasure? | 2 helpers, 3 facts, 3 sources of which one is excluded |
| `governed_erasure` | Is a token spent once and on its lead, an erasure complete, and does every transaction end although two commands lock in opposite orders? | 2 helpers, 2 leads, 2 facts |
| `intake` | Do runs and leads follow the decision and the claim of their request through kills, retries and reused keys? Are the advisory locks enough? Does a resolver ever name a company against a row it may not show, or create one beside a row that it compared? | 2 invocations, 5 argument sets, 2 companies with similar names; databases of 2 companies, with names that the trigram search returns and names that it does not, ceilings 0 to 2 |
| `preferences` | Does an inference rest on evidence after the last forget, a capability serve one operation, and a repetition add nothing? | 2 helpers, 1 principal, 2 keys, 17 requests of which 8 must be refused |
| `document_intake` | Are extractions of the claimed bytes, channel bytes shown only under their capability, and a document cut only with a mark? | 2 helpers, 2 paths, 2 contents, one request of each lane, one binding; all small documents around small limits |
| `sources` | Does a level fall only deliberately, does a model lane ever loosen an entry, does a scan own what it returns, and is everything due claimed in the end? | 2 helpers, 1 source, 3 additions, 3 citations; 2 sites, 6 invocations, one site per scan |
| `decisions` | Does a memo rest on the final evaluation, is a finding recorded meanwhile seen, does a memo that is shown have its body, is a repeated save refused only for a reason? | 2 helpers, 2 memo runs, 2 contents; 2 findings, 2 snapshots, 2 evaluations |
| `verdict` | Is high_priority earned by checked facts without an open blocker, every verdict one that the table accepts, a contradiction about a common day? | 3 facts of one metric, 2 findings, callers that claim any flag; all pairs of the more than 200 sample facts |
| `deployment` | Does every published recovery point restore with the release it names, does a gateway that runs have its own schema, volume and files, and does a failed backup leave the service as it found it, whatever fails or is killed before? | 3 releases with 1, 3 and 3 migrations, 1 artifact, 2 recovery points |
| one violation | see section 7 | |

**Bounds and why they are enough.**  Six versions of a run admit a first attempt
that fails, its retry, and a cancellation or a late write of each helper, and for
`EvaluateLead` the approval of the checkpoint of either attempt.  Two processes
are enough for every race of these commands, because each of them compares its
own read with what one other transaction did; the proofs remove the bound where
there is one.  Two digests tell equal from different arguments.  Three facts hold
a claim, its promotion and a concurrent recording (`Room` keeps an identity for
every open transaction, so that a lack of identities never looks like a refusal);
three sources reach the threshold of two independent contents with one that must
not count.  The five argument sets of `Intake` contain each way in which the
identities of claims (workflow and key), leads (key alone), provider events and
companies (domain) can disagree.  Three inferred observations are the threshold of
an inference, and the seventeen requests contain each of them, a repetition under
a rebuilt prompt, both kinds of forget and every reason of a refusal.  Two
snapshots and two evaluations let one be superseded while a memo rests on it.
Three releases hold an update with
migrations and one without, and two recovery points the one of a first attempt
beside the one of its retry; killed between any two of three migrations, a schema
can lie between two releases.  The document limits are scaled to 1 to 6, and the enumerated documents end below,
at and above each of those that cut an extraction.  The sample facts have every
missing, equal, inverted, touching and disjoint period, and values on both sides
of the one percent tolerance.

Three properties are about operators that have no state: `NothingLostSilently`,
`PeriodsDecide` and `ResolverIsAdmissible` are asked in the initial state, over all
inputs of the instance.

**Fairness.**  `EvaluateLead!FairSpec` assumes that a launched or resumed process
takes its next step: every step of a graph has a `timeout_ms`, a helper started by
`vcrun` is killed after 30 s, and `vcrun` itself has a deadline.  Nothing is
assumed of the steward or the operator.  `EvidenceLedger!FairSpec` assumes that
PostgreSQL executes the next statement of an open transaction or ends its wait:
`lock_timeout` is ten seconds for the runtime role (`migrations/000_roles.sh:83`).
The mutant `WaitForever` shows that without that bound two commands would wait
for each other.  `Sources!Spec` assumes that transactions end, that the scheduler
keeps scanning, and that not every one of its scans dies before its COMMIT (strong
fairness of `CommitScan`); nothing is assumed of the other callers.  Deadlock
checking is off where the system may come to rest: `EvaluateLead` when every
invocation is over, `EvidenceLedger` when no identity of a fact is left, `Sources`
when every invocation was made and nothing is due, `Decisions` when its tables are
at their bounds and its runs saved.

## 5. What is proved

Every theorem is for all values of the constants that the module declares, so for
any number of helpers, keys, rows and invocations.

**`WorkflowRunProofs`.**  The invariant of interest, `BookkeepingMatchesStatus`, is
inductive only together with the types, and the refusals of the trigger can be
bounded only if an unlocked read is still true while the version is unchanged; so
`IInv` is `TypeOK`, `BookkeepingMatchesStatus` and `SnapshotStillTrue`.  The
argument separates what a step does to the row (`RowStep`: transition,
cancellation, retry, opening), to the helpers (`PendingStep`) and to the log; each
action is shown to be one of these, and each kind of step to preserve each part.
From `IInv` follow the audit and reply invariants (`NoUpdateIsLost`,
`AttemptsAreRetries`, `RetriesAreClean`, `PayloadsAreBound`, `TriggerNeverSurprises`; for
`RetriesAreClean` with `TrailInv`, by which the last event of the log left the row in
the status that it has, so that a retry follows the failure it reopens), the action
properties (`TerminalRunsStay`, `CancellationsStick`) and, by mapping every row
step to an abstract step or a stutter, `HelpersImplementLifecycle`.

**`EvaluateLeadProofs`**, under `BoundsAssumption`.  Every change of the row
raises its version, so what an invocation read or was shown still holds while the
version it carries is the row's (`Carried`).  A succeeded run keeps the invocation
that completed it (`Completed`), every evaluation has the findings of its snapshot
(`Saved`), and a live run that nobody asked to cancel always has an invocation
that answers for it (`Owner`): the process that loses a race hands the run to the
one that won it, which is why nothing is stranded silently.  Each action is
classified by what it does to the row (`RowChange`), and each of those is a step
of `RunLifecycle` or a stutter: `RunnersImplementLifecycle`.

**`EvidenceLedgerProofs`**, under `LedgerAssumption` (the sources are finite,
`None` is none of the others, the classifications are about sources, and the
threshold is positive).  None of the safety properties is inductive: a
transaction writes what an earlier statement allowed.  `IInv` therefore adds, for
each place where a transaction may stand, what it read and still may rely on
because of the lock it holds: `ClaimHeld` (a promotion's claim is live and
corroborated), `LeadHeld` (an erasure has seen every live fact), `GrantHeld` (its
token is still approved), `RecordHeld` (no live row of the claim appeared) and
`SnapshotHeld`.  Every action is an addition, an attachment of a source, a retraction or
quiet; a lemma for each kind shows what it keeps for the transaction that steps
and for the others, whose locks exclude the kinds that could disturb them.

Its second part is `DocumentIntake`, under `ContentsAssumption` and
`InvocationsAssumption`.  What a helper carries from one read of a file to the
next (`proc[c].sha`) is tied to the claim, the snapshot and the output that it
passed, whatever the file is by then; an artifact never changes its
classification, so bytes shown without a capability were never a channel's.

The last part is `DocumentFormats`, under `LimitAssumption` and
`DocumentsAssumption`: for every document and every limit, an extraction without a
mark is the whole document.  The parsers are folds, that is recursions over the
indices of a sequence.  No induction theorem can be applied to them here, so the
recursion is solved by hand: a set of numbers has a least one (`LeastNumber`), by
which the sets of at most `n` indices get their values one size after the other
(`FoldGrows`, `FoldsExist`), and an invariant of a step holds of the result
(`FoldInvariant`).  The invariants are `TableRead` (after `k` rows or sheets
either something is marked or the first `k` are there) and `PagesRead` (an
extraction that ended early is marked unless it ended with the last page), with
`CellsRead` and `RowsRead` for the loops inside a sheet.

**`IntakeProofs`**, under `IntakeAssumption` and `RowsAreNotNone`.  No table loses
what it has (`Grows`), so what an invocation carries from one helper to the next
is still in the table when it is used (`ClaimHeld`, `CompanyHeld`, `LeadHeld`);
what a resolution read under its two locks is true when it writes (`TurnHeld`,
`DomainHeld`, `Exclusive`); and invocations of one request that found a lead found
the same one (`Agreement`).  Hence workflow-start never refuses what the earlier
steps let through, records follow decisions, and only company-upsert, which takes
neither lock, can make a resolution collide.  The last part is the resolver, under
`ResolverAssumption`: whatever the tables contain, an answer shows nothing above
the ceiling of its caller, a company that is found is the only one that any row
ties to the identity, and one that may be created shares its domain with none, its
name with none as it is stored, and its normalized name with none that the trigram
search returned.  No search skips a row that ties a company to the identity
(`SearchesMissNothing`), and a match above the ceiling denies the answer.

**`PreferencesProofs`**, under `RequestsAssumption`.  A transaction holds the row
of its principal from its first statement, so what it read is so when it commits
(`ReadHeld`); a capability belongs to one principal, so nobody consumes it
meanwhile (`CapabilityHeld`); what a request left when it took effect is never
deleted (`EffectsStay`), so its repetition adds nothing; and an inferred
preference keeps its evidence after the last forget (`EvidenceKept`).  That the
last forget exists is carried inductively (`HasLast`).

**`DecisionsProofs`**, under `DecisionsAssumption`.  The lock of the lead leaves
one transaction open at a time (`OneOpen`), so what it read is so when it writes
(`Held`); rows refer to earlier ones and a memo says what its run was given
(`Linked`), so that a repetition finds its own memo.

Its last part is `Verdict`, under `VerdictAssumption`.  `PeriodsAlwaysDecide` is
arithmetic on the ends of two periods.  `HighPriorityIsAlwaysEarned` needs that
both checks of the snapshot are gates of the rubric: the flags that the helper
derives then overrule those that a caller claims.  `EveryVerdictIsAlwaysStored` is
about the reviewed rubric, as shipped: the sums of points and of adjustments are
recursions over sets, shown to be numbers by the least set on which they would not
be, and the score stays between the ends that the table accepts.

**`SourcesProofs`**, under `InvocationsAssumption`.  A transaction that found its
row holds its lock until it writes (`Exclusive`), so the comparison it made is
true then (`Adding`, `Watching`).  What a scan claimed cannot be taken from it: what
makes a row claimable changes under its lock or for the better (`Claims`), and the
worklist stays a strict order with the rows never scanned in front (`Ordered`).

**`DeploymentProofs`**, under `ReleasesAreNumbered` and `LevelsGrow` (a later
release has at least the migrations of an earlier one).  The scripts hold one
lock, so the argument follows one script from step to step: what its guards
proved of the ledger stays true because only its own migrations move the schema
(`Staging`), what it captured stays true because the consumers are down and no
turn is left, a backup that found a gateway can bring it back (`Serving`), a restore
drops production only for a point that it can load (`Restoring`), and the gateway
starts over its own schema and volume (`Reconciling`).  Between scripts the volume
is never ahead of the schema and has the file of every row, unless a restore
stopped half way (`Sound`).

**Only model-checked**: liveness (`EvaluateLead`, `EvidenceLedger` and `Sources`
under their fairness), which is out of the prover's reach with ENABLED, and the
findings of section 7.  What a recursive definition computes is proved only where
an invariant of its step says it (the folds above); the exact scores are left to
TLC.

## 6. What is not modelled, and why

- **Notification outbox**: no runtime command calls its functions
  (`docs/DATA_MODEL.md`), so there is no program whose steps could be ordered.
- **Proposals and orchestration records**: append-only inserts, and one UPDATE
  guarded by the status it changes.
- **Validators, release tools, prompts, schemas**: no state outlives a process.

Within the modelled components:

- A COMMIT that reaches PostgreSQL after its helper was killed appears as a step
  that commits and a caller that does not learn of it, not as a third state.
- `EvaluateLead`: two simultaneous resumes of one approval id (Lobster's own
  lock), evaluations of other runs of the lead, `flow_revision`, heartbeats.  The
  failure hook reconciles by key (`vcrun.py:745`): the run it marks failed may be
  another runner's, which the model shows and no document forbids.
- `EvidenceLedger`: the confidence floor, contradictions inside a packet,
  confidentiality ceilings, evidence roles other than supporting, and the approval
  statuses that no command sets (revoked, expired); a second helper that presents
  an approval waits for its row and is refused, which is one step here.  Facts
  can be recorded on an archived lead, since nothing checks its status
  (vcops.py:3836); the erasure properties are about the facts of its own time.
- `Intake`: external identifiers and further aliases, which no command writes;
  a company-upsert without `--domain` (vcops.py:6156), which only adds a row that no
  domain finds (`EntityResolver` has companies without one); the confidentiality of
  identity rows, always internal here; the 15 minutes after
  which a decision expires, which no command reads.  The domain lock does not
  cover names (vcops.py:2544): two requests with one name and different domains
  can both create a company, which is what the resolver would decide one after
  the other for a name that is not reliable.
- `EntityResolver`: trigrams are not computed; `near` is any set of rows, so every
  outcome of the filter (0.18) and of its limit (vcops.py:2569-2594) is among the
  databases.  The columns of a company that are only shown are left out.
- `Preferences`: the gateway extension that signs tokens, which is not Python and
  runs elsewhere; a token is what can be said of it at verification.
- `DocumentIntake`: pypdf, zipfile, openpyxl and csv are the structure a document
  is given as; the reasons of a rejection; a slide whose relationships name two
  pages of notes, which the file format excludes and `Parsed` with it.
- `Sources`: a scan that dies after its COMMIT and before its caller read the
  answer loses a cycle (vcops.py:4117, 4130); the site is due again after its
  cadence, and `DueIsClaimed` is about the claim, not about the answer.
- `Verdict`: texts are compared as words; dates are naturals.  Of the statuses that
  fact-add accepts (vcops.py:6276) a fact is asserted as submitted_claim,
  verified_fact or contradicted, here and in `EvidenceLedger`.  A fact asserted as
  derived_inference, stale, unknown or retracted (and the role missing_context of some)
  is never current and never expected in a pair.
- `Deployment`: secrets and role restrictions, the image digests in a lock, the
  inbox and the quarantine beside the state volume, and the bytes of an archive.  A
  cleanup that itself fails (`|| true`) is a kill that releases the locks, and is not
  among the behaviours; nor is a gateway that stops by itself.
- Timestamps are never compared in the modelled code except expiries, which are
  the nondeterministic action `Lapse`, the forget markers (`Forgets`) and the
  cadence (`BecomesDue`).

## 7. Where documents and code disagree

One is a run that TLC ends with a counterexample: in `erased_still_current` a
snapshot compiled after an erasure freezes the retracted fact as current
(`docs/WORKFLOWS.md:377`).

The others were met while the code was translated and are behaviours of the
models above; no run is spent on them.

- A second checkpoint of the same key can be approved after the run succeeded, and
  persists another evaluation, although `docs/WORKFLOWS.md:518` excludes it.  It is
  `CompletedNeverReexecuted` of `EvaluateLead`; TLC refutes it when it is added to
  the properties of `MCEvaluateLead.cfg`.
- A failed update is caught by the migrations it applied (`backup.sh:227`,
  `record_images.py:404`), so one between two releases with the same migrations is
  not: after it advanced the state volume a retry stamps the older release on a
  volume that this release refuses.  `RecoveryPointsRestore` excepts exactly this.
- A plain backup compares the lock of its directory with the ledger and not with
  the gateway that runs, and resumes the gateway of its own directory: after a
  return to an earlier release by a restore, one that is run from the directory of
  the later release starts the later gateway over the earlier state volume, and
  `db-check` does not notice.  TLC shows it when `gateway \in {None, here}` is taken
  out of `Backup`.
- Nothing on disk records that a restore stopped half way.  A backup that is started
  before the restore is repeated is not always refused, and publishes a database
  and files of different times; TLC shows it when `partial` is taken out of `Start`.
- A terminal cancellation of a run that was already asked to cancel cooperatively
  is refused, so the rejection of its checkpoint cannot be completed as
  `taskflow.md:111-112` requires.
- A source can be attached to a superseded predecessor (`docs/WORKFLOWS.md:369`).
- A payload that create-lead rejects has already created a company
  (`docs/WORKFLOWS.md:511`), and an unchanged retry can be refused by create-lead
  (`docs/WORKFLOWS.md:505`).
- Two first registrations of a source at once: the second one lowers the level
  without `--allow-downgrade`, since there was no row to compare with
  (vcops.py:2992).
- An explicit observation made before a forget reactivates the preference when
  its run is retried after it (`docs/WORKFLOWS.md:275-277`,
  `docs/DATA_MODEL.md:318-320`; vcops.py:5266).
- High findings do not hold back high_priority (`contradiction_policy.md:27`;
  vcops.py:4231, 4645), and the thresholds of the rubric can be edited
  (`scoring-rubric.md:3-5`) only within the CHECKs of migration 007.
- compiled-truth expects a trajectory check of textual dated pairs that
  trajectory-check refuses as not numeric, so high_priority is out of reach for
  a lead with such a pair; and repeated trajectory adjustments are bounded one by
  one, not in total (`docs/DATA_MODEL.md:198`).
- The docstring of source-scan says that an operator's scan recovers a lost
  cycle, but both lanes use the same test of what is due.
- A cell of more than 100 000 characters is cut without the truncation mark
  (`document-extraction/SKILL.md:18`), and a quarantine copy can be without its
  marker, or marked by another helper (vcops.py:1502).
- contradiction-check and trajectory-check insert again when their run is retried;
  a memo that was reviewed refuses the retry of its run, and a memo with the same
  content for a newer snapshot is refused although the index would allow it.
- A company whose name is stored in full-width letters equals the name that is asked
  for only after NFKC and shares no trigram with it, so it is not compared at all
  (vcops.py:2573-2580) and `company_creation` answers `new_allowed`, although the comment
  above calls the filter recall-oriented and Unicode variation is a required
  negative case (`01_PRECOMMITTED_EVALS.md:106`).  The test of the method
  (`test_helper_cli_database.py:655`) has a name that does share trigrams.  Nor does an
  alias deny that equals the name only after normalization and lies above the ceiling: it
  is passed over (vcops.py:2597).  `Admissible` excepts exactly these rows.
- A company that company-upsert made under a name that is an alias of another one
  is hidden by that alias ("collision-free exact match", `memory_lookup.md:31-34`).
