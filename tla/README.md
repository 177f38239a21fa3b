# Verification of the Frontier SDK

TLA+ models of the parts of this repository that decide whether an AI worker's
proposal may change the world, and what can be believed afterwards: the governed
effect path of `@frontier-infra/harness-kit` and the loop that drives it, its JSONL
event store, the runtime-health verdict of `@frontier-infra/protocol` and its Python
twin, the ports of `@frontier-infra/adapters`, and the signed evidence of
`@frontier-infra/audit`. The models are checked with TLC on small instances; the
safety properties of all of them are also proved with TLAPS for every value of the
constants.

## 1. Inventory

Paths are below `src/packages/typescript/` unless they start otherwise.

| Component | State | Operations | Interacts with | What makes it correct |
|---|---|---|---|---|
| **HarnessEngine** `harness-kit/src/index.mjs` 951-1674 | none of its own but the verifier registry, the adapters and the clock; everything else is the fold of the event log (`emptyState`, `reduceEvent`): contracts, proposals, verifications, capabilities, reservations, `active_effects`, effects, health issues, halt, override, dial | `proposeContract`, `ratifyContract`, `recordProposalVerification` (async), `issueCapability`, `executeCapability` (async), `halt`, `override`, `clearOverride`, `setOperatorDial`, `runtimeHealth` | appends to the event store, awaits verifier ports and executors, asks the verdict before it issues or reserves | a capability is spent once; its chain of authority is unbroken; commits only of performed effects and only in time; a refusal closes the gate; every lease ends |
| **runOnce** 1680-1813 | attempts per proposal, quarantine, deferred proposals (in the log) | one pass of the worker loop, several awaits | the engine's operations, the worker | a failure is final; attempts overrun only by the passes that overlap; results are true; repetition ends |
| **JsonlEventStore** 713-837 | the log file, the lock file, an in-memory copy | `append` under a sibling lock file; stale-lock recovery | other processes through the two files | one hash-linked log; damage is contained; appends end |
| **MemoryEventStore** 451-547, semantic replay 582-711 | events, idempotency keys, external input sequence | `append`, `list`, `state` | the base of the JSONL store | duplicates and reordered input become events and change nothing; only legal events are accepted |
| **VerifierRegistry** 839-870 | verifiers by id, active or not | `register`, `canRatify` | the engine | independence of the ratifier |
| **Runtime-health verdict** `protocol/src/index.mjs` | none (pure) | `evaluateRuntimeHealth` | every gate | fails closed; precedence; freshness window |
| **Python twin** `src/packages/python/frontier-protocol` | none (pure) | `evaluate_runtime_health` | Python hosts | same verdict as the JavaScript one |
| **Adapters** `adapters/src/index.mjs` | none; external Postgres, Redis, S3, model providers | workers, `runWithTimeout`, gated connectors, state/queue/evidence ports | executors of the engine, external services | one effect per call; true answers; saves told apart by version; one winner per key; no item lost |
| **Application template** `create-frontier-app` | one engine per server process | `GET status`, `POST run-once` | calls `runOnce` per request, unserialised | overlapping requests do no harm |
| **Audit** `audit/src/index.mjs` | files in one output directory, the bundled kit and its lock | `runAudit`, `verifyAudit` | the audited Git tree, the snapshot sync, the AAR tool, whatever `kit` Python finds first | a PASS is earned; stale files do not pass; a packet is of one moment |
| **Snapshot sync** `src/scripts/sync-audit-snapshots.mjs` | the bundled kit, its lock file | write, `--check` | every later audit | an unfinished sync is noticed |
| **governance-react, CLIs, other scripts, conformance, docs** | rendered reports | rendering, packaging | - | out of scope: text |

What is hard here: operations that read state, await a verifier or an executor,
and write afterwards; leases that end while their executor runs; a process that
stops between reservation and commit; overlapping passes of one loop, which read
attempts and quarantine before their awaits and count after them; appends that fail
before or after their line was written; several processes on one lock file; health issues
that accumulate; a verdict with two computations (aggregate and per layer) in two
languages; requests that time out and are carried out later; evidence written as a
handful of files, by runs that may stop between any two.
`PROJECT.json` lists the hazards at their lines.

## 2. Modules

| Module | Models |
|---|---|
| `RuntimeHealth`, `PythonRuntimeHealth` | the verdict, as operators, from each of its two sources. `MCRuntimeHealth`: documents as they grow, age and break, given to both |
| `HarnessEngine` | the engine, one action per handler (EXTENDS `RuntimeHealth`, whose `CanMutate` is the gate) |
| `OneTimeCapability` | abstract: what the engine promises about each capability |
| `GovernedEffects` | abstract: what the engine and the loop promise about effects and time: no effect begins when the gate is closed, the key is done or the budget is full (one more may begin beside leases whose completion could not be written); it commits within its lease; a lease ends by itself |
| `HarnessEngineProofs`, `HarnessEngineSteps`, `HarnessEngineRefines` | the theorems about `HarnessEngine` |
| `MCHarnessEngine` | its instances, the liveness property, and the claims the code does not keep |
| `RunOnce` | overlapping passes of `runOnce`, entry by entry and await by await. `MCRunOnce`: its instance |
| `AdapterPorts` | every port of the adapters as calls with a caller's and a provider's side. `MCAdapterPorts`: its instance |
| `PortCall` | abstract: what the caller of a port may rely on |
| `Audit` | `runAudit` file by file, `verifyAudit` read by read, the sync, edits. `MCAudit`: its instance |
| `EventLog` | the JSONL store at the granularity of system calls |
| `AppendOnlyLog` | abstract: one linked log that grows until a line is torn |
| `MCEventLog` | its instances and the timing under which the lock excludes |
| `RuntimeHealthProofs`, `RunOnceProofs`, `AdapterPortsProofs`, `AuditProofs`, `EventLogProofs` | the theorems about each |

Definitions called `Bug_...` are mutants, kept to show that each property can
fail; nothing of the model uses them.

### HarnessEngine and the code

The variables are `reduceEvent`'s state restricted to what decisions read, and
an action is a whole handler: the reaping of expired reservations that issue,
execute, complete, fail and `runtimeHealth` start with is part of it (`Reap`,
`ReapedRes`, `ReapedCap`, `ReapedActive`). JavaScript runs a handler without
interruption up to its `await`, so only two operations are split:
`recordProposalVerification` (`VerifyCall`, then `VerdictRefused` or
`VerdictPassed`) and `executeCapability` (`ExecuteCapability`, then `Commit`,
`CommitUnwritten`, `CompleteTooLate`, `ExecutorThrows` or `StoreUnavailable`). `verifying` keeps
what the first holds across its await, `running` the second's open calls.
`ExecutorActs` is the external effect, at any moment of the call. `Crash`
forgets the calls and keeps the log. The operations come in any order, from any
number of callers.

The variables are the fold of the durable log, while decisions are taken on the
store's memory. The two differ in one way the model keeps. `append` reloads the log,
pushes the event to memory and then writes the line (829-833). When the line of a
completion cannot be written, `#failCapabilityReservation` finds the reservation
completed in memory and returns without an append (1603): the caller is told
`ambiguous`, and the log has the lease active. That is `CommitUnwritten`, and
`unlogged` names the reservation until some append, or a restart, reloads the log
(`Appends`, `Reload`). Meanwhile memory does not find that lease overdue (`Over`), shows
its slot free (`InUse`) and its key committed (`KeyDone`). So one more effect may
begin beside the budget; the append that reserves it reloads the log, and from then on
both count. `Lost` is the set of such leases.

Abstractions:

- A proposal is its content hash; scopes, effects and allow-lists are the
  constants `Covers`, `Allowlist`, `Trusts`. Forged or mismatched capabilities
  are one action, `ExecuteForged`.
- The clock stands still inside one synchronous handler, so a completion that
  passes the reaping cannot find its lease over in the next line (1570-1573).
- Every health issue is a failed critical check with a reason that closes the
  gate, and none is ever removed: one boolean, `issues`, stands for the list.
  Quarantine only comes with an issue.
- `consumed_capabilities` and `reserved_by` decide nothing that the capability's
  and the reservation's own state does not decide, and are left out. Authority is
  the minimum of four numbers and the code asks for 1: booleans.
- An append that wrote its line and then failed is `Commit(r, "ambiguous")`. An append
  other than a completion's that cannot write its line throws out of its operation;
  what it leaves in memory until the next reload is not modelled.
- A gated operation reaps twice (its own and `runtimeHealth`'s, before it reads the
  gate); the two are taken together.
- One process per log.

`Promise` maps each capability to its fate in `OneTimeCapability` (issued, leased,
committed, failed). `Governed` maps the engine to `GovernedEffects`: the holders of
leases are the reservations, `work` is the operation key of a call in flight, and a
lease counts only until it is over (`EndOf`), although the code drops it with the next
operation that reaps. That difference, and the slot a lost lease lets in beside the
budget, is what the refinement is about.

Bounds: `Capabilities`, `Reservations`, `Calls` (pools of ids), `MaxTime`.

### RunOnce and the code

JavaScript runs one pass at a time from one await to the next, so `turn` is the pass
that has the thread. The loop's own steps (`OutOfTime`, `Defer`, `Escalate`,
`InQuarantine`, `OutOfAttempts`, `NoAdapter`, `Verify`, `VerifyRefused`, `Finish`)
run only in that turn; the answers of worker, verifier and executor come when no
pass has it. `pass[c]` holds the locals of one call: when it started, its worklist,
its results, and the answer an entry waits to report. The engine's operations are
those of `HarnessEngine` reduced to what the loop reads: one contract, one lease per
pass, the expiry of a content's verdict, the one boolean `issues`. The state kept in
the log survives `Crash`, the passes do not. What becomes of the completion and
failure lines of a call is `Receipts`: none, written, or not written, when the lease
stays. The decisions of a pass come after an append of its own, which reloads the log;
a call answered although an append failed may also end its pass (`Abandon`), since the
loop's own append then fails as well.

What is worth knowing of the loop, and is in the model:

- The wall budget is looked at before each entry, never during one.
- The concurrency budget counts entries of the worklist, not executors: with a
  budget of one the second entry is deferred in every pass.
- An executor that returns after its lease is answered `rejected`, which is no
  attempt; a failure the process does not live to record is none either. So
  `attempts_per_proposal` does not bound how often a proposal is tried. What does is
  that a verdict, once recorded, is never renewed: `RepetitionEnds`.
- `attempts` is read before the awaits and counted after: overlapping passes do
  exceed the budget, by at most one per other pass (`AttemptOverrun`).
- Counting an attempt records a health issue, which closes the gate for good. So no
  executor starts after the first counted failure, of whatever proposal
  (`FailureIsFinal`): an `attempts_per_proposal` above one (the default is two) never
  yields a second attempt, except of executors that had started before the first failed.

`Governed` maps the loop to `GovernedEffects` as well: the holders are the passes. Both
programs keep the one abstract promise, the loop with the engine's operations in
their reduced form.

### AdapterPorts and the code

Each element of `Calls` is one method call. Its request is sent (`Invoke`) or refused
before it is (`RefusedUnsent`); the provider carries it out at any later moment, once or
never; the caller hears the reply (`Resolve`) or an error (`Reject`). `runWithTimeout`
awaits its work whatever the signal says, so `Timeout` and `Abort` change only the
signal, and a call may wait for ever. A lost request stays `"sent"`. SQL statements and
Redis scripts are atomic steps of the store, with the guards they contain. One row, one
object, a few queues and keys; `expired` remembers which keys' TTL ever ended.
A repeated call is another element of `Calls`.

### Audit and the code

Every file `runAudit` writes is a step, and `Stop` may follow any of them (a crash, a
child process that fails, a refusal of `aarRecord`). Two runs, a verification, a sync
and edits of the audited tree interleave without restriction; nothing in the code
locks anything. `calm` remembers whether any two ever overlapped. Without the calm,
two runs in one directory can pair the evidence of one with the signature of the
other, `aar.mjs sign` signs a record another run has put there, and a packet may name
a tree or a lock other than those scored; what remains is the first conjunct of
`PassIsEarned`. With it, reruns and runs that stopped anywhere are harmless. One thing
the calm does not help with: the scoring is `python3 -m kit` (183-187) in the caller's
working directory, which Python searches before `PYTHONPATH`, the snapshot. A run
started where a `kit` of its own lies (option `cwd`) gets its score from that one, or,
when that one writes nothing and exits 0, from whatever kit-score.json was there; when
it fails, `kit_json_adapter.py` scores with the snapshot after all. `PacketIsOneMoment`
promises tree and kit only of runs started elsewhere. So the discipline the code needs
of its users is: one writer per output directory, no sync, edit or verification during
a run, and no `kit` in the directory it is started in, the audited tree included. A packet is named by its run (its audit id),
a hash stands for what was hashed, all runs sign for one DID, and the Git binding is
one reading of the tree.

### EventLog and the code

`pc[p]` is the place of process p in `append`; each action is one system call
with the code around it: `openSync(wx)` (`OpenLock`), the owner record
(`WriteOwner`, or `OwnerNotWritten`), reading and judging a lock
(`Judge`, `Stale`), its removal (`TakeOver`), the deadline (`TimeOut`, `Sleep`),
load and validation under the lock (`Load`), the line (`AppendLine`, `Refuse`,
`WriteFails`) and the unlink in `finally` (`Unlock`). `LockAges` lets a lock pass
`lockStaleMs`; `Crash` ends a process anywhere, perhaps in the middle of its line.
A line keeps its id, its number and the id its `previous_hash` names. A process
id is not reused; a restarted process is another element of `Processes`. Bounds:
`MaxAppends`, `MaxWaits` (sleeps within `lockTimeoutMs`).

## 3. Runs

| Run | Shows | Bounds |
|---|---|---|
| `RuntimeHealth` | `FailClosed`: the gate opens exactly on the documents the rule describes. `AggregateMatchesLayers`: aggregate and layer results agree. `TwinsAgree`: JavaScript and Python give the same status, exit code and layer results but on three kinds of documents. `MoreChecksNeverHelp`: further checks never improve the verdict | four base checks and two more, in two layers (one more when the document's own fields are wrong), five reason codes (one per bucket and none), ages around the window; texts and timestamps wrong to one program, to both or to none, a time that is two ages apart |
| `HarnessEngine` | `NoFalseCommit`, `CommittedInTime`, `KeyCommittedOnce`; `OneTimeCapabilities` and `EffectsGoverned`, the refinements | budget 1, two proposals with a key each, so that two capabilities and two reservations are of one operation key or of two; time 0..3 with leases of 1 and capabilities of 2 |
| `Contracts` | `AuthorityChain`, `StartedUnderRatified`; `RefusalIsFinal` across override, rejection and refusals; `LeasesEnd`: a lease and its slot come back, unless memory shows the lease completed (no poll then finds it; the next append does) | two contracts, the second ends earlier; registry and operator free to change; `LiveSpec`, time 0..2 |
| `Concurrent` | `ActiveCountExact` (the budget holds but for one effect beside a lost lease), `CapabilitySpentOnce` when leases overlap; `RepeatsOverlap`: a key committed twice was committed side by side; `VerifiedAgainstLiveState` with two contents under one proposal id | budget 2, three capabilities and reservations over the operation keys of two contents, time 0..2, symmetry over the two proposals |
| `RunOnce` | `AttemptOverrun`, `ResultsTruthful`, `RepetitionEnds`, `FailureIsFinal`; `PassesGoverned`, the refinement | two passes, worklists of two and three entries over one contested proposal id, one attempt, time 0..3; the operator moves at time 0 |
| `AdapterPorts` | `VersionsTellSaves`, `OneWinner`, `QueueBalance`; `HonestAnswers`, the refinement of `PortCall` | three calls of one port, two queues, one key |
| `Audit` | `PassIsEarned`, `StalePassIsVisible`, `PacketIsOneMoment` | two runs with six kinds of options, two releases of the kit (a file kept, changed, gone, new), one edit; sync and edit in the pauses of runs |
| `EventLog` | `LinesExtendTheLog`, `DamageIsContained`, `AppendsEnd`, and `AppendProgress`, the steps it rests on | two processes, two appends each, one sleep |
| `OneLog` | `SingleHolder`, and `OneLog`, the refinement of `AppendOnlyLog` | the same, under `TimelySpec` |
| `LateSuccess`, `Budget`, `LockRace` | the findings of section 5 | the smallest that show them |

The bounds are the smallest that let the interesting cases meet: two
capabilities with one key, two reservations of one capability (one after the
other or, with a budget of two, at once), a lease shorter than its capability
shorter than its contract, a contract superseded between issue and reserve, an
append after the append that broke the chain; a pass beyond its look at the
quarantine when another quarantines; a save, its retry and an upsert; a run after a
run that stopped; a completion that is not written and a second effect while memory is
ahead of the log. Each passing run ends within four minutes. `HarnessEngine`, `Contracts` and
`Concurrent` differ because the cross product is out of reach: the second
contract, the second proposal and a changing registry each multiply the states.
`QuietSpec`, `FullVerdictSpec` and `RejectionSpec` restrict the environment (registry,
operator, the trust of a verdict; in `Concurrent` also which refusals are met: only the
rejection of a contract, what the other refusals do is in the other two runs) and nothing
of the engine; so do `MCSpec` of `RunOnce` (the operator's
moment), of `AdapterPorts` (calls of different ports share nothing, so one behaviour
uses one port) and of `Audit` (everything the calm is needed for is about runs and
verifications overlapping, or about a sync that stopped before). The theorems of
section 4 are about `Spec`, without these restrictions. No run has a deadlock check: pools of ids
run out and the system may stop. Symmetry is used on interchangeable model
values only and never with liveness.

Fairness. `LiveSpec` assumes that time passes and that some operation that reaps
keeps being called (a status poll: the template's client loads the status on
mount and on refresh, any issue or execute does as well); nothing is assumed of
executors, verifiers or the operator. `RunOnce` and `AdapterPorts` have no liveness:
a worker, an executor or a provider may never answer, and nothing in the code gives
up on them (a timeout is only a signal). `EventLog` assumes that a live process
continues its append, which is one synchronous call; a process may crash at any
moment, a crashed lock need never age.

`TimelySpec` is the timing under which the lock file excludes: a contender that
was told `EEXIST` reads a live lock only when it is written and not yet released,
and unlinks what it judged stale before anyone else moves. Without it
`SingleHolder` fails (`LockRace`), and `EventLog` shows what remains true then:
each line was chained to the log its process had read, no answered line is
lost, and behind the last good line each process adds at most one.

## 4. Proofs

All theorems are about `Spec` (two of the event store's about `TimelySpec`) and hold
for every value of the constants under the named assumptions of the module they are
about, which are typings, positive budgets and times, and `None` (in `Audit` also two more names) distinct from the data. TLC
evaluates them in each run. In `AdapterPorts`, `RequestAssumption` says that `None` is no
request record; in `Audit`, `GeneratedAssumption` types the releases,
`KitsAssumption` and `PacketAssumption` say that `None` is no kit and no packet.

**HarnessEngine.** The inductive invariant is `Inv == TypeOK /\ CapabilitySpentOnce /\
CallsOpen /\ ActiveCountExact /\ Authority`. Hardly any of its parts is inductive alone:

- `CapabilitySpentOnce` (a reservation and its capability share one fate, and a
  capability has one reservation) is what makes a live lease imply an unspent
  capability, so that reaping, commit and failure each touch exactly one pair.
- `CallsOpen` is what the calls in flight know: theirs is a reservation that is active
  or failed and has no answer yet, and what memory is ahead of the log by is a lost lease.
- `ActiveCountExact` needs both: the floor at 0 is never used because each
  decrement belongs to one active reservation (`ReapCounts`); the budget comes
  from the gate (`OpenGate`: an open gate means no halt, no override, no issue, a
  free slot, an independently ratified current contract). The free slot is one of memory
  (`InUse`), whence the one effect beside the budget while a lost lease is active.
- `Authority` adds to `AuthorityChain` that a ratifier is the nominated one, and
  that the contract of a capability is ratified *or an issue is recorded*
  (`RatifiedOrFlagged`). That is why the reserve step may look at the current
  contract alone: a rejection of any contract closes the gate (`StartsUnderRatified`).

`HarnessEngineProofs` proves the invariants, `HarnessEngineSteps` the action
properties and `NoFalseCommitEver`: no answer contradicts the log, and an `ambiguous` one
with a lease still active is that of an effect that was performed. `KeysCommitOnce` assumes `Concurrency = 1`,
the default: with a budget of two, two capabilities of one key can both be
leased and the second commit replaces the first result. `RepeatsOverlapAlways` says
what remains under every budget: the effects that commit a key were under way side by
side, each leased before the other's lease was over, and are no more than the budget.
Its invariant speaks of the reservations that have committed a key *or still may*
(`Under`): once the key is committed their number is bounded (`RepeatsBounded`), their
leases overlap pairwise (`RepeatsBeside`), and none is ever added, because the
reserve step finds the committed key (`CommitsKnown`).

`HarnessEngineRefines` proves two refinements. `KeepsPromise`: every step of the engine
is a step of `OneTimeCapability` or a stutter. `KeepsEffectsGoverned`: every step is one
of `GovernedEffects` or a stutter. There a lease is gone the moment it is over; in the
code an overdue reservation stays active until some operation reaps it. The proof shows
that nobody can tell: reaping is a stutter (`EndOf` of an overdue reservation is 0
already), the reaped count is the number of leases that hold (`ReapCounts`,
`GovernedCounts`), and the lease check of a completion is the abstract one. Lost leases
map to `lost` there (`LostMap`, `LostStays`): memory shows a slot that the log has not
only while one of them holds, and without one the budget is the budget (`NothingLost`).

**Runtime health.** A document says of each text and timestamp which program finds it
wrong, and of each check an age for each program; `Read` is what a program makes of a
check (`ReadIsTyped`). The only thing that needs induction is the type of a document
(`Typed`); `FailClosed`, `AggregateMatchesLayers` and `TwinsAgree` then hold of every
typed document, each lifted from a fact about one check (`HarmlessCheck`; for the twins
`SameFailing` and `SameStructure`) to the lists of the document. Nothing is assumed
about which texts and timestamps the two libraries accept. `MoreChecksNeverHelp` goes by
the monotony of those lists.

**RunOnce.** `TypeOK` says where each pass stands in its list; a step replaces one pass
(`PassStep`). `FailureIsFinal` needs `Closed`: whatever was counted as an attempt or
quarantined has recorded an issue, and an issue closes the gate that every start asks. `AttemptOverrun` is the
interesting one: attempts alone are not inductive, but *attempts plus the passes under
way with that proposal* (`Overrun`) stays below the bound, since a pass takes up an
entry only while attempts are left and leaves when it counts. `ResultsTruthful` is
carried by `Reported` (the answer an entry waits to report is true already, and nothing
it rests on is ever taken back). `RepetitionEnds` is immediate from the steps.
`LoopKeepsGoverned` shows that the passes implement `GovernedEffects`, with
`LeasesAccounted`: as long as no issue is recorded, a lease that holds is that of a pass at
its executor's await, of one whose failure could not be recorded, or of one a crash
ended, never of a pass that could start another effect under it.

**AdapterPorts.** `Bookkeeping` says how the two sides of one call fit together. Versions
rest on the row's version never being below any version a save left, and each version
below it on the save that left it; `OneWinner` on
`WinnerKeeps` (a key whose TTL never ended and that was won is still set);
`QueueBalance` on counting with finite sets (`Balance`). `HonestAnswersAlways` shows that
every step of the ports is a step of `PortCall` or a stutter, with
`took <- {c \in Calls : run[c] = "ran" /\ outcome[c] = "ok"}`.

**Audit.** `Ready` (what a run finds when it reaches a step), `Claims` (a receipt claims no
more independence than its run may), `ReadSoFar` (in the calm, what a run has read is
still so), and for stale files `Once` and `StillOwn` (in the calm, the files of a run at
work are still its own).

**EventLog.** Without any assumption on timing, the invariant is `Reading`: a process
about to write has in memory a chained prefix of the log, and no line that came since is
its own. A new line therefore continues a chained prefix (`LinesExtendAlways`), and a
process that adds a line behind the first break had read no further than the break, and
cannot read the log again (`DamageContainedAlways`). `AppendProgressAlways` is the safety
core of `AppendsEnd`: lock files that may still be created (`Openings`) are used up and
never come back, between two of them a file can only be removed, and a process that
does neither goes on towards its deadline or the end of `withLock`. With finitely many
processes and appends that is a well-founded descent; that a live process can always
take its next step, and therefore ends, is the part left to TLC. Under `TimelySpec`, `Held` (who is
past the creation of its lock file owns the one that is there; what is about to be
removed is a dead process's) gives `SingleHolderAlways`; with it `UpToDate` (what the
process at its write has read is the whole log) is inductive, and every step is one of
`AppendOnlyLog` or a stutter (`OneLogAlways`).

Only model-checked: liveness (`LeasesEnd`, `AppendsEnd`), since fairness and ENABLED are
out of the prover's reach. What the code must do for them step by step is proved
(`AppendProgressAlways`; for leases `OverdueNeverKept`: whatever operation comes after a
lease is over, even one that is refused, leaves no overdue lease behind but the one that
memory shows completed). The claims of section 5 are violations and have no theorem.

## 5. Where the repository says otherwise

- **Late success** (`LateSuccess`). `adapters/README.md:67-69` promises an
  ambiguous outcome when the completion fails after reservation. An executor that
  succeeds after its lease was reaped is answered `rejected`
  (`harness-kit/src/index.mjs:1569`) though the effect happened. No false commit
  is recorded.
- **Concurrency budget** (`Budget`). The health check says the concurrency budget
  is enforced (1288). It bounds active reservations (`ActiveCountExact`, which allows
  one more beside an unwritten completion); a lease that ends frees its slot while its
  executor is still awaited, so more executors than the budget can run.
- **Ambiguous locks** (`LockRace`). `harness-kit/README.md:44-46` says live or
  ambiguous locks fail closed. A lock file that is empty or gone when it is read
  counts as decades old with a dead owner (795-803) and is taken over at once.

Three more, without a run of their own: the twins of the verdict differ on three kinds of
documents, which `TwinsAgree` states as its exceptions.

- An `aggregate_policy.status` of null is an error in JavaScript and accepted by Python
  (`runtime_health.py:104`).
- A `stale_after_seconds` of 60.0 is an integer in JavaScript and an error in Python
  (`runtime_health.py:169`). The schema
  (`src/schemas/frontier.machine.health.v1.schema.json` 29 and 73) sides with JavaScript
  in both: the status is the constant `fail_closed`, and 60.0 is an integer in JSON
  Schema.
- The libraries differ on texts and timestamps: `trim` and `strip` take different
  characters for space, and `Date.parse` (`protocol/src/index.mjs:28`) and
  `datetime.fromisoformat` (`runtime_health.py:23`) accept different strings:
  `2026-02-30T00:00:00Z` is a day in March to the one and an error to the other, some
  compact forms are the other way round. A time without an offset is local time in
  JavaScript and UTC in Python, so that the same check has two ages.

`TwinsAgree` says what remains: a verdict is invalid for one program only where one of
these is there, and two verdicts that are both valid, or both invalid, differ only where
a time means two instants. Fractions below a millisecond are not told apart.

## 6. Not modelled, and the plan

Done in this order: the verdict, the engine with its abstract promise, its
proofs, the event store with its abstract log, the loop, the ports with their abstract
call, the Python twin, the audit, and the proofs of all of them. Next:

1. Several engines on one log (`EventLog` below `HarnessEngine`): a halt of another
   process that memory has not read, and what appends other than a completion's leave in
   memory when they fail.
2. `MemoryEventStore`'s `input_sequence` and `externalSequences`: a sequence number is
   used up before semantic replay refuses the event. Nothing in `src/` but tests
   and the chaos fixtures passes one.
3. A refinement from `RunOnce` to `HarnessEngine`, whose operations it now restates in
   reduced form; both implement `GovernedEffects`, which says nothing of verdicts and
   contracts.
4. An abstract specification of `Audit`: what a reader of the output directory may
   conclude from the files it finds.

Left out, having no state a later step depends on: the `--check` mode of the sync,
the scaffold of `create-frontier-app` and the HTTP write guard of its server, the React
components, the identity-claim normalizers, the command-line wrappers, packaging
scripts, conformance fixtures, schemas and documents.
