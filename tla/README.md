# A TLA+ model of zapret2-nextgen-blockcheck

The program looks for nfqws2 strategies that get a connection through DPI. It
orders candidate strategies, and a pool of workers tries them: each worker opens
a socket, starts an nfqws2 process on its own NFQUEUE, installs a firewall rule
that sends the packets of that socket to the queue, probes the target and undoes
all of it. This directory models the concurrent core of that program and the
making of its list of candidates, checks it with TLC and proves the central facts
with TLAPS. Paths below are relative to
the repository (`src/...` is its source directory).

## 1. Inventory

| component | state | operations | interacts with | what makes it correct |
|---|---|---|---|---|
| worker pool (`src/worker_pool.rs`) | stop flag and success count, task and result channels, cancellation token, the results | enqueue, take, run, report, collect, drain, join, return | scheduler (closures), worker runtime (`run_strategy`), Ctrl-C | no strategy lost or doubled, bounded overshoot, complete unless cancelled, returns |
| scheduler and scores (`src/scheduler.rs`, `bayes.rs`, `pruning.rs`, `scoring.rs`) | posteriors per strategy id | order, produce, finalize | pool, state file | one update per probe; infrastructure failures and cancellations do not count |
| worker runtime (`src/worker.rs`) | per run: socket, process, rule | prepare, start, install, probe, remove, stop | nfqws2 manager, firewall, probe | packets of a probe reach its own nfqws2; everything is undone on every path |
| nfqws2 manager (`src/nfqws.rs`) | one child process per run | start (spawn, grace, try_wait), stop (TERM, wait, KILL, wait) | the operating system | no process outlives its run unnoticed; stop ends |
| firewall (`src/firewall.rs`) | the rule chain or the mark maps | setup, install, remove, cleanup_all | nft, iptables | a removal takes its own rule |
| isolation (`src/isolation.rs`, parts of `config.rs`) | assignment of queue and mark per worker | validate, generate_assignments | worker runtime, mark maps | distinct queues; marks select the own queue; nobody bypasses nfqws2 |
| queue allocator (`src/queue.rs`, library only) | deque of free qnums, `Notify` | acquire, release, drop | any task | no qnum shared or leaked; nobody waits for a notification that does not come |
| native probe (`src/probe.rs`) | read buffer, timings | connect, TLS, read loop, classify | worker runtime | outcome agrees with what was read |
| strategy graph (`src/graph.rs`) | the candidate list | load, render, select, combine, reindex | scheduler, payload registry, state file | nothing lost or doubled, families interleaved, the pairs the configuration lists are combined |
| payload registry (`src/payload_registry.rs`, `validate_payloads` of `src/config.rs`) | the aliases and files of each protocol | validate, build, offer, render | graph, nfqws2 arguments | aliases unique; what validation accepts can be built, under the names it was accepted with; every payload is tried |
| probe targets (`src/main.rs`, `src/types.rs`) | the targets of every strategy | choose the protocol, take --host, --url or the base domains, repeat each | check command, graph | the targets and the candidates agree with the command line |
| check command (`src/main.rs`) | the run's phase | baseline, set-up, pool, save, cleanup | all of the above | cleans up and saves on every path |

What is hard here: interleavings of tokio tasks on several threads around two
bounded channels, an atomic flag and a `Notify`; a cancellation at any moment;
shutdown timeouts that leave tasks detached; commands that fail between two
steps; kernel resources (ports, queue numbers, marks) that are reused. The full
list, with lines, is under `hazards` in `PROJECT.json`.

## 2. The modules

**WorkerPool** - `WorkerPool::run`, `EnqueueContext`, `StopState`, `worker_loop`
and the scheduler's producer closure. Three kinds of process: the producer
(`producer`, `nextTask`, `notified`), the workers (`worker`, `hand`, `handOk`)
and the collector, which is the body of `run()` (`collector`, `collected`). They
share the channels `taskQ` and `resultQ`, the atomics `stopFlag` and
`successCount`, and the token `cancelled`. Each await and each atomic access is a
step of its own. The biased `select!` of `enqueue` becomes `LoadStopFlag`,
`RegisterNotified` (the `Notified` future exists only from here), then `SendTask`
or `Park`, from which `WakeToStop` or `WakeToSend` leave. `runs` and `lost` are
history variables. The two shutdown timeouts may expire at any moment.

**PoolContract** - what the pool promises without channels and polling: the phase
of every strategy. `WorkerPool!ImplementsContract` maps the pool's state to those
phases (`PhaseOf`) and checks the refinement.

**WorkerLifecycle** - `run_worker_task` of every worker with `nfqws.rs` and the
rule handling of `firewall.rs`. `manager` never changes: nft or iptables in
source-port isolation, or none in fwmark isolation, where the socket is marked
instead of bound (`PrepareMarked`) and no rule belongs to a task. `step` is where a
worker is, `socket` its open socket, `rules` the chain in order, `procs` the live
nfqws2 processes. Every command can fail where the code has an error path;
`ProcessDies` is a crash or the death by a signal. `Matching` is the lookup of
the rule to delete: iptables takes the first equal rule, nft the first line that
`find_nft_rule_handle` accepts, which looks for its texts anywhere in the line: the
digits of the qnum, and a source port, which is also found at the beginning of a
longer one (`Begins`). All workers probe one address and port, so that the rest of a
line tells no two rules apart.
The outcome of a run is reduced to what the score makes of it.

**QueueAllocator** - `acquire`, `release` and `Drop` of `queue.rs`; `Notify` is
modelled as tokio documents it (one stored permit, oldest waiter first, a dropped
notified waiter passes the notification on). A critical section is one step. A pending
`acquire` may be dropped at each of its awaits: while it waits (`AbandonWaiting`),
after it was notified and before it is polled (`AbandonWoken`), and in
`lock().await` (`AbandonLocking`), where it has no `Notified` future any more and a
notification it used up is lost. `user` is therefore "lock" before the first look and
"relock" after a notification, and `swallowed` remembers such a loss until the next
notification.

**IsolationPlan** - `validate`'s checks, `--workers`, `generate_assignments` and
the verdict of the vmap chain, with wrapping u16 and saturating u32 addition over
small widths. It starts in every configuration.

**CheckRun** - the check command over several invocations. `phase` follows
`main.rs` from the baseline to the exit, every `?` is a way to `End("error")`,
`Cancel` is Ctrl-C or SIGTERM, and `Kill` ends the process between any two steps.
`End` drops the memory and the tasks; `table`, `rules`, `procs` and `file` stay,
as they do in the kernel and on disk. The pool is abstract here: a worker takes
any strategy left, tries all targets (`run_strategy_tests`) and reports; after a
cancellation `DrainEnds` and `FinalizeResults` may come before it is done, which
is how workers get detached. The `firewall` managers differ in `SetupFirewall`,
`BeginAttempt` and `CleanUp`. A posterior counts wins and losses. `CutShort` says
what an unfinished write can leave: JSON never parses, YAML may, as a part.
Errors before the baseline change no state and are left out.

**HttpProbe** - one probe of `probe.rs` against a server that may send any number
of bytes in any chunks, stall, close or be reset. `phase` is the await the probe
is in; `buf` is the length of its buffer, `sent` what the server sent. A response
is a number of header bytes and a number of body bytes; `Parsed` says what a
prefix of it amounts to and `Enough`, `TimeoutCanSucceed`, `Classify` and
`TransferLevel` translate the criteria of the code. `Fail`, `Conclude` and `Blank`
are the three ways to build a result: with the bytes read, from the response, and
without any knowledge of it. The clock has three readings only: whether the outer
timer of the caller (`worker.rs:152`, `probe()`) has passed, and then the total
time of the read loop, which is armed later. With `--backend curl`, a
reference mode of `check` that tries no strategies, the probe is one wait for curl. The QUIC probe
is not modelled: `check` refuses the protocol (`types.rs:113`).

**StrategySelection** - the making of the candidate list in `graph.rs`. `phase`
follows `load_for_protocol_mode`: the walk over the catalog (or a plain list,
which is taken as it is), the filter of `select_diverse_nodes` with its limits,
the round robin, and the combination of pairs. Where the code sorts and then
loops, an action takes the least node or pair that is left: ids are unique, so
the orders are total. The groups and the family order of the round robin become
`waiting` and `served`, the families that had their turn in this round; without
round robin no family is ever served and the same action takes the nodes in
quality order. A variant is a rendered action: what its `--lua-desync` says and
what is put before that, a `--blob` or a payload filter. Names are numbers in
the order of the strings, and `Digits` is the order of decimal strings, in which
10 comes before 2. Nodes keep the index that ends their id, first that of the
walk, then that of the list (`Reindexed`), because the order of pairs is by the
latter. The variants come from **StrategyCatalog**.

**StrategyCatalog** - what that walk meets, as operators: the generators a search
mode asks for (`Generators`), the actions that the protocol and the generator let
through (`Chosen`), the values of their parameters (`Merged`: the action's own, the
generator's in their place, the fake_dir markers expanded, the aliases of the
payload registry, `[strategy_values]` in extend and override mode), and one variant
for each combination of values, filled into the template (`Rendered`). The
placeholders and options of a template are sets and records here, not text.
`CatalogOK` says what a catalog is made of and `CatalogAssumption` how the constants
hang together. Every loop of the code over a list that is rendered, expanded or
deduplicated is a set of places put in order (`InOrder`, `Picked`), so that the
proofs meet one way of making a list.

**PayloadRegistry** - `validate_payloads` and `build_payload_registry`. `Validate` is
the check at load time; `PushProtocol` adds http, tls and quic in turn, and any
error ends the command. The two name a file differently: validation takes the stem
as it is, the registry cleans it (`Cleaned`: lower case, other characters as one
underscore), and `PathOf` says what `insert` leaves when two files get one name.
`Offers` and `BlobArgs` are what the catalog and nfqws2 are given.

**ProbeTargets** - operators for the protocol of a check (`Selected`,
`ProtocolFor`), the domains asked for, and the list `TargetsOf` in which every
domain comes `test_count` times. Hosts and ports have been parsed already.

**CheckPlan** - what `main.rs` decides before the pool starts, in its order: `stage`
goes from the configuration to the targets, the payloads, the catalog and the
selection, or to `refused`. It composes the four modules above: each of its actions
is an action or an operator of one of them with the state of the others unchanged,
and `PlanSpec` starts in every configuration and command line of `Plans`. What
happens in between (baseline, firewall, state file) is CheckRun's.

The `MC...` modules give the sets of workers, tasks and requests values.
The `...Proofs` modules hold the theorems: one for each component, with the contract
of the pool under the pool, and those of the registry, the targets, the catalog and
their composition in `CheckPlanProofs`. Definitions
commented as mutants are alternative forms of the definition below them; none is
part of a specification, they serve to confirm that each property can fail.

## 3. The runs

| run | shows |
|---|---|
| `pool` | the pool's invariants, the refinement and its liveness, with 2 workers, 4 strategies, 2 task slots, 1 result slot, limit 1 and a cancellation at any point |
| `pool_lost_wakeup` (violation) | `run()` can hang: `stopped()` misses `notify_waiters` |
| `queue_allocator` | 4 tasks with 2 acquires each, 2 qnums, acquires dropped at each await: nothing shared or leaked, and nobody stuck unless a dropped acquire took a notification with it |
| `lifecycle` | 3 runs on 3 workers and 2 ports, of which one begins the other, with nft, iptables or fwmark isolation: a probe has its rule, with nft only a robbed worker or one on a port that begins the probe's can take it, rules and processes left over are accounted for, verdicts need a set-up |
| `lifecycle_isolation` (violation) | a reused port is caught by the rule of its last owner |
| `isolation_plan` | queues distinct, marks select their queue, a validated plan holds |
| `isolation_desync` (violation) | a worker's mark can be the desync mark |
| `http_probe` | 9 requests, up to 5 bytes in chunks of 2: the verdict agrees with the response, suspicion is kept, every probe ends |
| `check_run` | two invocations, 2 strategies with 2 targets, one worker: the state file holds what was reported, a cut file stops later checks, a regular end leaves nothing |
| `check_unreachable` (violation) | strategies run, and are punished, although the baseline could not reach the target |
| `check_plan` | four groups of plans that vary the catalog with search mode and options, plain lists, payload files, and targets: targets agree with the command line (`TargetsAgree`), blobs are declared (`BlobsDeclared`), every payload is tried with every action that can take it or a limit has been reached (`PayloadsTried`), the registry agrees with validation (`PayloadsBuiltAsValidated`), nothing is lost or doubled (`NothingLost`), families are interleaved (`Interleaved`), pairs are combined as configured (`CombinedAsAllowed`) |
| `selection_pairs` (violation) | two strategies with the payload filter of their protocol are never combined |

The violations are findings; each is described in `PROJECT.json` with the line of
documentation it contradicts. The lost wake-up needs three events in a window
between two instructions, so `ReturnsUnlessWakeupLost` says that it is the *only*
way in which the pool does not return: `WakeupLost` describes that state exactly.

What the models show of the code without contradicting any of its documentation:

* Successes are counted when the collector reads them, so results waiting in the
  channel add to the overshoot beyond the strategies in flight. `src/README.md:110`
  calls the overshoot slight; theorem `PoolOvershootBounded` gives the bound,
  `Limit - 1 + result_channel_size + workers`.
* A task may wait in `acquire` beside a free qnum: two releases before either of
  two tasks that found nothing begins to wait leave one stored permit. It wakes
  one of them; `WaitersHaveWaker` says that the other does not wait for good.
* An `acquire` that was notified, or took the permit, and is dropped while it awaits the
  mutex again (`queue.rs:40`) does not pass the notification on: the next task then
  waits beside a free qnum until another lease is given back, which may be never.
  `WaitersHaveWaker` and `EveryAcquireEnds` say that this is the only way
  (`swallowed`, `Stranded`). The repository's test of a dropped acquire
  (`tests/queue_tests.rs:19-24`) drops one that waits. Within the repository only tests
  use the allocator.
* The outer timer of a probe passes before its own read deadline, which is armed
  later, so a response that stalls in the read loop is mostly reported without its
  bytes and without the DPI hint; that is the exception in `SuspicionKept`.
* A TLS stream that ends without close_notify counts as a reset, also after a
  whole response in read mode full.
* `min_body_bytes` may equal `max_read_bytes` although the headers count against
  the latter, and then no response suffices; this is why `FailureIsTheServers`
  asks that headers and body fit.
* nft finds the rule to delete by its port and the digits of the qnum, anywhere in
  the line. Three workers that are given one port in turn can make a probe lose its
  rule while its verdict still counts: the second removes the rule of the first, the
  first that of the third. A worker on port 4201 also finds the rule of a probe on
  42010, if that stands before its own; this takes an `ip_local_port_range` that
  reaches below 10000, which the usual one does not. `ProbeKeepsRule` says that there
  is no third way, and `ProbeHasRule` that iptables' exact deletion knows none.
* Candidates are rendered for the protocol of the first target, and base domains may
  be URLs of different schemes, which then decide the protocol of each: strategies
  are tried with a protocol they were not made for. `TargetsAgree` says exactly when.
* Validation compares the stems of payload files as they are, the registry cleans
  them first. Files whose names differ in case only are accepted, and then one
  replaces the other without a message, or, if they belong to different protocols,
  the check fails after its baseline. `Sound` in PayloadRegistry lists what makes
  the two agree.
* Values of `[strategy_values]` may be the fake_dir markers, which are not expanded
  there and reach nfqws2 as names of blobs; `BlobsDeclared` therefore speaks of the
  blobs that the catalog and `[strategy_values]` do not name themselves
  (`GivenInActions`, `GivenInGenerators`, `GivenInSettings`).
* Every non-zero exit of curl (`--backend curl`) is an infrastructure failure, also
  when the target could not be reached.

One disagreement with the documentation has no run of its own:
`src/README.md:68` lists `quic` among the values of `--probe-protocol`, and
`src/README.md:96-99` says that it uses the native QUIC probe. `check` refuses every host and every https URL
with it ("QUIC HTTP/3 probe is not implemented", `types.rs:113` and `146`), and probes
an http URL without it, so no target of `ProbeTargets` has the protocol, whatever is
preferred, enabled or asked for (`ProtocolFor`, `Acceptable`). A property about it
would restate that one refusal.

**Bounds.** The pool has two of each kind of actor that matters and more
strategies than task slots plus workers, so that the task channel fills, both
workers contend, and the limit (1) is reached with results in the channel,
results in hand and tasks queued. A result channel of one slot makes workers
block on it. Four users of two qnums give two waiters beside two holders, which
the permit's loss needs, and two acquires each (`MaxLeases`) let a task that was served
or dropped come back. `MaxRuns` bounds the strategy runs of all workers
together: three runs on three workers are what it takes for a probe to lose its
rule, and give every pairing of two workers on one port beside a leftover rule of
a third run. One of the two ports begins the other. In `IsolationPlan` the
widths are small enough that wrapping and saturation both happen within four
workers (and `MaxWorkers <= MaxQueue + 1`, as 65536 workers are out of reach). In
`CheckRun` two invocations (`MaxChecks`) are what it takes to meet the leftovers
of one, two targets (`Attempts`) to mix kinds of failure in one strategy, and one
worker to be detached; the three configurations pair every firewall manager and
file format with and without the clean-ups. A cut inside a number of a YAML file
could only change the unused `tests` field, the last of an entry, and is not
distinguished. Invocations do not overlap: the code has no lock against it and
promises nothing. In `HttpProbe` five bytes put headers and body on either side
of `min_body_bytes`, `max_read_bytes` and `dpi_detection_bytes`, chunks of two can
straddle each of them, and the nine requests cover all read modes, HEAD, TLS,
baseline and strategy, and curl. In `CheckPlan` the groups vary
one part each and leave the others as they are, because the parts meet in a few
values only (protocol, aliases, options). The catalogs have up to three families in
any order, whose actions share names, arguments and payload filters, take a blob alone
or with another parameter or a payload filter, have no value for a hole, or are legacy
ones; the lists they give are longer than ten, so that
id 10 sorts before 2, and the option sets reach each limit. Two configured files
(`MaxFiles`) beside two aliases, out of seven whose stems partly collide when they
are cleaned, exceed `max_per_protocol`, repeat a name, or take a reserved one. The
targets are none to two base domains of every scheme with every protocol. `Digits`
gives the order of the decimal strings of as many indices as a list may have
variants; TLC needs it as a table, and `LoadCatalog` leaves out longer lists.
`selection_pairs` needs two variants (`MaxVariants`).

**Fairness.** `WorkerPool!FairSpec` has weak fairness of each process: tokio polls
a woken task, a strategy run is bounded by its timeouts, and the shutdown
timeouts expire. Workers poll their channel every millisecond, so none of them
depends on a wake-up. A cancellation is never assumed. In `QueueAllocator`
tasks are polled and holders give their qnum back; nobody is assumed to drop an
acquire or to begin another. In `HttpProbe` time passes and
the probe is polled; nothing is assumed of the server or the network, so
`ProbeEnds` rests on the timers alone. `WorkerLifecycle`,
`CheckRun`, `IsolationPlan` and `CheckPlan` with its parts state safety only and
assume no fairness. In `WorkerLifecycle` the steps of a run form no cycle and a stuck run would
be a deadlock, which TLC looks for; the code waits without a timeout for nft,
iptables and kill.

**Environment.** A closed socket's port may be handed out again. The kernel keeps
a port in TIME_WAIT after an active close of an established connection, but not
after a failed or timed-out connect or a reset, which are everyday outcomes here.

## 4. The proofs

Every theorem is stated for all values of the constants that satisfy the
assumption of its module. All invariants and action properties of the passing runs
are proved; the run shows each on a small instance first.

`WorkerPoolProofs`, for every finite set of workers, all channel sizes, numbers of
strategies and limits:

* `PoolTypeCorrect`: `Spec => []TypeOK`, one lemma per process, one step per action.
* `PoolOvershootBounded`: the bound alone is not inductive. `OvershootInductive`
  is: while the flag is down the count is below the limit, and once it is up the
  sum of counted successes, results in the channel and busy workers stays within
  the bound - a worker past the stop check exchanges its place for a slot in the
  channel, the collector a slot for a count, and no worker passes the check any
  more.
* `TasksInOnePlace`: a strategy is to be made, queued, in hand, in the result
  channel, collected or lost, and in one of them. `PlaceInv` adds that the channels
  and the collected results have no repetition (`OnceEach`) and that the places do
  not overlap (`Apart`). Lemma `SortKeeps` says that the final sort of the results
  only moves them.
* `PoolProbesOnce` (by `RunsInv`, which ties the number of runs of a strategy to its
  place) and `PoolComplete` (by `CompleteInv`: without a cancellation nobody leaves
  before there is nothing left, so nothing is dropped).

* `PoolImplementsContract`: with the phases of `PhaseOf`, every step of the pool is a
  step of PoolContract or leaves the phases alone, for the same constants. Beyond
  the places it needs `InOrder`: the task channel holds the strategies sent last, in
  order, so that the next one taken is the first that waits, and the count that
  raises the stop flag is that of the successes reported. Lemma `PhasesTell` turns a
  phase into a place and back; each kind of step of the contract then has a lemma of
  its own.

`WorkerLifecycleProofs`, for every finite set of workers, any ports and any number
of runs, and under every manager:

* `LifecycleTypeCorrect` and `ProcessesAccountedFor`, by `LifeInv`, which adds that
  a worker between steps has a run of its own, and that its open socket has the port
  that its rule names.
* `ProbesHaveRules`, `ProbesKeepRules`, `VerdictsNeedSetup`: the newest rule of a port
  belongs to the worker that installed it last, because a new rule goes to the end
  (`NewestSurvives`, `OthersKeepNewest`): an exact removal of another worker takes
  a rule of another queue, and a loose one takes the newest only if it finds none
  before it, that is, if the own rule of that worker is gone, or if its port begins
  the probe's and no older rule of its own comes first (`Robs`).
* `RulesAccountedFor`, by `RulesInv`: each step changes both sides of the count
  alike, and a failed removal is counted once because its run is new (`RemovalsFresh`).

`QueueAllocatorProofs`, for every finite set of tasks and number of queues:

* `AllocatorTypeCorrect`, and `QnumsConserved` by way of `ConservedInductive`, which
  adds that the free queue numbers, the leases and the returning ones are
  pairwise disjoint, that the deque has no repetition, and that every queued
  waiter is a waiting task (`WaitersWait`, so that a notification changes no
  lease). `LeasesDistinct` is a consequence: two tasks never hold one queue number.
* `NobodyStranded`: whoever waits has somebody to wake it, unless a notification was
  swallowed. `Tended` is the inductive
  form, and speaks of all who depend on a notification and of all who may give one;
  a queue number that is not free is out (`EmptyMeansOut`), so its return is still
  to come. An acquire that is dropped before it used up a notification takes nobody's
  waker away (`BystanderTended`).

`IsolationPlanProofs` proves for every width of queue numbers and marks
`PlanTypeCorrect`, `PlanQueuesDistinct`, `PlanMarksSelect` and `PlanHoldsAsValidated`.
`PlanInductive` ties the assignments to the configuration they were generated from
and keeps what validation established; lemma `WrapsOnce` turns the wrapping addition
into a case distinction, so that the modulus is met in one place only.

`CheckRunProofs`, for any number of invocations, strategies, targets and workers,
and every configuration:

* `TornFileIsRefused`: inductive as it stands, because the only writes that cut the
  file also end the process.
* `CheckTypeCorrect`, by `CheckInv`.
* `FileHoldsWhatWasReported`: by `SavedInv`, which follows a posterior from the file
  through the results of the invocation and back. What a strategy counts for is
  decided by the first failure of its targets; `FirstExists` and `ScoredAsLearnt`
  relate it to what finalize makes of the list.
* `RegularEndIsClean`: by `LeftInv`, which says who may still leave a table, a rule or
  a process behind at each phase.

`HttpProbeProofs` proves for every set of requests, every response length and
buffer size: `ProbeTypeCorrect`, `ProbeSuccessHasEvidence`,
`ProbeFailureIsTheServers`, `ProbeFullMeansWhole` and `ProbeSuspicionKept`. `ProbeInv`
adds to the types that the buffer is within `max_read_bytes`, that a read is awaited
only while the criteria are not met (`ReadOn`, so that a timeout or a reset in the
read loop has no success to spoil), and `Justified`, which says of each verdict
which response it was drawn from.

`StrategySelectionProofs`, for every catalog, every ranking of families and every
set of options:

* `SelectionTypeCorrect`: `TypeOK`, with the nodes found being finitely many
  (`TypeInv`), which the least of them needs.
* `SelectionInterleaved`: a list that is interleaved so far may be continued wrongly,
  so `InterleavedInductive` adds what the round robin owes: the families of a round
  come in their order (`InTurn`), and whoever waits since a candidate was selected
  has been served since or is to be served before that candidate's family is again
  (`Owed`).
* `SelectionLosesNothing`: by `KeptInv`. Every variant the walk has passed is found, in
  a node with its arguments (`Found`); every node is still to be looked at, waiting,
  selected, refused as a repetition, or beyond a limit (`Kept`); and no arguments
  are taken twice (`ArgsOnce`).
* `SelectionCombinesAsAllowed`: by `ListInv` (the index of a node is its place in the
  list) and `PairInv`: the pairs behind the loop are combined or not allowed, and
  those combined are allowed, come in order and have different arguments. Lemma
  `CombinationOrder` shows that the order of pairs is total, which rests on
  different numbers having different decimal strings.

`CheckPlanProofs`, for every set of plans (configurations, command lines, catalogs,
settings), every set of names and files and every cleaning of names:

* `RegistryAsValidated`: by `RegistryInv`, which says at each `status` what `registry`
  holds, namely the definitions of the protocols pushed so far (`PushedOf`), and
  that validation accepted the configuration. That the pushed aliases cannot collide
  when cleaning merges no names then needs no induction over the files.
* `TargetsAsAsked`: by `TargetsInv`, which ties `targets` to the request. How often a
  host comes is counted by a bijection: `TargetsOf` repeats each domain `test_count`
  times, place by place (`Groups`). `ProtocolOpen` says which protocol a base domain
  gets when the command line leaves it open, and `ProtocolsAgree` when all get one.
* `PlanTypeCorrect`: by `PlanInv`, of which the others use parts. Before the selection
  nothing has been rendered and nothing selected; from then on the variants are
  those of the plan (`Drawn`), and what the selection needs of its input holds. The
  bulk of the proof is that `Rendered` is a list of variants for every catalog:
  lemma `Ranking` shows that any finite set of sequences of numbers is ranked by its
  lexicographic order, without an induction over data (the number of smaller elements
  is a bijection onto `0 .. n - 1`); `InOrderIs` then gives what `InOrder` lists, and
  `ExpandedIs`, `ConfiguredIs`, `ParamsIs`, `MergedIs`, `CombinationsIs`, `PlacesAre`
  and `RenderedIs` follow the values of a parameter from the catalog to a variant.
* `PlanSelectsAsPromised`: `NothingLost`, `Interleaved` and `CombinedAsAllowed` hold
  under `PlanSpec` too, where the variants are rendered. The lemmas of
  `StrategySelectionProofs` about a step are used as they are; what is new is
  that the step that loads the catalog establishes their hypotheses.
* `PlanTriesPayloads`: a payload of the protocol is an alias the registry offers, hence
  a value of every parameter `blob` whatever the settings say (`ConfiguredIs`), hence
  part of a combination (`CombinationWith`) if the other holes of the action have
  values, hence in a variant (`RenderedIs`), which is in the list unless a limit
  keeps it out (`NothingLost`, by `PlanSelects`).
* `PlanDeclaresBlobs`: back along the same way. The value of a `blob` comes from the
  catalog, the generator, the settings, a marker or the registry (`BlobValues`), and
  `ListRendered` keeps with each node the variant it was made from.

**Assumptions.** Each is named and stands in the module that declares the constants.
`PoolAssumption`, `LifecycleAssumption`, `AllocatorAssumption`, `CheckAssumption`,
`ProbeAssumption`, `SelectionAssumption` and `PlanAssumption` of IsolationPlan: sizes
are natural numbers and not zero where the code refuses zero, the sets of tasks and
workers are finite (those of the pool not empty), no port is the one that stands
for none, a request asks for no more body bytes than it reads, there are no more
workers than queue numbers, and names, ranks and positions of decimal strings are
natural numbers, the latter all different. `CatalogAssumption` and `PlanAssumption` of
CheckPlan give the types of a plan and say four things about names besides:

* a marker finds files only (`Found`), finitely many, each with a blob name
  (`blob_file_sentinel`, `src/src/graph.rs:1170`);
* no suffix parameter is called `blob` (`apply_suffixes`, `src/src/graph.rs:755`, has a
  fixed list of them);
* no valid alias is the sentinel of such a file, which contains an `@`
  (`src/src/graph.rs:1182`; an alias is made of letters, digits and underscores);
* names of payloads are values like any other, and every protocol has a usual payload
  filter.

The run `check_plan` evaluates both.

**Only model-checked:** liveness, which the prover does not reach under fairness:
`ReturnsUnlessWakeupLost`, `WorkersEnd`, `EveryAcquireEnds` and `ProbeEnds`. The
violations of section 3 are counterexamples and have nothing to prove.

## 5. Not modelled yet, and the plan

The modules are in the order in which they were planned: the pool and its
contract, the allocator, the life of a worker, isolation, the check command, the
probe, the selection, and what a check decides beforehand. What is left:

1. The ready-made combined entries of a plain list, and entries of a YAML list that
   are malformed; costs, risks and priors of a node, which are only reported.
2. The start-up checks of `firewall.rs` (which manager is there) and the single
   iptables commands behind one rule. A rule is added and removed as a whole here.
3. Invocations that overlap. The code has no lock against it and promises
   nothing: the later save drops the results of the earlier one, and either clean-up
   deletes the table of both.

Three hazards have no property because the code makes no promise about them:
nfqws2 dying during a probe, overlapping invocations, and posteriors kept under ids
that are renumbered after a change of the catalog (nothing reads them back to order
strategies).

Left out for good: argument parsing, printing and report layout, the inside of the
curl process, DNS resolution, the parsing of TOML, YAML, hosts and ports, `SO_MARK`
system calls, build scripts (pure I/O or layout, no protocol), and `ordering.rs`,
which only its own tests use.
