# Cascader in TLA+

Cascader is a Kubernetes operator. Workloads (Deployments, StatefulSets and
DaemonSets) name in annotations the workloads that depend on them; when one of
them restarts, Cascader waits until its rollout is over and then restarts its
targets, which may be sources of further targets. This directory holds a model of
it: TLA+ modules, TLC configurations, and theorems with proofs for TLAPS. Paths
below are relative to `src/internal/` unless they start with `src/`.

## 1. The system

| component | state | operations | model |
|---|---|---|---|
| event predicates (`predicates/`) | none | the filter on create, update, delete and generic events; `SpecChanged`, `ScaledToZero`, `ScaledFromZero`, `SingleReplicaPodDeleted`, `DaemonSetTransitioning` | `Predicates` |
| reconcilers (`controller/`) | one work queue and one worker per kind (controller-runtime's); the object in hand; nothing that survives the process | `Reconcile`, `ReconcileWorkload` and its helpers | `Reconciler` |
| cycle detection (`controller/cycle_detection.go`) | the path of the walk | `checkCycle`, `detectCycle` | `CycleDetection`, and one step of `Reconciler` |
| workload stability (`workloads/`) | none | `Stable` of each kind | `Workloads` |
| targets (`targets/`) | none; they write annotations on the API server | `Trigger` | `Reconciler` (what it comes to), `Annotations` (what it writes) |
| annotation helpers (`utils/helper.go`) | none | `PatchPodTemplateAnnotation`, `PatchWorkloadAnnotation`, `DeleteWorkloadAnnotation`, `ParseTargetRef`, `UniqueAnnotations`, `ToCacheOptions` | `Annotations`; their effect in `Reconciler` and `Cluster` |
| metrics (`metrics/`) | two gauges, one counter | setters | `cycleGauge`, `restarts` in `Reconciler`; the number of targets is left out |
| flags and set-up (`flag/`, `app/run.go`) | the options; the process | `ParseArgs` and its validation, the comparison of the keys, set-up, start, leader election | start-up in `Annotations`; `ReconcilerInit`, `CrashRestart` |
| logging, manifests, tests | - | - | not modelled (see 7) |
| the cluster (external) | the objects on the API server, the informers' caches, the events between them | users, accidents, the rollouts of the workload controllers | `Cluster` |

How they interact. An informer moves its cached copy of an object forward and hands
the old and the new copy to the predicates; if one of them takes the change for a
restart, the object's key goes into the work queue of its kind, which holds a key
once however often it is added. The worker of the kind takes a key, reads the
object from the cache, and goes through `ReconcileWorkload`: mark the object with
the *last-observed-restart* annotation unless it is marked; parse its targets; walk
the dependency graph in the caches for a cycle; if the object is not stable, come
back after an interval; otherwise remove the mark and restart each target by
stamping its pod template. Between any two of these steps informers, users,
workload controllers and the workers of the other kinds go on.

What is hard about it:

- *stale copies*: every decision is taken on a cached copy (or on the answer to the
  mark's patch), while the server has moved on;
- *collapsed and coalesced events*: several events are one key, several versions one
  event after a relist;
- *patches computed from stale copies*: each is the difference between the copy in a
  worker's hands and what the worker made of it, applied to whatever the object has
  become meanwhile;
- *requeues and retries* that meet new events for the same key;
- *its own writes come back as events*, and a reload of a target is the restart of a
  source: loops must be recognised or die out;
- *partial failure*: each of the three patches can fail, with a different
  consequence for each;
- *restarts of Cascader*: queues and delays are lost, the marks stay;
- *a graph that is edited* while it is walked and while reloads run along it.

What makes each component correct:

- predicates, queue, reconcile together: no admitted event is lost
  (`NoForgottenEvent`), each is decided on in the end (`EventsAnswered`), none is acted
  on twice (`NoUncausedReload`), every restart of a source that leads into no cycle gets to
  every target (`CalmMeansReloaded`, `CascadeReaches`), no mark is left on such a source
  (`CalmMeansUnmarked`, `MarkCleared`); all in all they look like the simple promise of the module `Cascade`
  (`ImplementsCascade`);
- stability: no reload for a rollout that is not over (`ReloadAfterRollout`);
- cycle detection: no reload into a cycle (`CycleHalts`), the verdict is right in
  spite of concurrent changes (`NoneMeansAcyclic`, `CycleMeansCycle`,
  `ErrorMeansUnreadable`) and without them is the one that `Reconciler` comes to in one
  step (`OneStepWhenStill`), the walk ends (`Terminates`); together with the
  reconcilers: reloads die out (`ChainsEnd`, `Quiescence`);
- annotation helpers, flags, set-up: no patch undoes what others wrote (`OthersKept`),
  what is reloaded is what others named at one time (`BatchesWereNamed`), no
  interval is below a second unless they asked for it (`WaitsWereAsked`), and texts and patches
  come to a set of targets and a mark (`ImplementsWorkload`);
- metrics: they should say what is the case, which the code does not always do, see 5
  (`CountedRestartsHappen`, `GaugeIsCurrent`).

`PROJECT.json` lists the hazards one by one with their lines and the properties that
watch them.

## 2. The modules

    Workloads <- Predicates <- Cluster <-+
                                         +- Reconciler <- Cascader <- MCCascader
                          Dependencies <-+                   |
                                         |                   INSTANCE Cascade
                                         +- CycleDetection <- MCCycleDetection
    Annotations <- MCAnnotations
         |
         INSTANCE AnnotatedWorkload

    proofs:  Cascader <- CascaderProofs <- RolloutProofs, CycleHaltProofs, QueueProofs
             QueueProofs <- PromiseProofs
             PromiseProofs, CycleHaltProofs <- ReloadProofs
             CycleDetection <- CycleDetectionProofs
             Annotations <- AnnotationsProofs

- **Workloads**: the kinds, the status fields that Cascader reads, `Stable`.
- **Predicates**: each check of `predicates/utils.go`, the lists of checks that the
  three `SetupWithManager` register, and `Admitted`, the filter as a whole.
- **Dependencies**: graphs, reachability and cycles as mathematics: `Reach` is the
  least closed set, without recursion. It is the reference that the walk is
  measured against.
- **Cluster** (external): `log[w]` is the history of a workload that still matters.
  Its first entry is the copy in the informer's cache, its last the object on the
  API server, those after the first are watch events under way. An object has the
  fields that Cascader reads: whether it exists, its annotations (present at all;
  the targets; the mark), its pod template (as the version that last changed it),
  generation, replicas and status. A rollout is `Observe` (the controller has
  seen the spec; the statuses it may then report are in `FirstReports`: pods
  starting, old pods all still there, or a surge) and `Settle`. A DaemonSet's
  replicas are its `desiredNumberScheduled`.
- **Reconciler**: the work queues and `ReconcileWorkload`. `pc[w]` is where the
  reconcile of `w` stands:

  | step | code | actions |
  |---|---|---|
  | idle | the key is taken, the object read, the mark looked for | `Dequeue` |
  | mark | the mark's patch, `base_reconciler.go:61-70` | `SetMark`, `SetMarkFails` |
  | check | lines 72-121: targets, cycle, stability, all on the copy in hand and the caches | `BadTargets`, `NoTargets`, `CheckCycle`, `NotStable`, `BeginReload` |
  | clear | the patch that removes the mark, 123-126 | `ClearMark` |
  | trigger | `triggerReloads`, one target at a time in any order | `Trigger`, `TriggerFails` |

  `Add`, `AddAfter`, `Deliver` and `Fire` are the queue and the informer;
  `CrashRestart` ends the process and starts it again. `MergesDelays` selects
  between two queues of controller-runtime: the classic one, in which a key may be
  ready and delayed at once, and the priority queue, which takes a waiting delay
  over; the runs use both.
- **Cascader**: everything interleaved, fairness, and the properties.
- **Cascade**: the abstract specification that Cascader implements; see below.
- **Annotations**: one workload's annotations, key by key and text by text, and everyone
  who writes them. `keys`, `interval` and `namespaces` are the flags; `ParseArgs`,
  `ValidateKeys` and `SetUp` are `Run` up to the start, each of which may end it. `server`,
  `cache` and `copy` are the three places the annotations are in: at the API server, in
  the informer's cache, in the hands of the reconcile. `Merged` is what the server makes of
  a patch of `client.MergeFrom`, including that a map left empty is left out
  of the JSON and takes all annotations with it. `SetMark`, `ClearMark` and `Trigger` are
  the three patches, interleaved with `Edit`, anybody else's changes. `ExtractTargets` and
  `RequeueDurationFor` are what is read from the texts; a text is a model value, and its
  entries, split at commas and slashes, are given by a constant. `Reconciler` and `Cluster`
  take the outcome for granted: the targets as a set, the mark as a Boolean, each patch as a change
  of one field.
- **AnnotatedWorkload**: this outcome, as a specification that `Annotations` implements; see below.
- **CycleDetection**: `checkCycle` and `detectCycle` taken apart: `path` is the path
  of the recursion, `rest` what is left of each loop over dependencies, and each
  workload is read from the cache when the walk gets to it, while `Update`, `Break`
  and `Mend` change the cache. `Reconciler` takes the whole walk as one step;
  this module shows what the verdict is worth without that simplification, and that
  it is the same as long as the cache stands still (`OneStepWhenStill`).

### The abstract specification

`Cascade` knows workloads, their templates and events, and neither queue, cache, patch nor worker.
An event of a source is noticed, which owes a batch of reloads; a batch is begun only
when one is owed, names no source of itself, and is worked off one target at a time, each of
which may fail on its own; an event is closed by a decision, a batch's last reload
or a verdict against it; a restart of Cascader forgets what is owed. `Cascader` instantiates
it (`Promise`) with the mapping

| `Cascade` | `Cascader` |
|---|---|
| `template` | the pod templates on the API server |
| `owed` | `credit` |
| `open` | the workloads with `seen[w] > decided[w]` |
| `batch` | `todo`, what the reconcile at work has yet to trigger |
| `starts` | how often `CrashRestart` has happened |

and `ImplementsCascade` says that every behaviour of `Cascader` is one of `Cascade`. Two
runs check it and `PromiseProofs` proves it. `Cascade`'s one liveness promise, `Answered`, is
no part of this: it is checked separately (`EventsAnswered`), under the fairness of `Cascader`.

`AnnotatedWorkload` is what `Cluster` and `Reconciler` take for granted of one workload: an
object's annotations are a set of targets, whether they can be read, whether there are any,
and a mark; others may change all of it; Cascader's first patch sets the mark, its last one removes it,
each on whatever the server has by then, and a reload changes none of it. `Annotations` instantiates
it (`Workload`) with `Reading(o)`, what is read from the texts of `o`, in place of each copy `o`, and
`ImplementsWorkload` says that its behaviours are among those. Start-up, `Trigger` and
whatever becomes of the intervals are steps that `AnnotatedWorkload` does not see.

### Ghosts and abstractions

Ghost variables, read by no guard:

- `rolled`: the newest generation whose rollout is over; `hops`: the length of the
  chain of reloads that led to a template; an object's `due`: the newest version of it
  that came of a restart, of whatever kind `src/README.md` counts as one (new template, to or from
  zero, the only pod lost, a DaemonSet's pod lost);
- `seen`, `decided`: the newest version of each workload that was let through by the predicates, and
  the newest that a reconcile decided on;
- `credit`: admitted events less batches of reloads, since Cascader started;
- `reached[s][t]`: the `due` of `s` that `t` was last reloaded for;
- `done`, `kept`, `ever`, `broken`, `dubious` in `CycleDetection`; `ever` are the edges that
  could be read at some time, those of an unreadable workload not among them;
- `others`, `named`, `asked`, `waits` in `Annotations`: the annotations as others alone
  would have made them, the sets of targets and the intervals they have had them say, and
  the intervals after which Cascader has come back.

Operators that a comment calls a *faulty variant* are part of no specification. Each is
a bug one could make in that place of the code and is put in the place of the definition after
it to see that a property notices.

What is abstracted:

- A target list is a set. In the code a target that is listed twice is triggered twice,
  with the effect of a second reload within the same second; likewise with and without its
  own namespace.
- The mark's value, a time, is not kept in `Cluster`, only its presence; setting the mark is always
  a new version of the object. In `Annotations` it is one text, `Now`.
- Template hashes are taken to be injective.
- Two reloads of a target that share a second are one change; `Subsecond` says whether
  that may happen at all. The second survives a re-creation of the target.
- The annotations' Go map is walked in any order, so when both a cycle and an
  error can be met, either may be.
- Backoff of retries and lengths of intervals: a delay ends some time.
- `Cached` objects that cannot be read for other reasons than absence (an API error on
  a cached read) are not modelled; informers serve from memory.

## 3. The runs

The configurations of `MCCascader` have two to five workloads. The hazards involve a source
and its target (two), a target that is a source itself, two sources of one target, a source of two
targets, or a cycle with a source that leads into it (three, or two where the
cycle is a loop); more workloads repeat these. `cascade` has five: a diamond (a -> b, c and b -> c) and
beside it d -> e with e -> e. `Budget` says how often each outside event may
happen, `MaxLag` how many watch events may be in flight when someone other than Cascader writes,
or a delay ends (1: the cache is one or more versions behind, since Cascader's own
writes are never held up). `Disturbed` and `Rolling` name the workloads that users touch and
whose rollouts are followed; those of a pure target are seen by nobody.
`CHECK_DEADLOCK FALSE` everywhere: a cluster in which nothing more happens is what Cascader works
towards, a walk is over at some time, and a command line may be refused.

| run | instance | properties | shows |
|---|---|---|---|
| chain | a -> b -> c, three kinds, two restarts | NoUncausedReload, CalmMeansReloaded, CalmMeansUnmarked | each restart gets through exactly as far as it should, whatever interleaves |
| cascade | diamond and loop, one restart, all roll out; a mark's patch and one reload may fail; fair | CascadeReaches, MarkCleared, EventsAnswered, ImplementsCascade | every event is decided on in finite time, the marks come off, a failed reload costs one target its restart and no other, a source that leads into a loop comes to a decision as well; all of it within `Cascade` |
| edits | two StatefulSets with a common target, edits that close a cycle or take all targets away during the reloads, one reload and one removal of a mark failing, fair | ChainsEnd, Quiescence | reloads die out even if the cycle comes late |
| scaling | a single-replica Deployment, to zero and back, its pod lost, a restart of Cascader anywhere | ReloadAfterRollout, CalmMeansReloaded, ImplementsCascade | each of these counts as a restart and gets to the target; stale statuses and left-over marks are not taken for finished rollouts; a crash forgets and never repeats |
| daemons | DaemonSets, restart, pod loss, rescaling, fair | ReloadAfterRollout, CalmMeansReloaded, Quiescence | DaemonSets' restarts get through as well, and the events that Cascader's patches raise die out |
| outages | a pair, and d -> e -> e beside it: deletion, re-creation, relist of any, an annotation that becomes unparsable, shared seconds | TypeOK, NoUncausedReload, NoForgottenEvent, CycleHalts | no failure repeats or loses what was admitted, and no stale, missing or new copy on the way lets a reload into the loop through: a workload that is gone stops the walk as well |
| annotations | five built-in keys and a foreign one, each command line that changes one key, good and bad intervals and namespaces, two changes by others | TypeOK, OthersKept, BatchesWereNamed, WaitsWereAsked, ImplementsWorkload | stale patches lose nobody's annotation; nothing is reloaded or waited for that nobody asked for; all of it comes to a set of targets and a mark |
| walk | all graphs on three nodes, one change during the walk, fair | TypeOK, NoneMeansAcyclic, CycleMeansCycle, ErrorMeansUnreadable, OneStepWhenStill, Terminates | the walk is right and ends |

`chain`, `cascade`, `scaling` and `outages` use the classic queue, `edits` and `daemons`
the merging one. In each run TLC explores all reachable
states. `CalmMeansReloaded` and `CalmMeansUnmarked`
speak of states in which nothing is under way; `chain` has such states after none, one and
both of its restarts. Both leave out workloads that lead into a cycle: those reload nothing, and keep
the mark that they had when the walk found the cycle. `CalmMeansReloaded` and `CascadeReaches` allow as many targets to be
missed as reloads have failed (`src/README.md:35` calls them best effort), so where the budget has
no such failure, none.

The bounds are enough for the following reasons. Two restarts (or rescalings) make a
second event overtake the first at every point of its reconcile. One failure of a kind makes its
error path run, at every point where the failing step can be. One change under a walk over
three nodes can take an edge away or add one ahead of, on and behind the path. Two changes by
others put one before and one after any read of the annotations, or both between a read
and the patch computed from it. The theorems in section 6 do not depend on any of
these bounds.

## 4. Fairness

`Fairness` assumes that informers deliver, delays end, rollouts end, seconds pass, and a
worker goes on with the reconcile it is in (weak fairness per workload; the
goroutines and timers behind these are always able to run). For `Dequeue` it is strong
fairness per key: workloads of a kind share a worker, so `Dequeue` of one key is disabled
whenever another is in hand; the queue is first-in first-out and the worker always
comes back to it, so a key that waits there gets its turn. Nothing is assumed
of users, accidents, failing calls or crashes. In `CycleDetection` only the walk itself is
weakly fair.

## 5. Where the code and its documentation differ

Four runs expect a violation; each checks one property that a document or a comment
states of the program, and TLC finds the behaviour that refutes it. The lines are
in `PROJECT.json`.

- `crash_loses_reload`: a source that was marked when Cascader ended is not looked at again
  after the start, because create events are filtered out.
- `zero_interval`: `requeue-after: 0s` (or a negative duration) is accepted and means
  never. A unit test (`controller/base_reconciler_test.go:274-326`) accepts the empty result
  for a workload that is not stable, so the value is known of and its consequence may not be.
- `no_targets_mark`: the early return without targets leaves the mark on the object, so that
  the next restart is reloaded for but not logged as detected.
- `counts_lost_reload`: a second reload of a target within a second writes the stamp that is there
  already, restarts nothing, and is counted as a restart performed. The run has `Subsecond`
  on and two sources of one target. With it off, that the counter goes up only with the template
  is what `Trigger` does in one step, and no run or theorem repeats it.

The model shows more of this kind, which have no run of their own:

- The cycle metric stays 1 when the cycle is edited away: with `Mutual` for the graph of
  `no_targets_mark`, `GaugeIsCurrent` fails. The metric is written only in a reconcile that gets as far
  as `checkCycle` (`controller/base_reconciler.go:98`), where
  `src/internal/metrics/metrics.go:46` has it indicate a cycle that is "currently detected".
- With `clearfail` in the budget `MarkCleared` fails: when the patch that removes the mark
  fails, the error is logged (`controller/base_reconciler.go:124-126`) and the mark stays,
  where `src/README.md:185` has it removed once the source is stable.
- A source that leads into a cycle is marked before the cycle is found
  (`controller/base_reconciler.go:61-70`, then `checkCycle`) and keeps its mark, which is why
  `CalmMeansUnmarked` leaves such workloads out.
- With a source of two targets, one of which does not exist, `CalmMeansReloaded` fails:
  a target that cannot be fetched makes `checkCycle` fail, and none is reloaded. The e2e test
  `src/test/e2e/namespace_test.go:97` expects that failure for a source with one such target.

And outside of the model: the e2e step at `src/test/e2e/edgecases_test.go:101` says that a target
of two restarted sources is restarted "only once". Code and model reload it once for each source
(`controller/base_reconciler.go:229`), and the assertion of that step does not tell the two apart. The README says targets are restarted through
`kubectl.kubernetes.io/restartedAt` (`src/README.md:35` and `:171`), while
`targets/deployment.go:68` writes `cascader.tkb.ch/last-observed-restart` into the pod template.
Either restarts the pods. The stamp has that built-in key even where a flag gives the mark
another one; `Trigger` in `Annotations` keeps the two apart, and `OthersKept` holds either way.

## 6. The proofs

All are checked by TLAPS for every value of the constants that satisfies the named
assumptions, which TLC evaluates in every run: `RefAssumption`, `KindAssumption`,
`TargetsAssumption`, `PresentAssumption`, `SizeAssumption`, `BoundAssumption`,
`FiniteAssumption` (Cluster),
`RequeueAssumption`, `SwitchAssumption` (Reconciler), `SourceAssumption`,
`ChangesAssumption` (CycleDetection), `TextAssumption`, `FlagAssumption`, `EditAssumption`
(Annotations). They say no more than what kind of value each
constant is. In particular neither the number of workloads, keys or texts nor the number of outside events
is bounded by them; `FiniteAssumption` says that the workloads are finitely many, without saying how
many. Four theorems have hypotheses of their own, on the events outside of Cascader, which are
named with them: `CyclesHalt` and the three of `ReloadProofs`.

- **`CascaderProofs`: `TypeCorrect`** (`Spec => []TypeOK`). Lemmas about the log (what `Write` and
  `Advance` leave) and one about the writes of everyone else, `OutsideWrite`, carry the proof; the interesting
  conjunct is that `todo` holds workloads only, which needs that a reconcile comes to
  `BeginReload` only past `BadTargets`.
- **`QueueProofs`: `ReloadsAreCaused`** (`NoUncausedReload`). Not inductive: the property
  says only that `credit` is not negative. The invariant `CreditCoversChances` counts the
  chances that a workload has to begin another batch, a key in the queue, one that waits,
  a reconcile before its decision, and says that there are never more than `credit`.
- **`QueueProofs`: `EventsAreKept`** (`NoForgottenEvent`). The invariant `EventsKept` adds that
  versions grow along the log, that what was seen is not newer than the cache, and that
  every admitted event is still remembered by a key, a delay, or a copy that is new enough.
- **`RolloutProofs`: `ReloadsFollowRollouts`** (`ReloadAfterRollout`). `RolloutsKnown`:
  no generation is rolled out before it exists; every object on the server, in the
  log and in a worker's hands is `Trusted`, which means that a status which would count as
  stable belongs to a generation that `rolled` has reached. It is here that a DaemonSet's
  replicas, part of the status and without a generation, need care.
- **`PromiseProofs`: `CascaderImplementsCascade`** (`ImplementsCascade`). Initial states map to
  initial states, and each action of `Cascader` to one of `Cascade` or to a step it does not see:
  `Deliver` to `Notice` or nothing, `BeginReload` to `Begin`, `Trigger` and `TriggerFails`
  to `Reload`, the verdicts to `Decline`, users and rollouts to `Change`. Needed for it are `TypeOK`,
  `CreditCoversChances` (a batch that is begun is owed) and `BatchesAreBegun` (a
  reconcile has targets in hand only from its decision on, so the batch is empty when one is begun and
  when the event is declined). That no batch holds its own source comes from `BeginReload`
  itself, through the comparison in `CycleFound`.
- **`CycleHaltProofs`: `CyclesHalt`** (`CycleHalts`), under the hypothesis that nobody edits the
  target annotations (`TargetChoices[w] = {}`): with edits that add edges it is not true, and the run
  `edits` shows how far reloads then get. (The one edit in `outages` is of `a`, which leads to
  no cycle, and only takes its target away.) Restarts, deletions, re-creations, lost events and crashes are
  all allowed. `Halting`: whatever is alive, on the server, in the log or in hand, is
  annotated as in the beginning, and a reconcile past its decision has no cycle ahead in
  that graph. The step: a walk that found neither cycle nor error has read every
  workload it can get to, so its graph has all the edges that the annotations have
  from there (`WalkSeesAll`), and a cycle of the smaller graph is one of the larger (`CycleInLarger`).
- **`ReloadProofs`: `CalmReloaded`** (`CalmMeansReloaded`). Hypotheses: the annotations are not
  edited and name targets that exist, nothing is deleted, no `requeue-after` is zero or
  negative, no watch is lost, and no two reloads of a target share a second. Any graph, with
  its cycles, any number of restarts, rescalings, lost pods and failing calls. The runs
  `chain`, `cascade`, `scaling` and `daemons` satisfy the hypotheses. The invariant has two
  halves. `Watching`: what is admitted is remembered until it is decided on (`EventsKept`), a
  batch in hand is what the annotations name (`BatchesNamed`), no life ends and no restart in the
  log escapes the predicates (`LivesGoOn`), and whatever is waiting or worked on exists and has
  targets (`AtWork`). `Reaching`, until Cascader is restarted: a reconcile at work is up to date with the
  restarts of its source or will be followed by another (`Abreast`), and the edges that lead
  into no cycle and whose target has neither been reloaded since the newest restart of its source
  nor is going to be (`Uncovered`) are no more than the reloads that have failed (`Counted`): a step
  that adds one to the former adds one to the latter. In a calm cluster nothing is going to be
  done any more, so what is overdue is in `Uncovered`. Each hypothesis is needed: a target that is gone
  makes `checkCycle` fail and nothing is reloaded; an interval of zero means
  that nobody comes back; a relist can skip a scale to zero and back; and edits
  change what is owed.
- **`ReloadProofs`: `CalmUnmarked`** (`CalmMeansUnmarked`). The same hypotheses on annotations
  and objects, and neither a failing removal of the mark nor a restart of Cascader, both of which leave
  marks behind (5); watches may be lost and reloads share a second. `chain` satisfies them. The
  invariant `MarkMinded`: an object with a mark is alive, and has a cycle ahead, or its key is waiting, or a
  reconcile of it has yet to come to `ClearMark`.
- **`ReloadProofs`: `ChainsAreShort`** (`ChainsEnd`, and a better bound). Hypothesis: the annotations
  are not edited; deletions, crashes and failures are free. Since a batch is begun only past the
  check for cycles, a chain of reloads that led to a template is at most as long as there are
  workloads it can have come through, `Cardinality(Upstream(w))`, those upstream of `w` that lead into no cycle; and over every
  edge that is reloaded along, that set grows by the source (`ChainsBrief`). The run `edits` checks `ChainsEnd` while
  annotations are edited, which the theorem leaves out: there a chain goes round a
  cycle once more, and the bound of twice round is checked only.
- **`AnnotationsProofs`: `TypeCorrect`, `OthersAnnotationsAreKept`, `BatchesAreWhatWasNamed`,
  `WaitsAreASecondOrAskedFor`**, all from one invariant. A merge patch names only the key in
  which old and new copy differ, however old they are, unless it leaves the map empty; that
  it never does so is because a reconcile that removes the mark has targets in its
  hands, whose keys differ from the mark's because the command line was validated before
  (`Validated`, `ClearsWithTargets`, `Untouched`). From that, what the server, the cache and the
  worker say of targets and intervals is something others said (`EverythingSaid`).
- **`AnnotationsProofs`: `AnnotationsAreTargetsAndMark`** (`ImplementsWorkload`), action by action from the
  same invariant and `MarksHeld`: a worker about to set the mark has a copy without one, a worker
  past that has one with it, so that the mark's key is among those in which the copy and what
  the worker made of it differ, and the patch names it (`MarkIsPatched`). For every other
  key `WritesTouchOne` holds, and the compared keys see to it that the targets are read from others (`ReadingButMark`).
- **`CycleDetectionProofs`: `WalkTypeCorrect`, `NoCycleIsTrue`, `CycleIsTrue`, `ErrorIsTrue`,
  `StillWalkIsOneStep`.** The verdict of
  a recursive walk is usually proved by induction over paths. Here the induction is
  in the invariant: `Accounted` says that every workload the walk has come back from has
  all of its lasting edges to such workloads, that no lasting cycle runs through these, and
  what is left to visit on the path; `Founded` says that the path can be reached over edges
  that existed. When the walk is over, these say that the set of visited workloads
  is closed, and `Reach` is the least closed set. `Still` adds that before the first change all the
  ghosts are the present cache, from which `StillWalkIsOneStep` follows.

Only model-checked: all liveness (TLAPS proves no fairness arguments with `ENABLED`):
`CascadeReaches`, `MarkCleared`, `EventsAnswered`, `Quiescence`, `Terminates`; and `ChainsEnd`
while annotations are edited. Every other property that a passing run checks is stated by a theorem.

## 7. Not modelled

Logging (set-up by a library), the manifests and the chart, the flags for
addresses, TLS and log format and the wiring of the manager they go to (probes, metrics server,
the lease of leader election: losing it ends the process and is a `CrashRestart`), Kubernetes
Events and log lines, the gauge with the number of targets, and the time that the walk takes: it
keeps no record of visited workloads and walks a shared dependency once for each path to
it.

The rollouts themselves, pods and update strategies, belong to Kubernetes; `Cluster` has the statuses
its controllers report. `Annotations` has one workload, and of the walk and the stability
only that they may end a reconcile; `Cascader` has the many workloads.

## 8. Plan

Done, in this order: the pure operators (`Workloads`, `Predicates`, `Dependencies`), `Cluster` and
`Reconciler` with `Cascader`, the detailed walk, the proofs of the three safety invariants;
then `Annotations` with start-up and patches, `Cascade` and the refinement with its
proof, the agreement of the walk with the one step, the proofs of `CycleHalts` for a graph nobody
edits and of the invariants of `Annotations`, and larger and more varied instances.

Then the proofs of `CalmMeansReloaded`, `CalmMeansUnmarked` and `ChainsEnd`, and `AnnotatedWorkload` with the refinement that connects `Annotations` to what `Cluster` takes for granted.

Left:

1. `ChainsEnd` with edits: the bound of twice round holds for two edits, as in the run, and would have
   to count the edits in general; `CalmMeansUnmarked` with edits that keep the targets.
2. `Rollout`: pods and the strategies of the three kinds underneath the statuses of `Cluster`
   (rolling update with surge, ordered updates, node by node), to show that `Observe` and
   `Settle` abstract them. It would model code outside of the repository only.
