# A verification project for the OpenShift Upgrade Accelerator operator

The operator warms the nodes of an OpenShift cluster before an upgrade: for each
node that an `UpgradeAccelerator` object selects it creates a Kubernetes Job that
pulls the images of the release the cluster is about to go to.  *Primer* nodes
pull first; the others follow, all at once or in batches.  The progress is kept in
the object's status.  Paths below are relative to the repository; `controller.go`,
`nodeDetermination.go`, `setup.go`, `func.go`, `job.go`, `configmap.go`, `conditions.go`
and `manager.go` stand for `internal/controller/upgradeaccelerator_<name>`.

## 1. Inventory

| Component | State | Operations | Correct when |
|---|---|---|---|
| node determination (`nodeDetermination.go`, `func.go:21-35`) | none | `determineTargetedNodes`, `determinePrimerNodes` | each target listed once, primers are targets, labels and selectors are honoured |
| reconcile loop (`controller.go:69-458`) | the status of the object, local variables | `Reconcile` | every node warmed, primers first, nothing claimed that did not happen, nothing forgotten |
| conditions (`conditions.go`) | `status.conditions` | `appendCondition`, `deleteConditions`, the `setCondition...` family | the reasons the loop decides by are those it set |
| cluster version (`setup.go:12-55`, `func.go:70-141`) | the version fields of the status | `setupClusterVersion` | jobs are made for the version that was read |
| setup resources (`setup.go:57-134`, `func.go:37-68`, `configmap.go`) | a namespace, two ConfigMaps | `setupResources` and what it creates | a pod finds the ConfigMaps it mounts, with the images of its release, whoever wrote them |
| release images (`oc_get_release_images.go`) | none | look-ups with `oc`, `FilterReleaseImages` | the images pulled were determined for the version; the filter drops what other platforms need and nothing else |
| pull job (`job.go`) | the Job objects | `createPullJob` | one job per node and version |
| watches (`manager.go`, `controller.go:46-57`) | the work queue and its timers | event filters, mapping functions, requeueing | every change reaches a reconcile |
| API types, `cmd/main.go`, manifests, CI, tests | - | - | - |

**Interactions.**  `Reconcile` is the only caller of everything else.  It runs in
the one worker of the controller (`MaxConcurrentReconciles` is left at 1).  It
reads through the informer caches of controller-runtime (objects, nodes, jobs, the
ClusterVersion), which may lag, and writes to the API server, which refuses a
status update made with an old resource version.  The Job controller and the
kubelets run the jobs; administrators edit the object and the nodes; the cluster
changes its desired version.

**What is hard.**

* A job is created by one call and recorded by another (`controller.go:290`, `:310`).
* Objects and jobs are read from caches that may be older than the operator's own writes.
* Most errors of status updates are ignored, the others end the reconcile in the
  middle; an update may fail and be stored all the same.
* The lists are edited in place; `nextNodesToProcess` shares its array with
  `nodesWaiting` when parallelism is 0, and batches index lists without looking at
  their length.
* The gate for the remaining nodes depends on one condition that several paths set
  and delete.
* Version, selection and nodes may change between any two steps.
* Two objects share jobs and ConfigMaps, whose names hold the version but not the object,
  while each of these belongs to one of them and is collected with it.
* Three event filters must all agree, so most of the events the watches are for never
  reach the queue, and the timers have to make up for it.

`PROJECT.json` lists these hazards at their lines, with the properties that would
catch each one.

## 2. Modules

* **`NodeDetermination`** - pure operators: which nodes are selected and which are
  primers (`nodeDetermination.go`).  Nodes are numbers in the order of their
  names.  `Determinations` is the set of results one call may have: the cache lists
  nodes in no fixed order, which shows in the appended primers.  `FirstEligible`
  (line 248) is translated although no cluster reaches it with a node to find:
  `primerNodes` is empty only if every node is labelled.  `MergedSelector` is what
  `mergo.Merge` without override does: the pool's value of a key stays unless it is empty,
  as the value of a role label is; then the nodeSelector's replaces it.  One call lists the
  nodes twice (lines 92 and 161 or 184); the model takes both lists from one cluster.
* **`NodeSelection`** - the operators as a state machine: calls of
  `determineTargetedNodes` interleaved with changes of nodes and spec.
* **`Reconciler`** - `Reconcile` as a worker with a `pc`, the API server (`api`,
  `jobs`), the caches (`cache`, `jobCache`), the cluster (`nodes`, `desired`) and the
  disruptions.  A step ends at the next call whose outcome matters.
* **`Rollout`** - the abstract specification: what readers of a status are promised,
  without worker, copies and caches.  `Reconciler` implements it (`ImplementsRollout`); the
  refinement mapping is `Abstract`, which takes the API server's copies.
* **`Watches`** - the API server's feed of changes, the informers, the three event
  filters, the mapping functions, the work queue with its timers, restarts, and the
  reads of `Reconcile` for which the events are there.
* **`Setup`** - what a pull job needs before its pod can start: the version with its
  overrides, the look-ups, the filter by platform, the namespace and the two
  ConfigMaps, with owners, collection and the kubelet.
* **`MCNodeSelection`, `MCReconciler`, `MCWatches`, `MCSetup`** - the constants of the runs.
* **`NodeDeterminationProofs`, `NodeSelectionProofs`, `ReconcilerProofs`,
  `ReconcilerSafetyProofs`, `ReconcilerCompletionProofs`, `ReconcilerOrderProofs`, `WatchesProofs`,
  `SetupProofs`** - the theorems.

The modules meet at named points.  `Reconciler` uses the operators of
`NodeDetermination`; it starts a reconcile at any time, which `Watches` justifies: any key the
operator knows is queued or will be.  `Reconciler` takes of `setupResources`
whether it succeeds, and `Setup` opens that step up, for one node.
`JobsForReadVersion` (in `Reconciler`) is what `Setup` relies on when it names a job after the
version it determined the images for.

### How `Reconciler` corresponds to the code

| Lines of `controller.go` | Actions |
|---|---|
| 75-96 the read, the disabled state | `Begin`, `Disable` |
| 104-123 infrastructure | `CheckInfrastructure`, `Refetch` |
| 127-140 version (`setup.go:12-55`) | `SetupClusterVersion`, `Refetch` |
| 144-192 nodes, primer condition | `DetermineNodes`, `NoNodes`, `SetPrimerState` |
| 194-216 early completion | `CheckCompletion`, `Refetch` |
| 222-230 resources | `SetupResources` |
| 252-271 waiting list | `FillWaiting` |
| 279-328 primers | `SkipPriming`, `PassPrimer`, `StartPrimer`, `EndPriming` |
| 334-350 gate and batch | `ClosedGate`, `TakeAll`, `TakeBatch` |
| 352-380 the others | `PassNode`, `StartNode`, `EndSchedule` |
| 386-432 completion scan | `ListJobs`, `ScanJob`, `EndScan` |
| 434-450 completion | `CheckAllDone`, `RecordCompletion` |
| status updates | `Save`; the records `Saves` and `Refetches` say what follows each |
| error returns | `JobRefused`, `CallFails`, `SaveFails`, `ReportFailure` |

A status update is accepted if the copy is *fresh*: nobody has written the object
since the version it was read at.  An update whose error the code ignores goes on
either way; one whose error it returns ends the reconcile.  A panic is recovered
by controller-runtime and ends the reconcile (`Recover`).

**Abstractions.**  `targetVersion` and `desiredVersion` are one field: they are always
assigned together.  `nodesPreheated` is a set: the code never adds a node twice and
never looks at its order.  Of a condition its reason is kept; status and message
follow from it, and the reasons of the `Failure` condition and those of a failed
setup, which the caller deletes at once, are one value.  Conditions
that no code sets (`Successful`, `PrimingInProgress`) are left out.  Consecutive status
updates with nothing between them (`setCondition...` followed by
`deleteConditions`) are one.  `primerNodes` of the status is written and never read.
`currentVersion` and `desiredImage` are compared with what the cluster says and a difference
makes the checked update and the refetch (`setup.go:27-31`, `:42-46`): their values are left out, and
`SetupClusterVersion` may make that update although the version is the same.  A job is a state per node and version, since its name
is made of these two; a hash collision of two versions is ignored.  The override of
the release version is the same as another desired version.  The ClusterVersion and the nodes are
read as they are: an older reading is the same as a later change.  `nodesWarming` grown
by line 302 twice for one node is possible and modelled (it is a sequence).

**Bounds.**  `MaxDisruptions` bounds how many disruptions happen, `Disruptions` which
kinds: `fail`, `expire` (jobs), `ttl` (jobs are collected in due time, without end), `edit`, `node`,
`version`, `crash`, `apierror` (a failing call, an update that fails before or after it is stored).
Nothing else is bounded: the lists are bounded by the nodes.  `lookedAt` is kept only for `ttl`: the
TTL is two hours and a reconcile comes each minute, so a finished job is collected only
after each object has been through a reconcile since.  It is collected between two reconciles and
never in the middle of one.

### How `Watches` corresponds to the code

| Code | Definitions |
|---|---|
| `manager.go:21-78` kinds, owners, mapping functions | `Listed`, `Keys`, `Notify` |
| `manager.go:79-91`, `func.go:143-162` | `VersionFilter` |
| `manager.go:92-102`, `func.go:164-202` | `OperatorFilter` |
| `controller.go:46-57`, `manager.go:103` | `GenerationFilter`, the deletion case of `Passes` |
| `controller.go:75-98` | `GetObject` |
| `func.go:70-121` | `GetCurrentVersion`, `GetDesiredVersion` |
| every `return ctrl.Result{RequeueAfter: ...}` | `Requeue` |
| controller-runtime | `Deliver`, `ListAgain`, `Fire`, `Take`, `Restart` |

A feed holds the changes an informer has not delivered; `ListAgain` skips to the last one, as
an informer does whose watch broke.  A generation grows with each change of a spec and no
update changes spec and status at once.  What an update of an owned object says does not
matter, only that it is one.  The tombstone of a deletion that an informer missed
is what `confirmed` tells apart.  Of the spec only `state` is kept, of the status one version.  The state of a timer is whether it is set: how long it waits
(30 s, a minute, the queue's own back-off after an error) makes no difference to what can happen.
One `Requeue` stands for the two dozen returns, each of which asks for a later call or holds an error: the model
shows that this is needed, and reading the returns one by one that it is done.  `Notify` updates
the cache and queues the keys in one step; a worker that took a key up in between would read the cache
as it is after both, and the key would be queued once more.
`MaxChanges` bounds changes, failing calls and failing mapping functions, `MaxFeed` how far an informer lags,
`MaxRestarts` restarts.

### How `Setup` corresponds to the code

| Code | Definitions |
|---|---|
| `controller.go:104-123` infrastructure type | `RecordInfrastructure` in `Begin` |
| `func.go:90-121`, `oc_get_release_images.go:122-128`, `:171-177` | `DesiredRelease` in `Begin` |
| `setup.go:62-75`, `oc_get_release_images.go:67-79`, `:179-222` | `GetReleaseImages`, `FilterReleaseImages`, `ReleaseData` |
| `func.go:37-68` | `CreateOperatorNamespace` |
| `configmap.go:37-97` | `CreateReleaseConfigMap`, `CreateConfigMap` |
| `setup.go:121-130`, `configmap.go:99-161` | `CreatePullerScriptConfigMap`, `OwnScript` |
| `job.go:64-73`, `:190-206` | `Mount`, `CreatePullJob` |
| `controller.go:386-449` | `ListJobs` |
| error returns | `CallFails`, `Return` |
| kubelet, garbage collector, informer, administrators | `StartPod`, `CollectMap`, `CollectJob`, `Sync`, `Edit` |

One node stands for all, a pod that starts succeeds, and `complete` stands for the objects whose node is preheated, which return
early.  Jobs are read as they are (their lag is in `Reconciler`), ConfigMaps through a
lagging copy, which one informer keeps for all of them (`Sync`).  A name is the set of platform prefixes that
occur in it.  Version and image need not determine each other: `ImageOf` and `VersionOf` are any two functions, and a config may
override both with any pair, as `func.go:93-95` takes it without a check.  The history `determined` holds the
pairs that a call of `Reconcile` has set out with.  An edit between the read of the object and the
setup may be seen at the second read (`controller.go:213`) or make the update before it fail.
`MaxChanges` bounds edits, deletions, changes of version and failing calls together.

## 3. Runs

| Run | Question | Bounds |
|---|---|---|
| `NodeSelection` | what does `determineTargetedNodes` promise? | 3 nodes, all label combinations, 7 shapes of selector, empty values |
| `OneObject` | primers first, lists a partition, no panic, completion only when complete, and an end? | up to 4 nodes in three clusters, priming on and off, batches -1, 0, 1, 2, 2 failures |
| `Faults` | what survives lagging caches, crashes, failing calls, edits? is it a `Rollout`? | 2 nodes, 2 faults of any kind |
| `Churn` | is a node forgotten, or a job made for a stale version, when version and nodes change? | 2 nodes, 2 versions, 2 changes, lagging caches |
| `SharedJobs` | do two objects that share their jobs both complete, after a failure too? | 2 objects, 2 nodes, 1 failure, endless collection |
| `Watches` | what do the filters let through, and does every change arrive all the same? | 2 objects, 1 owned, 2 versions, 3 changes, feeds of 2, 1 restart |
| `Setup` | does each pod mount its release, and does each object complete? | 2 objects, 4 configs, 2 releases and a mirror of the second, 4 image names, 2 changes |
| `PoolsExclusion`, `NewRelease`, `LargeBatch`, `NewVersion`, `PrimerCrash` | violations, see section 6 | as small as shows it |

Two nodes are a primer and another node, the smallest rollout with an order; three make a
batch that is neither empty nor everything, and two primers with one other.  Two
disruptions are one fault and another while the first is still being repaired.
Two versions are enough for one to be old, and two changes for it to come back.
Two objects are an owner and one that shares with it.  In `Watches` three changes are an edit,
a new version and a deletion or failure, and a feed of two lets a broken watch merge an edit and a
new version, the one way an event of the ClusterVersion passes.  In `Setup` two changes are, for instance,
the deletion of the owner and the switch of the other object to its own script.

**Fairness** (`FairSpec`).  The worker and the kubelets do not stop (`WF`).  Every
path of `Reconcile` that returns asks for a requeue within a minute, and the work queue is
served in order, so each object is taken up again and again (`SF` on `Begin`, which is
disabled while another object is being reconciled).  The caches catch up (`WF` on
`SyncObjects`, `SyncJobs`).  In `SharedJobs` a finished job is collected in the end (`SF` on `JobCollected`, which is enabled
between reconciles only).  Nothing is assumed of disruptions.  `Watches` assumes that informers deliver,
timers fire, calls return and no key is passed over for ever, and nothing of broken watches
and restarts.  `Setup` assumes the same of calls and the queue, and that kubelet, garbage collector and
informer do their work, in any order.  Deadlock is checked
except in `Watches` and `Setup`, where everything may come to rest: no key and no object left, or every object
complete and no change left within the bounds.

**The properties.**

* `TargetsListPrimersOnce`, `PoolTargetsMatchBoth`, `ExclusionHonoured`,
  `ExclusionOnlyRemoves`: the contract of `determineTargetedNodes`.  "Both must match"
  is stated up to what the merge does: for a key both selectors have, the pool's value wins
  unless it is empty.
* `ListsPartition`: without batches, between reconciles each target is in exactly one list, once.
* `NeverPanics`: with parallelism 0 no reconcile cuts a list at a node that is not in it (lines 308 and
  369).  With batches line 369 always does (section 6).
* `PrimersFirst`: no other node gets a job before every primer has pulled.
* `CompletionSound`: `lastCompletedVersion` and the `Completed` condition are true.
* `PreheatedWasPulled`: a node in `nodesPreheated` has had a job that succeeded.
* `NodesNeverForgotten`: with parallelism 0 no update loses a node from the lists.
* `JobsForReadVersion`: jobs carry the version whose ConfigMap this reconcile wrote.
* `ImplementsRollout`: every step is one of `Rollout`: no report is taken back but with the whole
  status, and completion is recorded of the lists the API server holds.
* `EventuallyPreheated`: left alone, every selected node pulls and completion is recorded.  Batches of two or more
  break it (section 6).  `EventuallyPreheatedWithoutRest` says it for all nodes at once and for
  one after the other, as long as no job fails.
* `EventuallyCompleted`: each of two objects gets its `Completed` condition with all its nodes
  pulled, although the other made the jobs and one may have failed.  It does not say
  that `lastCompletedVersion` is recorded: for the second object it is not (section 6).
* `KeysNeverLost`, `EditsAreQueued`, `ChangesReachReconcile`: an object the
  operator knows is queued, in work or on a timer; an edit is in the queue until it is
  read; and each reconcile ends up with what the cluster has.
* `VersionsTrigger`: an update that brings a new version puts every object into the queue that is not about to
  read it anyway.  The code breaks it (section 6); `VersionsWaitForTimers`, a theorem, says how far that goes.
* `JobsPullTheirRelease`: the images a pod is given are listed by one image that a reconcile has determined for the version
  in the job's name, from the cluster, the registry or an override that gives both, without other
  platforms' unless a lost update left the type unknown.  Which of several images for one version
  it is, is not promised (section 6).
* `EventuallyComplete`: each object that stays completes, unless its job is stranded (section 6).

The definitions marked "A mutant" are plausible mistakes in the code.  Each property of a passing run has
one that it rejects, named in `PROJECT.json`.

## 4. Proofs

All proofs assume only the named assumptions of the modules: nodes are a finite set of
numbers, `Absent` and `NoVersion` are not ordinary values, a spec has a Boolean `prime`
and an integer `parallelism`, and the initial clusters are clusters; in `Watches`, owners are
objects and kinds are disjoint; in `Setup`, `ImageOf`, `VersionOf` and
`NamesOf` are functions of versions and images, the prefixes in a name are platform prefixes, and an override is a version or
an image or empty; nothing is assumed of how these belong together.

* `NodeDeterminationProofs`: lemmas on listings and on the sets that make up a
  determination.
* `NodeSelectionProofs!TypeCorrect`: the lists hold nodes.
  `NodeSelectionProofs!ExclusionIsHonoured`: on every path without a valid pool a node
  labelled disable-preheat is in neither list.  The invariant says that the result, if
  there is one, is a determination for the *present* nodes and spec; that
  is what makes it inductive, and exclusion follows path by path from the lemmas.
  From the same invariant follow `TargetsAreListedOnce` and `PoolTargetsAreMatched`: a determination is
  made of listings of disjoint sets, and the labels of a node that a merged selector
  matches are those of both its parts, up to the rule on empty values.  `ExclusionRemovesOne` compares the target sets of two clusters that differ in one label, path by path.
* `ReconcilerProofs!TypeCorrect`: every variable keeps its type through each of the 37
  actions.  `TypeOK` is inductive as it stands once the loop index is
  known to be positive, which is what makes `primers[i]` and `next[i]` nodes.
* `ReconcilerProofs!PreheatedPulled`: `PreheatedWasPulled` speaks of the API server's copies
  and is not inductive: an update may be made from the worker's copy, which may have come from the
  cache, and the scan adds nodes found earlier.  `PulledInv` says the same of all four
  places, and that a job that has succeeded, as it is or as the cache shows it, has left
  its trace in the history `pulled`.  TLC finds no violation of `PulledInv` under the constants
  of `Faults` and `Churn` either.

* `ReconcilerSafetyProofs`: `NeverForgotten`, `JobsHaveReadVersion` and `Implementation` rest on one
  invariant about the worker's copy, `CopyInv`.  An update is refused unless the copy is `fresh`, so it
  is enough to know what *fresh* copies say: they hold every node the API server's object holds
  (`NothingLost`), what is about to be declared completed is what the API server has
  (`CompletionCopied`), and between the determination of the version and the last job the
  copy's version is the one determined (`VersionCopied`): a refetch may return an older object, but such a copy
  is not fresh, and the update at line 207 that must succeed before the first job is refused.  `Implementation` shows that each
  of the actions is a step of `Rollout` or a stutter: an accepted update is a `Report`, a `GiveUp` or a
  `Complete`, by the conjuncts of `CopyInv`.
* `ReconcilerCompletionProofs!CompletionIsSound`: `CompletionSound` under one more assumption, `FixedSelection`:
  nodes and release do not change, and all specs select the same nodes in each initial cluster (so
  an object may still be disabled, enabled or given other batches).  It is needed, since the code
  compares lengths of lists: with other nodes of the same number the comparison would be of different sets (section 6).
  It holds of the constants of `Faults`, `OneObject` and `SharedJobs`.
  `ListInv` says that every list of every copy, every local list and every job holds targets only, so that as many
  preheated nodes as targets are *the* targets; `SoundInv` follows the selection from line 172, where
  it is whole, over the update that must succeed and the refetch that may return an older copy, to
  the two declarations: a copy without the selection is not fresh, and neither declaration made from it is stored.
  Both were checked with TLC under those constants before they were proved.
* `ReconcilerOrderProofs`: what a rollout promises of its order, under hypotheses that name what may
  disturb it.  All three theorems assume one object and no lag of the caches (`Alone`).
  * `PrimersComeFirst`: `PrimersFirst`, if jobs may fail, expire and be collected, and nothing else
    happens (`OnlyJobsFail`), for every parallelism.  `AloneInv` says that the worker's copy is the stored object
    between two updates and that all jobs carry its version.  `OrderInv` says that a primer
    whose job exists is warming in the copy or has pulled, and ties the two flags of the
    loop to the primers before its index: both unset at the end means that every primer has
    pulled, and an open gate means the same.
  * `ListsArePartition` and `WithoutBatchesNoPanic`: `ListsPartition` and `NeverPanics`, if jobs may only fail
    (`OnlyFailures`) and no spec has a positive parallelism (`NoBatches`).  `PartInv` says that a waiting node has no job,
    that a warming or preheated one has, that every target with a job is warming or preheated,
    and, once the waiting list is filled, that every target is in a list.  It also says what the worker
    remembers: the rest of its primers and of its batch, without repetition, and for each of these in which list it is.
  * TLC found no violation of the three invariants on small instances before they were proved.  None of the hypotheses
    is there for the proof's sake: TLC finds `PrimersFirst` violated with any one of a crash, a failing
    call, an edit, a change of nodes or of version, a lagging cache or a second object, and
    `ListsPartition` violated with any one of these, an expiry or a collection; a batch leaves the waiting list
    before its jobs are made, so with batches the lists are no partition, and the property excepts them.
* `WatchesProofs`: `KeysNeverLost` is inductive with `TypeOK`; `EditsQueued` needs
  nothing more either, since a generation that was not read came with an event.
  `VersionsWait` needs `SmallChanges`: any two neighbours in a feed, the cache being the first, differ in
  generation or in version and not in both.
* `SetupProofs`: `PodsPullTheirRelease` follows from `SetupInv`: each release ConfigMap, whoever wrote it, holds
  the lists of an image determined for the version in its name, filtered for the platform or, after a lost update,
  for none; what a started pod has read is such a list; and what was determined came from the cluster, the registry or
  an override that gives both (`DesiredReleaseType`).  The lists that are allowed (`ReleaseLists`) only
  grow, which is why it does not matter who overwrites whom.  `FilterKeepsOwn` says what a filter keeps.

Only model-checked: all liveness (`EventuallyPreheatedWithoutRest`, `EventuallyCompleted`, `ChangesReachReconcile`,
`EventuallyComplete`), which is out of the prover's reach.  `CompletionSound`, `PrimersFirst`, `ListsPartition` and
`NeverPanics` are proved under the hypotheses named above, since the code does not keep them without.
`NeverPanics` alone holds more widely: TLC finds no violation under the constants of `Churn`, `Faults`, `NewVersion`,
`PrimerCrash` and `SharedJobs` either, where caches lag and calls fail; it is violated if a job
expires in the middle of the loop.

## 5. What is not modelled

* Running `oc` and `jq` and reading their output (`oc_get_release_images.go`): a look-up returns the right answer
  or fails.  In the pipe the exit status of `oc` is lost, but empty output is no JSON and is an error.
* The pod beyond what it mounts: image, tolerations, environment, security context, and the script
  (`job.go:94-189`, `configmap.go:14-35`).  No code reads `randomWait`.
* Contents of the namespace and labels of ConfigMaps; permissions in another namespace.
* A hash collision of two versions, in the names of jobs and ConfigMaps.
* A cluster without `platformStatus`: `func.go:211` panics in each reconcile, which is recovered.
* `Reconciler`, `Setup` and `Watches` are not composed into one state machine: the product is out of TLC's
  reach, and they meet at the points named in section 2.
* Deletion of an object in `Reconciler` (no finalizer is ever set); `Watches` and `Setup` have it.
* `cmd/main.go` (bootstrap), generated code, logger, manifests, bundle, CI, scaffolded tests.
  That two managers run side by side is possible without `--leader-elect`; the
  manifests pass that flag.

## 6. Disagreements between the code and what is said of it

Shown by a run:

1. `PoolsExclusion` - a labelled node selected through a pool is warmed
   (`nodeDetermination.go:172`, against `README.md:59`).
2. `LargeBatch` - a batch larger than the waiting list panics in each reconcile, and the nodes that are left are
   never warmed (`controller.go:346`).  The default of 5 is such a batch for every
   cluster with fewer than five nodes to warm, and for the last batch of most.  The counterexample shows another
   panic on the way: line 347 has taken a batch from the waiting list when line 369 looks there for the node that
   just got a job, so with every positive parallelism a reconcile ends after the first job it makes and before the
   update that lists the node as warming (against `upgradeaccelerator_types.go:133`).
   The jobs of a batch are made one per reconcile, and the scan lists them once all exist.
3. `NewVersion` - a new version keeps the old list of preheated nodes and completes at
   once (`setup.go:32`, against `upgradeaccelerator_types.go:131`).
4. `PrimerCrash` - a crash between creating and recording the primer's job opens the gate
   (`controller.go:325`).
5. `NewRelease` - the event of a new version puts no object into the queue: the filter of `controller.go:50` drops it,
   since an update of a status leaves the generation as it is (against `README.md:17` and `manager.go:29`, `:55`, `:81`).
   The timers bring the version to a reconcile within a minute.  The counterexample has a reconcile that
   has just read the old version; a key on its timer is passed over in the same way.  The only event that does pass is
   one that a broken watch has merged with a change of the spec.

Seen while modelling, without a run of their own: pools without a `nodeSelector` select
nothing; every node without the primer label is a primer, while the README asks for the
label `"true"`; the length comparison that the TODO at `controller.go:198` names;
the `Completed` condition is never reset although line 197 says so; parallelism does not
count the jobs that are running, so it bounds a batch and not the parallelism; a negative
parallelism schedules nothing.  Further:

* Appended primers come in the order of the cache's list, so two calls with the same inputs may
  return different lists (`nodeDetermination.go:258`, against `:217`).
* A job list from a lagging cache puts warming nodes back to wait, and one that has succeeded is then
  waiting and preheated at once (`controller.go:395-397`, against `:406`).
* Of two objects with the same nodes the second never records `lastCompletedVersion`: its nodes are found
  preheated at line 200, which returns before line 444.  With priming, the second object may open its gate
  while the primers of the first still pull.
* A primer pulls again each time its job is collected, as long as the object is incomplete
  (line 289 asks for "not warming *or* not preheated").
* A deletion passes the filter only if it is confirmed, the opposite of the comment at
  `controller.go:53`, and a deleted key is still called every 30 s until a restart (`controller.go:76`).
* `controller.go:117` ignores the error of the update that stores the infrastructure type, and line 119 then
  forgets it: the images of all platforms are pulled (`func.go:205`: "used to filter out any unnecessary
  images").  `JobsPullTheirRelease` excepts this.
* A job made for the operator's script waits for ever if that ConfigMap is collected with its owner and
  the objects that remain use a script of their own (`job.go:71-73`); its name is taken, so
  nothing replaces it.  `EventuallyComplete` excepts exactly this (`Stranded`).
* After an error other than NotFound `configmap.go:80` compares with an empty ConfigMap and updates blindly.
* Two images for one version (an override of both, a mirror) share the ConfigMap and the names of the jobs: the objects overwrite
  each other's lists in turn, and a job that is there for the version is not made again, so that after a
  change of the image alone the new image is not pulled until the old job is collected.
* A pool's empty label value does not win over the nodeSelector's (`mergo.Merge`, `nodeDetermination.go:148`): such
  nodes match the nodeSelector and not the pool, against line 140.
* Images named `ibm-...` are dropped on IBMCloud and PowerVS (`oc_get_release_images.go:195`).
* A change of the namespace leaves the jobs of the old one behind and empties the list of jobs, so warming
  nodes are scheduled again.
* `targetVersion` is the overridden version and not what the ClusterVersion reports
  (`upgradeaccelerator_types.go:117`); the `Failure` condition is not cleared by success
  (TODO at `controller.go:231`).

## 7. What could come next

1. `NeverPanics` as a theorem for lagging caches and failing calls, where `PartInv` fails but TLC finds no panic.
2. `Setup` refining a statement about jobs alone, so that `Reconciler` and `Setup` share one definition of a job.
3. Two objects with priming in one run, once the gate is closed for jobs of others.
