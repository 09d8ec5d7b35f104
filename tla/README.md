# Compose on Kubernetes in TLA+

A verification development for the Compose API server, the Compose controller and
their installer: TLA+ modules translated from the Go sources, TLC configurations that
check them on small instances, and proofs, checked by TLAPS, of what holds for
every value of the constants.  `PROJECT.json` has the exact correspondence: for
every definition the lines of code it stands for, for every property a run and a
mutant of the code that violates it.

## The system and its parts

Users write *stacks* to the **API server**, an aggregated Kubernetes API server
with its own storage.  A stack is a compose file (v1beta1), or a structured
stack (v1beta2, v1alpha3); subresources give its compose file, its scale, its
owner and its logs.  The **controller** watches the stacks and the Kubernetes
objects made from them (its *children*: deployments, stateful sets, daemon sets,
services), computes what a stack should consist of, applies the difference with
the identity of the stack's owner, and puts a status back on the stack.  The
**installer** deploys both, and updates them with a backup of the stacks.

| part | state | operations | hard behaviours | module |
|---|---|---|---|---|
| deduplicating channel (`internal/deduplication`) | pending set, buffered channel, closed flag | push, pull, Close | two goroutines and a lock; full buffer; Close while full | `StringChan` |
| owner cache (`stackownercache.go`) | entry per stack, dirty flag | get, get with retries, setDirty, remove | lock held during the API call and given up between two attempts | `StackOwnerCache` |
| controller (`internal/controller`) | informer stores, three queues, owner cache, the reconciler's program counter | watch and notify, reconcile, delete, status | watch lag, lost events, conflicts, failing calls, restart, delete and re-create | `StackController` |
| expected generation (`internal/convert/stack.go`) | annotation, generation | predict, compare, write | edits by others between read and write, defaulting by the API server | `ExpectedGeneration` |
| conversion and diff (`internal/convert`, `internal/conversions`, `internal/stackresources`) | the objects in the cluster | load a compose file, convert between versions, convert to objects, compare, apply | conversion from what exists, fields that cannot be updated, plugins and defaults, map order, 32-bit fields | `ComposeTypes`, `Versions`, `Convert`, `StackDiff`, composed in `StackPipeline` |
| registry (`internal/registry`, `internal/apiserver`, `internal/requestaddons`) | the stored stack | create and update in each version, composeFile, scale, status update | ways in that know different parts of the stack; skip-validation; stale scale | `StackRegistry` |
| signaler and log streamer (`internal/registry`) | registered channels and callbacks, open readers, line channel | parse arguments, register, signal, watch pods, read, filter, forward | client leaves, watch ends, full channel, a map iterated without its lock | `LogStreamer` |
| API server start (`cmd/api-server`, `internal/keys`) | APIService objects, CA bundles, authority of each replica | make an authority, serve, merge bundles, register | several replicas, conflicts, restarts, lost answers, certificates that expire | `ApiRegistration` |
| installer (`install`, `cmd/installer`, `cmd/debug-installer`) | deployments, labelled objects, definition, backups | install, uninstall, update, restore, delete backup | stopping half-way, failing calls, foreground deletion, waits | `Installer` |
| generated clients and deep copies, benchmark, recorder | none | | | not modelled |

How they interact: the stack listener pushes keys into deduplicating channels,
the reconciler takes them, asks the owner cache whom to impersonate, compares the
children informer's view with the conversion of the stack, writes children, and
writes the status through the registry's strategy, which decides whether the
write changed the spec.  The abstract `CoalescingQueue` is what the controller
relies on of the channel, and `StackController` uses queues of that kind; the
match of generation and annotation is one bit in `StackController` and numbers in
`ExpectedGeneration`; `StackRegistry` has the strategy in full and a coarse
controller, `StackController` the reverse; both treat the conversion as a value that
is applied or not, and `StackPipeline` has the conversion in full, with informers that
are up to date.

## Modules

* **`CoalescingQueue`** is the abstract queue: a value sent is output later, once
  or more often, never zero times, and after Close everything pending still comes
  out.
* **`StringChan`** has the two goroutines of `NewStringChan` statement by
  statement: `push` takes the lock, tests and marks, and sends; `pull` receives,
  takes the lock, deletes the mark and outputs.  It refines `CoalescingQueue`.
* **`StackOwnerCache`** has `getWithError` and `getWithRetries`: the lock
  is held from the look at the entry to its store, the API call included, and is free
  during the pause between two attempts, when the listener's `setDirty` and `remove` come
  in.  Versions of the stack are numbers, so that "recent" can be said.
* **`StackController`** has one stack with up to two incarnations, its children
  (one workload per service), the two informers as sequences of undelivered
  events, the notifications an informer still owes its handler, the queues and the
  reconciler goroutine: `select`, owner lookup, computation of children, one action
  per API call, status.  Users create, update and delete (in the background and in
  the foreground); Kubernetes makes workloads ready, collects garbage, and others
  change workloads; calls fail; the controller restarts; a watch is lost and
  relisted.  What only a deletion removes, the secrets and config maps with the stack's
  label, goes kind by kind, before the owner is forgotten.  A *scenario* says how often each of these may happen in a behaviour.
* **`ExpectedGeneration`** has one workload, its generation as the API server counts
  it, the annotation the controller writes, and what it predicts.  The specs the
  workload has had (`given`) tell whether the user went back to one of them (`returned`).
* **`ComposeTypes`** is the structured stack; fields that are only copied are one
  value.  **`Versions`** turns a loaded compose file into it (`FromComposeConfig`, with
  the constraints as the regular expression reads them) and converts it to v1beta2 and
  back, field by field.  **`Convert`** is `internal/convert`: workloads, pod templates,
  volumes, claims, placement and services, each made from the object that exists.
  **`StackDiff`** compares two sets of objects with the code's normalisations and gives
  the calls that lead from one to the other.  These four have no state.
* **`StackPipeline`** composes them: users write versions of a stack in every form, the
  controller converts, compares and applies call by call, and an API server (external,
  from how the code deals with it) fills in defaults, assigns addresses and node ports,
  runs admission plugins and refuses what is not valid.
* **`StackRegistry`** has the stored stack (compose file with its "outdated" header,
  structured stack with its service order and replicas, owner, phase), the table of
  which strategy serves which resource in which version, every way in, with the
  skip-validation parameter as it is read, and the controller as a client that keeps a
  cached view and puts statuses back.  A scale is read and written with the code's
  conversions between signed and unsigned counts, a global service counting as -1.
* **`LogStreamer`** has one request for the logs of a stack: its arguments (`follow`,
  `tail`, `filter`), the handler (`ServeHTTP`, `forwardLogs`), the goroutine that
  watches pods, one reader per pod, the bounded channel between them, and the
  `Signaler` through which the end of the request reaches the readers.  When the
  API server ends the watch (`WatchEnds`) the loop goes on over the closed channel and
  hears of no further pod.  `Signal` iterates over a map that readers change without a common lock; the Go runtime may or
  may not notice, so a delete during the iteration nondeterministically ends the process
  (`thrown`).
* **`ApiRegistration`** has the replicas of the API server: each makes an authority (or
  is given one), starts, and registers version after version by reading an APIService,
  merging its authority into the bundle and writing it back under the resource version
  it read.  Processes exit (also because their certificate is about to expire), pods are
  replaced, answers are lost.
* **`Installer`** has the commands as programs: `todo` is the sequence of calls and
  decisions a command still has to make, and each is one action.  The commands are
  install (from the installer's command line, from a program that embeds the package, or
  from the debugging installer), uninstall, `UninstallComposeAPIServer`, update (with
  `UninstallComposeCRD` in it), restore and the deletion of a backup.  An installation is
  checked against the cluster's version and its own options, and compared with what is
  there by `match`.  `Fail` lets a call fail, `Interrupt` kills the process, and the cluster (pods
  starting and stopping, garbage collection, finalizers) moves on its own.
* `MC...` modules give the constants that a configuration cannot express.
  `...Proofs` modules hold the theorems.

Definitions named `X_Something`, next to an `X`, are the mutated forms of `X` that
`PROJECT.json` lists; nothing else uses them.

## What the runs show

| run | instance | shows |
|---|---|---|
| `string_chan` | four strings, buffer of two | no lost wake-up, every value comes out, refinement of `CoalescingQueue` (no duplicate in the buffer, Close after a full drain) |
| `owner_cache` | five versions, four attempts | a clean entry is never older than what the listener was told; a strict lookup does not return an older owner; the listener always gets its lock |
| `controller_updates` | four scenarios around an update: any two of drift, failing call, restart and the update itself; a lost watch; a service that comes or goes; a stack left without services | a clean stack's workloads are its spec's; a pending stack has a wake-up under way; status updates never undo a spec; children and status come to what the spec says, and stay |
| `controller_deletion` | background deletion with a failing call, a restart or a lost watch; foreground deletion; deletion and re-creation under the same name | a foreground deletion ends, the children of a deleted stack go, those of the new one come and stay; while secrets or config maps of a deleted stack are left, their removal is on its way with a known owner (`LeftoversAreScheduled`) |
| `expected_generation` | deployments, and workloads without defaulted fields; three specs, two updates, an edit to a spec of the user's or to another one, an informer that lags | a match means nobody else changed the spec; the workload comes to what the user wants, unless the user goes back to a spec it had before |
| `conversion` | eight scenarios (pods, kept fields, images, mounts, claims, ports, internal services, placement), each of a few versions of a small stack that follow one another in every order | what is applied is what the last version says, whatever came before (`HistoryFree`); placement, ports, mounts and selectors are as written; a settled stack is left alone; nothing others added is lost; every refusal has a cause in the stack |
| `registry` | two users, three requests, one file that does not parse, one stack that does not convert, one global service | file and structured stack agree; Available means that the stored spec is what runs; a status update leaves a sorted stack's file alone; workloads follow, failures are reported, statuses come to rest |
| `api_registration` | two replicas and a pod that may replace one, two versions, two faults | the bundles keep trusting every replica that serves; they hold one authority per name; all replicas end up serving |
| `installer` | two commands of any kind, one crash, one failing call, one stack created meanwhile, two cluster versions, five sets of options | no stack is left without a copy; workloads survive the move to the API server; a command that reports success has done its work; every command ends |
| `log_stream` | two pods, channel of two, one failure, a watch that may end, five requests | an answer that ends by itself has every line the filter and the tail let through, in order; the signal reaches every reader; answers end; a follower gets every line of the pods the watch told it of; goroutines end unless the channel stays full |

Two runs are expected to end in a violation; each is a finding in `PROJECT.json`,
with the line of documentation it contradicts:

* `controller_owner`: the store of the informer is ahead of the handler that marks
  the owner dirty, and a status update gives the stack back to its previous owner;
* `controller_flip`: a spec that goes A, B, A while the children informer lags is
  left at B.

### What the properties leave out

Several properties carry a condition because the code does not promise more.  What
happens outside of it was met while modelling, and each case is a hazard with a note
in `PROJECT.json`:

* `Converges` of `StackController`: a stack deleted before its owner was ever resolved,
  or whose deletion call fails, leaves its secrets behind, and so does a deletion that a
  restart forgets.  `LeftoversAreScheduled` therefore speaks of an owner that was looked
  up since the controller started (`resolved`), and of calls that did not fail;
* `MatchIsOurs`: for a stateful set or a daemon set where the API server fills in fields
  the prediction is one too high, and an edit by others can be taken for the
  controller's own;
* `Repairs`: a user who goes back to a spec the workload had before, given by an earlier
  update or by an edit of others, while the informer still shows it, is told that nothing
  is to be done; the late workload then carries a generation that matches, and stays.
  Such behaviours (`returned`) are left out here and are the finding of `controller_flip`;
* `HistoryFree` names the fields that do survive from an earlier version: the grace
  period, the update strategy, pull secrets and a digest;
* `SettledIsQuiet`: two constraints on node labels come in the order of a map, and the
  comparison takes another order for a change;
* `PlacementAsWritten`: a constraint that the expression reads only in part (a value with
  a hyphen) is cut short;
* `ReachableAsWritten`: a service named like the published service of another one
  replaces it, or is replaced by it;
* `RefusedExplained` lists what the API server goes on refusing: claims of a stateful set
  that changed, counts beyond 31 bits, node ports that are taken, a plugin's volume that
  the conversion removes while the plugin's container stays;
* `OthersKept` is about the fields of the service's container that the conversion does not
  write.  What others add to its environment, mounts, resources or security context is
  replaced by the conversion's own (`pod.go:83-97`);
* `StatusKeepsFile`: a status update of a stack whose services were stored unsorted
  marks its compose file as outdated, because the conversion sorts in place;
* `Converges` of `StackRegistry` excludes v1beta1 updates with an emptied status
  (`Bodies`), which replace a pending mark by a clean one;
* `ScalesOneService`: a scale that is overtaken undoes the other service's change; and it
  counts by mode, because every scale writes 2^64-1 into the replicas of a global service;
* `ServingIsTrusted`, `AllServe`: a bundle file of the operator has one certificate; with
  two, the first registration succeeds and every later merge fails;
* `StacksKept`: an `Update` run again while the stacks are in the backup only erases
  that backup first (`"rerun" \in UpdateFrom`).  So `Settled` says what the operator
  sees to: the stacks are served when `Update` starts, from the definition with no API
  server about or by an API server that is not being deleted, and likewise when the backup
  is deleted.  The run has updates of the first kind; the theorem covers both;
* `WorkloadsKept` is about an update from the definition: from an API server nothing
  is orphaned, and what the garbage collector then does with owners of the same name and
  another UID is not modelled;
* `InstallComplete`: an interrupted command leaves a deployment with the wanted tag,
  which the next installation takes for a complete one, or objects on their way out, which
  it builds on (`undisturbed`).  `match` compares the tag, the service type and the
  certificate's hash, never the etcd options or an image: with other etcd options and the
  rest the same, the command reports success and the old API server stays.  Options that
  override one image only keep their own tag (`newInstaller` hashes the two images when
  both are given), so that a new image under the same tag is not installed.  `TagsTell`
  leaves all of these out, and tags that are the hash of two images or the legacy
  version's.  A command line has no flag for an image, so only its tag matters; TLC
  evaluates the condition on the run's options (`TagsAssumption`);
* `UninstallComplete` leaves the aggregated API out: a pod that is starting registers
  it again, and the wait for its absence returns after one pass;
* `WorkloadsKept`: the error of the wait for the controller's end is ignored, and if
  it fails the stacks are deleted under a running controller; `UninstallComposeAPIServer`
  does not wait for it at all, so its promise starts when that controller is gone;
* `CommandsEnd`: a stack created during `orphanAllStacks` is waited for and never
  deleted;
* `DrainedIsComplete`: logs short enough to be read before `ServeHTTP` looks at the
  counter are answered with "no running pods";
* `Follows`: a pod that `watchPods` had not come to when its watch ended is never read,
  since nothing watches again;
* `GoroutinesEnd`: a reader in a full channel that nobody reads stays there.

### Bounds

`Max...` constants bound what the environment does (updates, failures, restarts,
deletions, edits, requests, commands, faults); nothing bounds what the code does in answer.
One or two of each suffice for the interleavings in question: a race is between one
write and one reader.  Since the bounds multiply, `StackController` and `StackPipeline`
choose one of a few scenarios in the initial state, so that two kinds of disturbance
meet but not all of them at once, and every version of a small stack follows every
other one.  A scenario of the conversion varies what one part of it reads; `Word` stands
for 2^32 where a field is cut to 32 bits, and keeps the sign at half of it.  `MaxCopies`
bounds the copies of a key told apart in a queue: two copies of the same key have the
same effect as one that is taken twice.  `MaxLag` stops Kubernetes, not the controller,
from changing a child while its informer is that many events behind.  `MaxNotif` bounds
the handler calls the stack informer owes when it applies another event, three: one
creation, one update and one deletion.  `MaxEvents` of the log streamer counts the pods'
events and the end of the watch together.  `ExpectedGeneration` has the three specs and
two updates it takes to leave a spec and come back to it, or to go on to another one.  The buffer of the
channel is two instead of 20 or 200, with more strings than places; the line channel of
the log streamer is two, with more lines than places.  `MaxAttempts` is the number of
attempts a starting API server makes, two instead of eight.

Deadlock is not checked where the bounded environment comes to rest and the system
with it.

### Fairness

Goroutines that can run do run: weak fairness of each goroutine as a whole, never of a
choice it makes.  The reconciler's `select` chooses at random among ready channels, so a
channel that is ready again and again is taken eventually: strong fairness of taking a
deletion, and of taking a key from either reconciliation queue.  The listener's lock in
the owner cache is a Go mutex, which hands over to a starving waiter: strong fairness of
the listener.  Informers resynchronise periodically, which is weak fairness of the resync.
The cluster goes on with its own work (pods start, garbage is collected, containers are
restarted).  For the installer only this is assumed: as long as the command or the cluster
can go on, one of the two does.  `StackPipeline` has safety properties only and no
fairness.  Users, failures, restarts and third parties have no fairness.

## What is proved

| module | theorem | argument |
|---|---|---|
| `StringChanProofs` | `NoLostWakeup`, `Deduplicates`, `DrainsOnClose`, `Refinement` | the inductive invariant says, for each program counter, where a marked string is: in the buffer, in the hands of push, or in the hands of pull |
| `StackOwnerCacheProofs` | `CleanEntriesAreRecent`, `StrictReadsAreRecent` | an entry that is clean, or about to be stored clean, was read after the last notification |
| `StackControllerProofs` | `SpecsAreTheUsers` | the stack the reconciler holds, while its resource version is current, is the stored one up to the phase; so a conditional PUT writes the stored spec back |
| `StackControllerProofs` | `LeftoversStayScheduled` | `LeftoverInv` is about any stack, since the owner is looked up before the deletion: while something labelled is left the owner is cached, and the informer still has the stack (whose deletion it will tell), or a deletion is owed or under way; a pass that gets to the config maps has removed the secrets, and one that gets to the cache has removed both.  `Left`: what remains of a budget never exceeds what the scenario granted, so that "spent" tells whether a call failed |
| `StackControllerProofs` | `PendingStacksAreScheduled` | in `WakeInv` a pass under way counts only if the version it holds is pending, because only such a pass ends in a write, or in a conflict that is retried; and the last call owed to the listener is about what the informer's store holds, so that a deletion that is still queued is not taken for the wake-up of the new stack |
| `StackControllerProofs` | `CleanStacksAreApplied` | `CleanInv` says that configurations settle: once a version of the stack gives a service the wanted configuration, all later versions under way to the informer and the reconciler do, and once a child runs it, every later version of that child under way to the children's informer does, unless others changed it; a clean stack's spec is the one the informer and the reconciler know; and in a pass over the current version what needs no call is as it should be.  Assumes that no scenario lets a service go back to an earlier configuration; where one does, `controller_flip` shows the property false |
| `ExpectedGenerationProofs` | `MatchesAreOurs`, `WritesMatch` | an annotation that matches the generation was written with it; one that was overtaken stays below it.  Assumes that every workload is a deployment or is converted completely (`Predictability`); without that the two are false |
| `StackRegistryProofs` | `Invariance`, `FilesTellStacks` | each step of the strategy keeps file and structured stack in step, whatever the request holds |
| `StackRegistryProofs` | `ScaleTouchesOneService` | a second invariant, `ScaleInv`: until somebody writes the stack, the counts a scale request has read are those of the stored stack but for its target; what the signed and unsigned conversions do to a count is a lemma (`CountWritten`) |
| `StackRegistryProofs` | `AvailableStacksAreApplied` | `AppliedInv`: while the stack is Available the controller's view, however old, is of the same workloads, so that reconciling it again does no harm; and what a pass whose status can still be written calls Available for the first time, it applied.  Every way in that changes what the conversion sees marks the stack.  Assumes that a v1beta1 body keeps the status it was read with (`Bodies \subseteq {"kept"}`); without that it is false |
| `StackRegistryProofs` | `StatusLeavesFile` | `ViewIsStored`: a view with the stored resource version is the stored stack up to the sorting that the conversion does in place, so that a status put back through two conversions compares equal to it |
| `ApiRegistrationProofs` | `AuthoritiesStayTrusted`, `BundlesStaySmall` | an object that was read and has the same resource version has the same bundle; a merge keeps every authority of another name, and an authority is named after the host that runs it or is the operator's |
| `InstallerProofs` | `Invariance`, `UpdateKeepsStacks` | `IInv` ties the steps a command has left to where the stacks are: while a step of `Backup` is ahead, what is known is served and stays served; after it, all of it is in the backup, and no step ahead removes the backup; a command that destroys otherwise has given the stacks up.  Lemmas about sequences say that a program keeps its early steps in front (`Sorted`).  Assumes `"rerun" \notin UpdateFrom` |
| `InstallerProofs` | `UninstallsAreComplete` | `Cleared` reads off the waits that are behind an uninstallation what is absent, and no step that is left, of the command or of the cluster, creates it again |
| `InstallerProofs` | `UpdatesRestore` | `Moving` has the phases of `Update`: tearing down, cleared, stuck, building, restoring.  The program left is a part that only tears down, a part that only builds and a fixed rest (`UpdateSplit`); the new API server cannot be up before the second part, nor its registration be of use before it is up, so that what `restore` creates and what the last step lists is in the new one.  Assumes `"rerun" \notin UpdateFrom` |
| `InstallerProofs` | `WorkloadsAreKept` | `Kept` is about the order of the steps that are left (`Ordered`, `NextSteps`): no stack is orphaned while a controller is about, a definition that goes holds no stack of the update any more, and one that stays is hidden behind the API server's registration as long as a controller without a deployment still runs; that registration only goes after the definition.  Assumes `UpdateFrom \subseteq {"crd"}`; with stacks that an API server already serves it is false, since a stack may be re-created under the name of one that is being deleted |
| `InstallerProofs` | `InstallsAreComplete` | `Whole`: the program that is left is a part that clears the cluster, with a wait ahead for whatever is still there, and a part that builds, in which each part of the installation is still to be made or stands (`Razing`, `Raising`); between commands nothing has disturbed, the cluster is empty, has the legacy controller, or holds all that some options ask for.  So what `match` leaves alone is complete, and made of the same two deployments as the command's own (`MatchTells`, from the tag, the service type, the hash and, by `TagsTell`, the etcd options).  Assumes `TagsTell` |
| `LogStreamerProofs` | `SignalReachesAll` | the invariant says who answers for a registered reader's stream: before the signal it is open and has a callback, during the signal the callbacks left to call include its own, after it the stream is closed |
| `LogStreamerProofs` | `DrainLeavesNothing` | the counter the handler waits for is the number of readers that may still send (a finite set, whose cardinality changes by one), so a channel drained at zero stays empty of lines |
| `LogStreamerProofs` | `AnswersAreComplete` | `FlowInv` follows the lines of each pod: what the client has, then what the channel holds, then what the reader holds are together the matching lines up to the one read last, in order; with the channel empty and the readers out, the client has them all.  "In order, each once" is said of indices (`Matching`), so that no induction over the sequence is needed |

Each `Invariance` theorem is `Spec => []IInv`, proved with one step per action; the
invariant proper is a conjunct or a consequence of `IInv`, and is not inductive alone
because it says nothing of the values a process carries between two of its steps.  The
constants are arbitrary up to the named `ASSUME`s of the modules, which TLC evaluates in
every run.  For `StackController` the types proved are those of the variables that carry
stacks, and for `LogStreamer` and `Installer` those the argument needs; for the other
five modules `TypeOK` is part of `IInv`, which is why their runs do not repeat it.

The hypotheses that a theorem has beyond the modules' assumptions are the conditions the
section on what the properties leave out gives, and the runs' constants meet them.

Only model-checked:

* all liveness, for which the prover has no rule of fairness;
* everything about the conversion (`HistoryFree`, `PlacementAsWritten`,
  `ReachableAsWritten` and the others of `StackPipeline`), which folds over lists and so
  would need induction over data.

## Not modelled

* *Contents that nothing tells apart*: the fields of a service that every conversion
  copies, the objects the installer creates but for what a later decision reads, log
  texts, tables and messages of the API.  They are one value or left out.
* *Generated code*: clients, listers, informers and deep copies forward calls or copy
  structures.  The generated conversions are modelled, as `Versions`.
* *Libraries*: the compose loader, the generic API server and its storage, the client
  library's informers and the Kubernetes controllers are external, modelled as far as the
  code's use of them shows.
* *Time*: a pause or a timeout ends at some time.  So the factor of `wait.Jitter` in the
  owner cache (`stackownercache.go:120`), which lets a pause grow far beyond the second
  it starts from, shows in no property.
* *Deletion through the registry*, which is the generic store's; collisions with the
  objects of other stacks, which are a request refused.
* *The benchmark and the recorder of test cases* drive the system from outside, and the
  controller's health endpoint and command line have no state.
* *CRDCRD and the modes of Backup that no caller uses.*
