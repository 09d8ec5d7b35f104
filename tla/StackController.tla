--------------------------- MODULE StackController ---------------------------
(***************************************************************************)
(* The Compose controller for one stack, with the API server it works      *)
(* against: the stack and its children in etcd, the two informers with     *)
(* their watch and notification lag, the owner cache, the three queues,    *)
(* and the single reconciler goroutine of internal/controller.             *)
(*                                                                         *)
(* A resource version is not kept as a number: a copy of an object is      *)
(* either current or not, so `heldFresh` (the stack the reconciler read)   *)
(* and the `fresh` field of a planned child update say whether the API     *)
(* server will accept a conditional write.  A generation and the           *)
(* expected-generation annotation of a child are kept as one bit: whether  *)
(* they match (module ExpectedGeneration has the numbers).                 *)
(***************************************************************************)
EXTENDS Naturals, Sequences

CONSTANTS
    Services,       \* the compose services a stack may have
    Configs,        \* the configurations of a service
    UserSpecs,      \* the specs users write: a configuration or None per service
    Users,          \* who creates, updates and deletes stacks
    None,           \* absent
    MaxCopies,      \* bound on the copies of the key told apart in a queue
    MaxLag,         \* bound on the child events a children informer is behind
                    \* when Kubernetes changes the child once more
    MaxNotif,       \* bound on the handler calls the stack informer owes when it
                    \* applies another event
    Scenarios       \* the bounds of the behaviours: how many creations of the
                    \* stack (its incarnations), user updates, deletions in the
                    \* background and in the foreground, third-party changes to a
                    \* child, failing API calls of the controller, restarts of it
                    \* and watch losses with a relist; how many of these events
                    \* together, creations left aside; the specs users create and
                    \* update the stack with; and whether a service may go back to an
                    \* earlier configuration

Scenario == [stacks : Nat, updates : Nat, deletions : Nat, foreground : Nat,
             drifts : Nat, failures : Nat, restarts : Nat, relists : Nat,
             events : Nat, first : SUBSET UserSpecs, specs : SUBSET UserSpecs,
             reverts : BOOLEAN]

ASSUME StackControllerAssumption ==
    /\ Services # {} /\ Configs # {} /\ Users # {}
    /\ None \notin Configs \cup Users
    /\ UserSpecs \subseteq [Services -> Configs \cup {None}]
    /\ MaxCopies \in Nat \ {0} /\ MaxLag \in Nat \ {0} /\ MaxNotif \in Nat \ {0}
    /\ Scenarios \subseteq Scenario

VARIABLES
    stack,          \* the stack in etcd, or None
    watch,          \* stack versions the informer has not applied yet
    store,          \* the informer's copy of the stack, or None
    notif,          \* handler calls the informer still owes the StackListener
    cache,          \* the stackOwnerCache entry, or None
    reconcileQueue, \* copies of the key in the reconcile queue
    retryQueue,     \* copies in the retry queue, sleeping goroutines included
    deletionQueue,  \* how many deleted stacks wait for the reconciler
    child,          \* the children in the API server: one workload per service
    childWatch,     \* child versions the children informers have not applied
    children,       \* the children informers' indexers
    labelled,       \* which of Labelled exist with the stack's name as their label
    pc, held, heldFresh, user, plan, err,   \* the reconciler goroutine
    budget,         \* what is left of each bound of the scenario
    written,        \* history: configurations already given to a service
    resolved        \* history: the owner was looked up since the stack was created
                    \* and the controller started

apiVars == <<stack, watch, labelled>>
ownerVars == <<cache, resolved>>
informerVars == <<store, notif>>
queueVars == <<reconcileQueue, retryQueue, deletionQueue>>
childVars == <<child, childWatch, children>>
recVars == <<pc, held, heldFresh, user, plan, err>>
vars == <<apiVars, informerVars, ownerVars, queueVars, childVars, recVars, budget, written>>

\* The secrets and the config maps of a stack.
Labelled == {"secrets", "configMaps"}
SpecSet == [Services -> Configs \cup {None}]
Failures == {"conflict", "exists", "notfound", "api", "nospec"}
Phases == {"pending", "progressing", "available"} \cup Failures
StackSet == [uid : Nat, spec : SpecSet, owner : Users,
             phase : Phases, deleting : BOOLEAN]
ChildSet == [cfg : Configs, exp : BOOLEAN, uid : Nat,
             ready : BOOLEAN, term : BOOLEAN]
NoPlan == [op |-> "none", cfg |-> None, fresh |-> FALSE]
PlanSet == [op : {"none", "add", "update", "delete"},
            cfg : Configs \cup {None}, fresh : BOOLEAN]

ASSUME NoneAssumption ==
    None \notin Failures /\ None \notin [owner : Users, dirty : BOOLEAN]

Init ==
    /\ stack = None /\ watch = <<>> /\ store = None /\ notif = <<>>
    /\ cache = None
    /\ reconcileQueue = 0 /\ retryQueue = 0 /\ deletionQueue = 0
    /\ child = [w \in Services |-> None]
    /\ childWatch = [w \in Services |-> <<>>]
    /\ children = [w \in Services |-> None]
    /\ labelled = {} /\ resolved = FALSE
    /\ pc = "select" /\ held = None /\ heldFresh = FALSE /\ user = None
    /\ plan = [w \in Services |-> NoPlan] /\ err = None
    /\ \E sc \in Scenarios :
          budget = [of |-> sc, stacks |-> sc.stacks, updates |-> sc.updates,
                    deletions |-> sc.deletions, foreground |-> sc.foreground,
                    drifts |-> sc.drifts, failures |-> sc.failures,
                    restarts |-> sc.restarts, relists |-> sc.relists, events |-> sc.events]
    /\ written = {}
-----------------------------------------------------------------------------
(* Helpers.                                                                *)

Spend(b) ==
    /\ budget[b] > 0
    /\ IF b = "stacks" THEN budget' = [budget EXCEPT ![b] = @ - 1]
       ELSE /\ budget.events > 0
            /\ budget' = [budget EXCEPT ![b] = @ - 1, !.events = @ - 1]

Spent(b) == budget[b] < budget.of[b]

\* convert.IsStackDirty: the stack is pending reconciliation or has failed.
IsStackDirty(s) == s.phase = "pending" \/ s.phase \in Failures

\* A send on a deduplicating channel: it waits as another copy, or is merged
\* with one that waits (CoalescingQueue).
PushTo(n, m) ==
    \/ n < MaxCopies /\ m = n + 1
    \/ n > 0 /\ m = n

\* Every write of the stack reaches the informer as a watch event, and makes
\* the reconciler's copy outdated.
WriteStack(s) ==
    /\ stack' = s
    /\ watch' = Append(watch, s)
    /\ heldFresh' = FALSE

\* Likewise for a child and the update planned for it.
WriteChild(w, c) ==
    /\ child' = [child EXCEPT ![w] = c]
    /\ childWatch' = [childWatch EXCEPT ![w] = Append(@, c)]

Outdate(p, w) == [p EXCEPT ![w].fresh = FALSE]
-----------------------------------------------------------------------------
(* Users.  The strategy of internal/registry records who wrote the stack   *)
(* and marks it pending when its spec, owner included, changed.            *)

\* Without reverts no service is given a configuration it had before.
Writable(old, sp) ==
    budget.of.reverts \/ \A w \in Services : sp[w] \in {old[w], None} \/ <<w, sp[w]>> \notin written

Record(sp) == written' = written \cup {<<w, sp[w]>> : w \in Services}

\* The user also creates the secrets and config maps the stack uses, labelled
\* with its name.
CreateStack(u, sp) ==
    /\ stack = None
    /\ Spend("stacks") /\ sp \in budget.of.first
    /\ Writable([w \in Services |-> None], sp) /\ Record(sp)
    /\ WriteStack([uid |-> budget.stacks, spec |-> sp, owner |-> u,
                   phase |-> "pending", deleting |-> FALSE])
    /\ labelled' = Labelled /\ resolved' = FALSE
    /\ UNCHANGED <<informerVars, cache, queueVars, childVars, pc, held, user, plan, err>>

\* A user's update is a read-modify-write or unconditional; either way it
\* carries the status along, and PrepareForUpdate resets it.
UpdateStack(u, sp) ==
    /\ stack # None
    /\ Spend("updates") /\ sp \in budget.of.specs
    /\ <<u, sp>> # <<stack.owner, stack.spec>>
    /\ Writable(stack.spec, sp) /\ Record(sp)
    /\ WriteStack([stack EXCEPT !.spec = sp, !.owner = u, !.phase = "pending"])
    /\ UNCHANGED <<labelled, informerVars, ownerVars, queueVars, childVars, pc, held, user, plan, err>>

\* Background deletion: the stack goes at once.
DeleteStack ==
    /\ stack # None /\ ~stack.deleting
    /\ Spend("deletions")
    /\ WriteStack(None)
    /\ UNCHANGED <<labelled, informerVars, ownerVars, queueVars, childVars, pc, held, user, plan, err, written>>

\* Foreground deletion: the stack stays until its dependents are gone.
DeleteStackForeground ==
    /\ stack # None /\ ~stack.deleting
    /\ Spend("foreground")
    /\ WriteStack([stack EXCEPT !.deleting = TRUE])
    /\ UNCHANGED <<labelled, informerVars, ownerVars, queueVars, childVars, pc, held, user, plan, err, written>>
-----------------------------------------------------------------------------
(* Kubernetes: the garbage collector, the workload controllers and third   *)
(* parties, as far as the controller can tell.                             *)

ExternalChild(w, c) ==
    /\ Len(childWatch[w]) < MaxLag
    /\ WriteChild(w, c)
    /\ plan' = Outdate(plan, w)
    /\ UNCHANGED <<apiVars, informerVars, ownerVars, queueVars, children, pc, held,
                   heldFresh, user, err>>

\* A workload becomes ready.
BecomeReady(w) ==
    /\ child[w] # None /\ ~child[w].ready /\ ~child[w].term
    /\ ExternalChild(w, [child[w] EXCEPT !.ready = TRUE])
    /\ UNCHANGED <<budget, written>>

\* Somebody else edits a workload: its generation moves on.
Drift(w, c) ==
    /\ child[w] # None /\ child[w].cfg # c
    /\ Spend("drifts")
    /\ budget.of.reverts \/ <<w, c>> \notin written
    /\ written' = written \cup {<<w, c>>}
    /\ ExternalChild(w, [child[w] EXCEPT !.cfg = c, !.exp = FALSE, !.ready = FALSE])

\* The collector deletes a child whose owner reference names a stack that is
\* gone or is being deleted in the foreground, and completes a foreground
\* deletion of the child itself.
Collect(w) ==
    /\ child[w] # None
    /\ \/ child[w].term
       \/ stack = None
       \/ stack # None /\ (stack.uid # child[w].uid \/ stack.deleting)
    /\ ExternalChild(w, None)
    /\ UNCHANGED <<budget, written>>

\* A foreground deletion ends when no dependent is left.
FinishForeground ==
    /\ stack # None /\ stack.deleting
    /\ {w \in Services : child[w] # None /\ child[w].uid = stack.uid} = {}
    /\ WriteStack(None)
    /\ UNCHANGED <<labelled, informerVars, ownerVars, queueVars, childVars, pc, held, user,
                   plan, err, budget, written>>
-----------------------------------------------------------------------------
(* The informers and the listeners.                                        *)

Event(s) == IF s = None THEN "delete" ELSE "update"

\* The informer applies a watch event to its store, and queues the call of
\* the handler: the store is ahead of the handler.
StackWatch ==
    /\ watch # <<>> /\ Len(notif) < MaxNotif
    /\ store' = Head(watch) /\ watch' = Tail(watch)
    /\ notif' = Append(notif, Event(Head(watch)))
    /\ UNCHANGED <<stack, labelled, ownerVars, queueVars, childVars, recVars, budget, written>>

\* The watch is lost and the informer lists again: what happened in between
\* is seen as one change, and a deletion as a tombstone with the last known
\* state.
Relist ==
    /\ watch # <<>>
    /\ Spend("relists")
    /\ store' = stack /\ watch' = <<>>
    /\ notif' = IF store = None /\ stack = None THEN notif
                ELSE Append(notif, Event(stack))
    /\ UNCHANGED <<stack, labelled, ownerVars, queueVars, childVars, recVars, written>>

\* The resync timer calls onUpdate for a stack in the store.  It need not be
\* told apart from a call that is still to come.
Resync ==
    /\ store # None
    /\ notif = <<>> /\ reconcileQueue = 0
    /\ notif' = <<"update">>
    /\ UNCHANGED <<apiVars, store, ownerVars, queueVars, childVars, recVars, budget, written>>

setDirty == IF cache = None THEN None ELSE [cache EXCEPT !.dirty = TRUE]

onUpdate_NoPush ==
    /\ notif # <<>> /\ Head(notif) = "update"
    /\ notif' = Tail(notif)
    /\ cache' = setDirty /\ UNCHANGED resolved
    /\ UNCHANGED <<apiVars, store, queueVars, childVars, recVars, budget, written>>

\* StackListener.onAdd and onUpdate.
onUpdate ==
    /\ notif # <<>> /\ Head(notif) = "update"
    /\ notif' = Tail(notif)
    /\ cache' = setDirty /\ UNCHANGED resolved
    /\ PushTo(reconcileQueue, reconcileQueue')
    /\ UNCHANGED <<apiVars, store, retryQueue, deletionQueue, childVars, recVars, budget, written>>

onDelete_RemovesOwner ==
    /\ notif # <<>> /\ Head(notif) = "delete"
    /\ notif' = Tail(notif)
    /\ deletionQueue' = deletionQueue + 1
    /\ cache' = None
    /\ UNCHANGED <<apiVars, store, resolved, reconcileQueue, retryQueue, childVars, recVars, budget, written>>

\* StackListener.onDelete: the cache entry stays.
onDelete ==
    /\ notif # <<>> /\ Head(notif) = "delete"
    /\ notif' = Tail(notif)
    /\ deletionQueue' = deletionQueue + 1
    /\ UNCHANGED <<apiVars, store, ownerVars, reconcileQueue, retryQueue, childVars, recVars, budget, written>>

\* A children informer applies an event; ChildrenListener.onEvent pushes the
\* key of the stack.
ChildEvent(w) ==
    /\ childWatch[w] # <<>>
    /\ children' = [children EXCEPT ![w] = Head(childWatch[w])]
    /\ childWatch' = [childWatch EXCEPT ![w] = Tail(@)]
    /\ PushTo(reconcileQueue, reconcileQueue')
    /\ UNCHANGED <<apiVars, informerVars, ownerVars, retryQueue, deletionQueue, child,
                   recVars, budget, written>>
-----------------------------------------------------------------------------
(* The reconciler goroutine: StackReconciler.Start's select loop.          *)

environment == <<apiVars, informerVars, budget, written>>

Idle ==
    /\ pc' = "select" /\ held' = None /\ heldFresh' = FALSE /\ user' = None
    /\ plan' = [w \in Services |-> NoPlan] /\ err' = None

ReadStack_IgnoreDeleting ==
    IF store = None THEN Idle
    ELSE /\ pc' = "getUpdater"
         /\ held' = store
         /\ heldFresh' = (watch = <<>>)
         /\ UNCHANGED <<user, plan, err>>

\* reconcileStack reads the stack from the informer's store: a stack that is
\* not there is ignored, one that is being deleted has its children removed.
ReadStack ==
    IF store = None THEN Idle
    ELSE /\ pc' = IF store.deleting THEN "deleteChildren" ELSE "getUpdater"
         /\ held' = IF store.deleting THEN None ELSE store
         /\ heldFresh' = (~store.deleting /\ watch = <<>>)
         /\ UNCHANGED <<user, plan, err>>

TakeKey ==
    /\ pc = "select" /\ reconcileQueue > 0
    /\ reconcileQueue' = reconcileQueue - 1
    /\ ReadStack
    /\ UNCHANGED <<environment, ownerVars, retryQueue, deletionQueue, childVars>>

TakeRetry ==
    /\ pc = "select" /\ retryQueue > 0
    /\ retryQueue' = retryQueue - 1
    /\ ReadStack
    /\ UNCHANGED <<environment, ownerVars, reconcileQueue, deletionQueue, childVars>>

TakeDeletion ==
    /\ pc = "select" /\ deletionQueue > 0
    /\ deletionQueue' = deletionQueue - 1
    /\ pc' = "deleteChildren"
    /\ UNCHANGED <<environment, ownerVars, reconcileQueue, retryQueue, childVars,
                   held, heldFresh, user, plan, err>>

\* getUpdater resolves the user to impersonate.  getWithError holds the mutex
\* of the cache from the check to the store, which makes it one step
\* (StackOwnerCache).  The entry is good enough, or the owner subresource is
\* asked: it answers, and the entry is clean again; or the stack is gone, and
\* the dirty entry is used.
GoodEntry(acceptDirty) == cache # None /\ (~cache.dirty \/ acceptDirty)

ResolveOwner(acceptDirty) ==
    /\ \/ /\ GoodEntry(acceptDirty)
          /\ user' = cache.owner
          /\ UNCHANGED cache
       \/ /\ ~GoodEntry(acceptDirty) /\ stack # None
          /\ user' = stack.owner
          /\ cache' = [owner |-> stack.owner, dirty |-> FALSE]
       \/ /\ ~GoodEntry(acceptDirty) /\ stack = None /\ cache # None
          /\ user' = cache.owner
          /\ UNCHANGED cache
    /\ resolved' = TRUE
    /\ UNCHANGED budget

\* The stack is gone and nothing is cached, or four attempts have failed: the
\* reconciler logs the error and goes back to its queues.
OwnerError(acceptDirty) ==
    /\ \/ cache = None /\ stack = None /\ UNCHANGED budget
       \/ ~GoodEntry(acceptDirty) /\ Spend("failures")
    /\ Idle
    /\ UNCHANGED ownerVars

GetUpdater ==
    /\ pc = "getUpdater"
    /\ \/ /\ ResolveOwner(~IsStackDirty(held))
          /\ pc' = "reconcileChildren"
          /\ UNCHANGED <<held, heldFresh, plan, err>>
       \/ OwnerError(~IsStackDirty(held))
    /\ UNCHANGED <<apiVars, informerVars, queueVars, childVars, written>>

Desired_AnyGeneration(w) ==
    IF held.spec[w] # None /\ ~IsStackDirty(held) /\ children[w] # None
    THEN children[w].cfg ELSE held.spec[w]

\* convert.StackToStack for one service: a clean stack keeps a workload whose
\* generation is the expected one, whatever its content.
Desired(w) ==
    IF held.spec[w] # None /\ ~IsStackDirty(held) /\ children[w] # None /\ children[w].exp
    THEN children[w].cfg ELSE held.spec[w]

\* diff.ComputeDiff for one service; an update carries the resource version
\* of the copy in the indexer.
Diff(w, desired) ==
    LET Plan(op) == [op |-> op, cfg |-> desired, fresh |-> op = "update" /\ childWatch[w] = <<>>]
    IN  CASE children[w] = None /\ desired = None -> NoPlan
          [] children[w] = None /\ desired # None -> Plan("add")
          [] children[w] # None /\ desired = None -> Plan("delete")
          [] children[w] # None /\ desired = children[w].cfg -> NoPlan
          [] OTHER -> Plan("update")

Settled(p) == \A w \in Services : p[w].op = "none"

\* reconcileChildren up to the diff.  A stack without services is an error.
ComputeChildren ==
    /\ pc = "reconcileChildren"
    /\ IF \A w \in Services : held.spec[w] = None
       THEN err' = "nospec" /\ pc' = "reconcileStatus" /\ UNCHANGED plan
       ELSE /\ plan' = [w \in Services |-> Diff(w, Desired(w))]
            /\ pc' = IF Settled(plan') THEN "reconcileStatus" ELSE "applyStackDiff"
            /\ UNCHANGED err
    /\ UNCHANGED <<environment, ownerVars, queueVars, childVars, held, heldFresh, user>>

\* applyStackDiff deletes, then creates, then updates, one call at a time.
Rank(op) == CASE op = "delete" -> 1 [] op = "add" -> 2 [] op = "update" -> 3 [] OTHER -> 4
IsNext(w) == /\ plan[w].op # "none"
             /\ \A v \in Services : Rank(plan[w].op) <= Rank(plan[v].op)

NewChild_FirstOwner(w) == [cfg |-> plan[w].cfg, exp |-> TRUE, uid |-> 1,
                           ready |-> FALSE, term |-> FALSE]

NewChild(w) == [cfg |-> plan[w].cfg, exp |-> TRUE, uid |-> held.uid,
                ready |-> FALSE, term |-> FALSE]

IsLive(c) == c # None /\ ~c.term

\* What the API server makes of the planned call for w: a deletion of what is
\* gone, or going, is no error.
CallSucceeds(w) ==
    \/ plan[w].op = "add" /\ child[w] = None /\ WriteChild(w, NewChild(w))
    \/ plan[w].op = "update" /\ child[w] # None /\ plan[w].fresh
       /\ WriteChild(w, [NewChild(w) EXCEPT !.term = child[w].term])
    \/ plan[w].op = "delete" /\ IsLive(child[w])
       /\ WriteChild(w, [child[w] EXCEPT !.term = TRUE])
    \/ plan[w].op = "delete" /\ ~IsLive(child[w]) /\ UNCHANGED <<child, childWatch>>

CallError(w) ==
    CASE plan[w].op = "add" /\ child[w] # None -> "exists"
      [] plan[w].op = "update" /\ child[w] = None -> "notfound"
      [] plan[w].op = "update" /\ child[w] # None /\ ~plan[w].fresh -> "conflict"
      [] OTHER -> None

\* One call of applyStackDiff for reconcileChildren.  The first error ends it;
\* a conflict is also retried, through a goroutine that sleeps for a second.
ApplyOne(w) ==
    /\ pc = "applyStackDiff" /\ IsNext(w)
    /\ \/ /\ CallSucceeds(w)
          /\ plan' = [plan EXCEPT ![w] = NoPlan]
          /\ pc' = IF Settled(plan') THEN "reconcileStatus" ELSE pc
          /\ UNCHANGED <<err, retryQueue, budget>>
       \/ /\ \/ CallError(w) # None /\ err' = CallError(w) /\ UNCHANGED budget
             \/ Spend("failures") /\ err' = "api"
          /\ plan' = [v \in Services |-> NoPlan]
          /\ pc' = "reconcileStatus"
          /\ IF err' = "conflict" THEN PushTo(retryQueue, retryQueue') ELSE UNCHANGED retryQueue
          /\ UNCHANGED <<child, childWatch>>
    /\ UNCHANGED <<apiVars, informerVars, ownerVars, reconcileQueue, deletionQueue, children,
                   held, heldFresh, user, written>>

NewPhase_IgnoreError ==
    IF \A w \in Services :
            held.spec[w] # None => children[w] # None /\ children[w].ready
    THEN "available" ELSE "progressing"

\* reconcileStatus: the failure, or generateStatus from the indexers.
NewPhase ==
    CASE err # None -> err
      [] err = None /\ \A w \in Services :
            held.spec[w] # None => children[w] # None /\ children[w].ready -> "available"
      [] OTHER -> "progressing"

\* The strategy on the status update: the impersonated user becomes the owner,
\* and a change of owner is a change of the spec.
StatusWritten ==
    WriteStack([held EXCEPT !.owner = user,
                            !.phase = IF stack.owner = user THEN NewPhase ELSE "pending"])

UpdateStatus_NoVersion ==
    /\ pc = "reconcileStatus"
    /\ \/ NewPhase = held.phase /\ UNCHANGED <<stack, watch>>
       \/ NewPhase # held.phase /\ stack # None /\ StatusWritten
    /\ Idle
    /\ UNCHANGED <<labelled, informerVars, ownerVars, queueVars, childVars, budget, written>>

\* updateStackStatus: nothing to write, a write with the resource version that
\* was read, or an error, of which only a conflict is retried.
UpdateStatus ==
    /\ pc = "reconcileStatus"
    /\ \/ /\ NewPhase = held.phase
          /\ UNCHANGED <<stack, watch, retryQueue, budget>>
       \/ /\ NewPhase # held.phase /\ heldFresh
          /\ StatusWritten
          /\ UNCHANGED <<retryQueue, budget>>
       \/ /\ NewPhase # held.phase /\ ~heldFresh /\ stack # None
          /\ PushTo(retryQueue, retryQueue')
          /\ UNCHANGED <<stack, watch, budget>>
       \/ /\ NewPhase # held.phase /\ stack = None
          /\ UNCHANGED <<stack, watch, retryQueue, budget>>
       \/ /\ NewPhase # held.phase /\ Spend("failures")
          /\ UNCHANGED <<stack, watch, retryQueue>>
    /\ Idle
    /\ UNCHANGED <<labelled, informerVars, ownerVars, reconcileQueue, deletionQueue, childVars, written>>

\* deleteStackChildren reads the children before it resolves the user.
ListChildren ==
    /\ pc = "deleteChildren"
    /\ plan' = [w \in Services |-> Diff(w, None)]
    /\ pc' = "deleteUpdater"
    /\ UNCHANGED <<environment, ownerVars, queueVars, childVars, held, heldFresh, user, err>>

\* Here any entry of the cache will do.
DeletionUpdater ==
    /\ pc = "deleteUpdater"
    /\ \/ /\ ResolveOwner(TRUE)
          /\ pc' = IF Settled(plan) THEN "deleteSecrets" ELSE "deleteDiff"
          /\ UNCHANGED <<held, heldFresh, plan, err>>
       \/ OwnerError(TRUE)
    /\ UNCHANGED <<apiVars, informerVars, queueVars, childVars, written>>

DeleteOne(w) ==
    /\ pc = "deleteDiff" /\ IsNext(w)
    /\ \/ /\ CallSucceeds(w)
          /\ plan' = [plan EXCEPT ![w] = NoPlan]
          /\ pc' = IF Settled(plan') THEN "deleteSecrets" ELSE pc
          /\ UNCHANGED <<held, heldFresh, user, err, budget>>
       \/ /\ Spend("failures") /\ Idle
          /\ UNCHANGED <<child, childWatch>>
    /\ UNCHANGED <<apiVars, informerVars, ownerVars, queueVars, children, written>>

\* A DeleteCollection by the label with the stack's name.  When that is
\* forbidden, the names in the spec are deleted one by one and an error there
\* ends the pass, with the owner still cached; any other error is dropped.
DeleteCollection(kind, next) ==
    /\ \/ /\ labelled' = labelled \ {kind}
          /\ pc' = next
          /\ UNCHANGED <<budget, held, heldFresh, user, plan, err>>
       \/ /\ Spend("failures")
          /\ \/ pc' = next /\ UNCHANGED <<held, heldFresh, user, plan, err>>
             \/ Idle
          /\ UNCHANGED labelled
    /\ UNCHANGED <<stack, watch, informerVars, ownerVars, queueVars, childVars, written>>

\* deleteSecretsAndConfigMaps, call by call.
DeleteSecrets == pc = "deleteSecrets" /\ DeleteCollection("secrets", "deleteConfigMaps")
DeleteConfigMaps == pc = "deleteConfigMaps" /\ DeleteCollection("configMaps", "removeOwner")

\* ownerCache.remove, the last thing deleteStackChildren does.
RemoveOwner ==
    /\ pc = "removeOwner"
    /\ cache' = None
    /\ Idle
    /\ UNCHANGED <<apiVars, informerVars, resolved, queueVars, childVars, budget, written>>

\* The process dies and is started again: the children are synced first, then
\* every stack in the API server is added.
Restart ==
    /\ Spend("restarts")
    /\ store' = stack /\ watch' = <<>>
    /\ notif' = IF stack = None THEN <<>> ELSE <<"update">>
    /\ cache' = None /\ resolved' = FALSE
    /\ reconcileQueue' = 0 /\ retryQueue' = 0 /\ deletionQueue' = 0
    /\ children' = child /\ childWatch' = [w \in Services |-> <<>>]
    /\ Idle
    /\ UNCHANGED <<stack, labelled, child, written>>
-----------------------------------------------------------------------------
UserOperation ==
    \/ \E u \in Users, sp \in UserSpecs : CreateStack(u, sp) \/ UpdateStack(u, sp)
    \/ DeleteStack
    \/ DeleteStackForeground

Kubernetes == \E w \in Services : BecomeReady(w) \/ Collect(w)

Listeners == StackWatch \/ onUpdate \/ onDelete \/ \E w \in Services : ChildEvent(w)

ReconcilerStep ==
    \/ GetUpdater \/ ComputeChildren \/ UpdateStatus
    \/ ListChildren \/ DeletionUpdater \/ DeleteSecrets \/ DeleteConfigMaps \/ RemoveOwner
    \/ \E w \in Services : ApplyOne(w) \/ DeleteOne(w)

Next ==
    \/ UserOperation
    \/ Kubernetes
    \/ \E w \in Services, c \in Configs : Drift(w, c)
    \/ FinishForeground
    \/ Listeners
    \/ Relist
    \/ Resync
    \/ TakeKey \/ TakeRetry \/ TakeDeletion
    \/ ReconcilerStep
    \/ Restart

Spec == Init /\ [][Next]_vars

\* Informers deliver, the resync timer fires, Kubernetes does its work, and
\* the goroutine runs.  Go's select chooses among the ready cases at random:
\* a queue that is ready again and again is served.
FairSpec ==
    /\ Spec
    /\ WF_vars(Kubernetes \/ FinishForeground \/ \E w \in Services : ChildEvent(w))
    /\ WF_vars(StackWatch) /\ WF_vars(onUpdate \/ onDelete)
    /\ WF_vars(Resync)
    /\ SF_vars(TakeKey \/ TakeRetry) /\ SF_vars(TakeDeletion)
    /\ WF_vars(ReconcilerStep)
-----------------------------------------------------------------------------
BudgetSet == [of : Scenario, stacks : Nat, updates : Nat, deletions : Nat,
              foreground : Nat, drifts : Nat, failures : Nat, restarts : Nat,
              relists : Nat, events : Nat]
MaybeStack == StackSet \cup {None}
MaybeChild == ChildSet \cup {None}

\* The type of every variable.
TypeOK ==
    /\ stack \in MaybeStack /\ store \in MaybeStack /\ held \in MaybeStack
    /\ watch \in Seq(MaybeStack)
    /\ notif \in Seq({"update", "delete"})
    /\ cache \in [owner : Users, dirty : BOOLEAN] \cup {None}
    /\ reconcileQueue \in 0..MaxCopies /\ retryQueue \in 0..MaxCopies
    /\ deletionQueue \in Nat
    /\ child \in [Services -> MaybeChild] /\ children \in [Services -> MaybeChild]
    /\ childWatch \in [Services -> Seq(MaybeChild)]
    /\ labelled \subseteq Labelled /\ resolved \in BOOLEAN
    /\ pc \in {"select", "getUpdater", "reconcileChildren", "applyStackDiff", "reconcileStatus",
               "deleteChildren", "deleteUpdater", "deleteDiff", "deleteSecrets", "deleteConfigMaps",
               "removeOwner"}
    /\ heldFresh \in BOOLEAN /\ user \in Users \cup {None}
    /\ plan \in [Services -> PlanSet] /\ err \in Failures \cup {None}
    /\ budget \in BudgetSet
    /\ written \subseteq Services \X (Configs \cup {None})

\* No user's spec is ever replaced by the controller's status updates, which
\* write back the whole stack: a spec changes only in a user's operation.
SpecOnlyByUsers ==
    [][stack # None /\ stack' # None /\ stack.spec # stack'.spec
         => budget'.updates < budget.updates]_vars

\* docs/architecture.md: the API server records the user on creations and
\* updates, and the controller impersonates that user.  So the owner changes
\* only in a user's operation.
OwnerOnlyByUsers ==
    [][stack # None /\ stack' # None /\ stack.owner # stack'.owner
         => budget'.updates < budget.updates]_vars

\* A stack that is not dirty has its workloads as its spec says, unless the
\* generation of a workload shows that somebody else changed it.  The skip in
\* toStackResources relies on it.
CleanIsApplied ==
    stack # None /\ ~IsStackDirty(stack)
        => \A w \in Services :
              child[w] # None /\ child[w].exp /\ stack.spec[w] # None
                => child[w].cfg = stack.spec[w]

\* A stack waiting for reconciliation has a wake-up on its way, unless a call
\* to the API server failed for another reason than a conflict (then the
\* resync timer is what is left).
PendingIsScheduled ==
    stack # None /\ ~stack.deleting /\ stack.phase = "pending" /\ ~Spent("failures")
        => \/ watch # <<>> \/ notif # <<>>
           \/ reconcileQueue > 0 \/ retryQueue > 0
           \/ pc # "select"

\* The children and the status of a stack are as its spec wants them, the
\* children of a deleted stack are gone, so are its secrets and config maps unless
\* its owner was never looked up or a call failed, and a deletion in the foreground
\* has come to its end.
Converged ==
    /\ stack = None => \A w \in Services : child[w] = None
    /\ stack = None /\ labelled # {} => ~resolved \/ Spent("failures")
    /\ stack # None =>
          IF \A w \in Services : stack.spec[w] = None THEN stack.phase = "nospec" /\ ~stack.deleting
          ELSE /\ stack.phase = "available" /\ ~stack.deleting
               /\ \A w \in Services :
                    IF stack.spec[w] = None THEN child[w] = None
                    ELSE /\ child[w] # None /\ ~child[w].term
                         /\ child[w].cfg = stack.spec[w] /\ child[w].uid = stack.uid

\* Once users, third parties and failures are quiet the stack converges, in
\* spite of stale informers, conflicts, restarts and lost watches.
Converges == <>[]Converged

\* A pass of deleteStackChildren is under way, or a call of onDelete or an entry
\* of the deletion queue will bring one.
DeletionToCome ==
    \/ deletionQueue > 0
    \/ \E i \in DOMAIN notif : notif[i] = "delete"
    \/ pc \in {"deleteChildren", "deleteUpdater", "deleteDiff", "deleteSecrets", "deleteConfigMaps"}

\* While secrets or config maps of a deleted stack are left, the controller knows
\* whom to impersonate, and their removal is on its way: no lost watch, no stack of
\* the same name that comes and goes and no pass over an older version makes it
\* forget the owner or miss the deletion (onDelete, deleteStackChildren).  Left out
\* are an owner that was not looked up since the controller started, and a call
\* that failed.
LeftoversAreScheduled ==
    stack = None /\ labelled # {} /\ resolved /\ ~Spent("failures")
        => cache # None /\ (watch # <<>> \/ DeletionToCome)
=============================================================================
