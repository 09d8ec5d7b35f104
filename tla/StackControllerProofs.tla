------------------------ MODULE StackControllerProofs ------------------------
(***************************************************************************)
(* Proofs about StackController, for any services, users and bounds:       *)
(*   - the status updates of the controller never change a spec;           *)
(*   - the removal of what a deleted stack leaves behind is scheduled;     *)
(*   - a pending stack always has a pass on its way;                       *)
(*   - a stack whose status is clean runs what its spec says.              *)
(***************************************************************************)
EXTENDS StackController, SequenceTheorems, TLAPS

\* Most leaves are first-order reasoning on sets, functions and records; the
\* ones that need arithmetic, sequences or long case splits ask for SMT.
USE Zenon
USE DEF ownerVars

\* The version of the stack the informer will hold once it has caught up.
CaughtUp == IF watch = <<>> THEN store ELSE watch[Len(watch)]

\* The types of what carries a stack, what the reconciler holds at each place,
\* and the two facts a conditional write rests on: the informer is on its way
\* to the version in etcd, and a copy believed current is that version.
StackTypes ==
    /\ stack \in MaybeStack /\ store \in MaybeStack /\ held \in MaybeStack
    /\ watch \in Seq(MaybeStack)
    /\ cache \in [owner : Users, dirty : BOOLEAN] \cup {None}
    /\ user \in Users \cup {None} /\ err \in Failures \cup {None}
    /\ budget \in BudgetSet
Holding ==
    /\ pc = "getUpdater" => held # None
    /\ pc \in {"reconcileChildren", "applyStackDiff", "reconcileStatus"}
         => held # None /\ user # None
HeldIsCurrent ==
    /\ CaughtUp = stack
    /\ heldFresh => held = stack /\ held # None

IInv == StackTypes /\ Holding /\ HeldIsCurrent

\* A spent budget is a budget.
LEMMA SpendType ==
    ASSUME budget \in BudgetSet,
           NEW b \in {"stacks", "updates", "deletions", "foreground", "drifts",
                      "failures", "restarts", "relists"},
           Spend(b)
    PROVE  budget' \in BudgetSet
<1> USE DEF BudgetSet
<1>1. CASE b = "stacks"     BY <1>1, SMT DEF Spend
<1> DEFINE left == [budget EXCEPT ![b] = @ - 1]
<1>2. ASSUME b # "stacks"
      PROVE  /\ budget' = [left EXCEPT !.events = @ - 1]
             /\ budget[b] > 0 /\ budget.events > 0
  BY <1>2 DEF Spend
<1>3. ASSUME b # "stacks"
      PROVE  left \in BudgetSet /\ left.events = budget.events
  <2>1. CASE b = "updates"
    <3>1. left = [budget EXCEPT !.updates = @ - 1] /\ budget.updates > 0
      BY <1>2, <1>3, <2>1
    <3> QED BY ONLY <3>1, budget \in BudgetSet DEF BudgetSet
  <2>2. CASE b = "deletions"
    <3>1. left = [budget EXCEPT !.deletions = @ - 1] /\ budget.deletions > 0
      BY <1>2, <1>3, <2>2
    <3> QED BY ONLY <3>1, budget \in BudgetSet DEF BudgetSet
  <2>3. CASE b = "foreground"
    <3>1. left = [budget EXCEPT !.foreground = @ - 1] /\ budget.foreground > 0
      BY <1>2, <1>3, <2>3
    <3> QED BY ONLY <3>1, budget \in BudgetSet DEF BudgetSet
  <2>4. CASE b = "drifts"
    <3>1. left = [budget EXCEPT !.drifts = @ - 1] /\ budget.drifts > 0
      BY <1>2, <1>3, <2>4
    <3> QED BY ONLY <3>1, budget \in BudgetSet DEF BudgetSet
  <2>5. CASE b = "failures"
    <3>1. left = [budget EXCEPT !.failures = @ - 1] /\ budget.failures > 0
      BY <1>2, <1>3, <2>5
    <3> QED BY ONLY <3>1, budget \in BudgetSet DEF BudgetSet
  <2>6. CASE b = "restarts"
    <3>1. left = [budget EXCEPT !.restarts = @ - 1] /\ budget.restarts > 0
      BY <1>2, <1>3, <2>6
    <3> QED BY ONLY <3>1, budget \in BudgetSet DEF BudgetSet
  <2>7. CASE b = "relists"
    <3>1. left = [budget EXCEPT !.relists = @ - 1] /\ budget.relists > 0
      BY <1>2, <1>3, <2>7
    <3> QED BY ONLY <3>1, budget \in BudgetSet DEF BudgetSet
  <2> QED BY <1>3, <2>1, <2>2, <2>3, <2>4, <2>5, <2>6, <2>7
<1>4. CASE b # "stacks"
  <2> HIDE DEF left
  <2> QED BY <1>2, <1>3, <1>4, SMT
<1> QED BY <1>1, <1>4

\* A write appends the new version to the watch, and nobody's copy is current.
LEMMA WriteStackFacts ==
    ASSUME StackTypes, NEW s \in MaybeStack, WriteStack(s)
    PROVE  /\ stack' \in MaybeStack
           /\ watch' \in Seq(MaybeStack)
           /\ (UNCHANGED store => CaughtUp' = stack')
           /\ ~heldFresh'
<1>1. watch' = Append(watch, s) /\ stack' = s /\ ~heldFresh'
  BY DEF WriteStack
<1>2. /\ watch' \in Seq(MaybeStack) /\ watch' # <<>>
      /\ watch'[Len(watch')] = s
  BY <1>1, AppendProperties, SMT DEF StackTypes
<1> QED BY <1>1, <1>2 DEF CaughtUp

\* It holds before the first event.
LEMMA InitInv == Init => IInv
<1> SUFFICES ASSUME Init PROVE IInv
  OBVIOUS
<1>1. budget \in BudgetSet
  <2>1. PICK sc \in Scenarios :
          budget = [of |-> sc, stacks |-> sc.stacks, updates |-> sc.updates,
                    deletions |-> sc.deletions, foreground |-> sc.foreground,
                    drifts |-> sc.drifts, failures |-> sc.failures,
                    restarts |-> sc.restarts, relists |-> sc.relists, events |-> sc.events]
    BY DEF Init
  <2>2. sc \in Scenario
    BY StackControllerAssumption
  <2>3. /\ {sc.stacks, sc.updates, sc.deletions, sc.foreground, sc.drifts, sc.failures,
             sc.restarts, sc.relists, sc.events} \subseteq Nat
    BY <2>2 DEF Scenario
  <2> QED BY ONLY <2>1, <2>2, <2>3 DEF BudgetSet
<1>2. StackTypes
  BY <1>1, SMT DEF Init, StackTypes, MaybeStack
<1>3. Holding /\ HeldIsCurrent
  BY DEF Init, Holding, HeldIsCurrent, CaughtUp
<1> QED BY <1>2, <1>3 DEF IInv

\* A write by somebody else keeps the invariant.
LEMMA WriteKeepsInv ==
    ASSUME IInv, NEW s \in MaybeStack, WriteStack(s), budget' \in BudgetSet,
           UNCHANGED <<store, cache, pc, held, user, err>>
    PROVE  IInv'
<1>1. /\ stack' \in MaybeStack /\ watch' \in Seq(MaybeStack)
      /\ CaughtUp' = stack' /\ ~heldFresh'
  BY WriteStackFacts DEF IInv
<1>2. StackTypes'
  BY <1>1 DEF IInv, StackTypes
<1>3. Holding' /\ HeldIsCurrent'
  BY <1>1 DEF IInv, Holding, HeldIsCurrent
<1> QED BY <1>2, <1>3 DEF IInv

\* So does a step that concerns neither the stack nor the reconciler.
LEMMA OtherKeepsInv ==
    ASSUME IInv, UNCHANGED <<stack, watch, store, pc, held, heldFresh, user, err>>,
           budget' \in BudgetSet,
           cache' \in [owner : Users, dirty : BOOLEAN] \cup {None}
    PROVE  IInv'
BY DEF IInv, StackTypes, Holding, HeldIsCurrent, CaughtUp

\* And the end of a pass over the stack.
LEMMA IdleKeepsInv ==
    ASSUME IInv, Idle, budget' \in BudgetSet,
           cache' \in [owner : Users, dirty : BOOLEAN] \cup {None},
           stack' \in MaybeStack, store' \in MaybeStack, watch' \in Seq(MaybeStack),
           CaughtUp' = stack'
    PROVE  IInv'
<1>1. held' = None /\ ~heldFresh' /\ user' = None /\ err' = None /\ pc' = "select"
  BY DEF Idle
<1>2. StackTypes'
  BY <1>1 DEF StackTypes, MaybeStack
<1>3. Holding' /\ HeldIsCurrent'
  BY <1>1 DEF Holding, HeldIsCurrent
<1> QED BY <1>2, <1>3 DEF IInv

\* A user's write leaves the controller's own state alone.
LEMMA UserStep ==
    ASSUME IInv, UserOperation \/ FinishForeground
    PROVE  IInv'
<1> USE StackControllerAssumption
<1>1. ASSUME NEW u \in Users, NEW sp \in UserSpecs, CreateStack(u, sp)
      PROVE  IInv'
  <2>1. budget' \in BudgetSet
    BY <1>1, SpendType DEF CreateStack, IInv, StackTypes
  <2> DEFINE s == [uid |-> budget.stacks, spec |-> sp, owner |-> u,
                   phase |-> "pending", deleting |-> FALSE]
  <2>2. budget.stacks \in Nat
    BY DEF IInv, StackTypes, BudgetSet
  <2>3. s \in MaybeStack
    <3>1. sp \in SpecSet /\ "pending" \in Phases /\ FALSE \in BOOLEAN
      BY DEF SpecSet, Phases
    <3> QED BY <2>2, <3>1 DEF MaybeStack, StackSet
  <2>4. WriteStack(s) /\ UNCHANGED <<store, cache, pc, held, user, err>>
    BY <1>1 DEF CreateStack, informerVars
  <2> HIDE DEF s
  <2> QED BY <2>1, <2>3, <2>4, WriteKeepsInv
<1>2. ASSUME NEW u \in Users, NEW sp \in UserSpecs, UpdateStack(u, sp)
      PROVE  IInv'
  <2>1. budget' \in BudgetSet
    BY <1>2, SpendType DEF UpdateStack, IInv, StackTypes
  <2>2. [stack EXCEPT !.spec = sp, !.owner = u, !.phase = "pending"] \in MaybeStack
    BY <1>2 DEF UpdateStack, IInv, StackTypes, MaybeStack, StackSet, SpecSet, Phases
  <2>3. UNCHANGED <<store, cache, pc, held, user, err>>
    BY <1>2 DEF UpdateStack, informerVars
  <2> QED BY <1>2, <2>1, <2>2, <2>3, WriteKeepsInv DEF UpdateStack
<1>3. CASE DeleteStack
  <2>1. budget' \in BudgetSet
    BY <1>3, SpendType DEF DeleteStack, IInv, StackTypes
  <2>2. None \in MaybeStack /\ UNCHANGED <<store, cache, pc, held, user, err>>
    BY <1>3 DEF DeleteStack, informerVars, MaybeStack
  <2> QED BY <1>3, <2>1, <2>2, WriteKeepsInv DEF DeleteStack
<1>4. CASE DeleteStackForeground
  <2>1. budget' \in BudgetSet
    BY <1>4, SpendType DEF DeleteStackForeground, IInv, StackTypes
  <2>2. [stack EXCEPT !.deleting = TRUE] \in MaybeStack
    BY <1>4 DEF DeleteStackForeground, IInv, StackTypes, MaybeStack, StackSet
  <2>3. UNCHANGED <<store, cache, pc, held, user, err>>
    BY <1>4 DEF DeleteStackForeground, informerVars
  <2> QED BY <1>4, <2>1, <2>2, <2>3, WriteKeepsInv DEF DeleteStackForeground
<1>5. CASE FinishForeground
  <2>1. /\ budget' \in BudgetSet /\ None \in MaybeStack
        /\ UNCHANGED <<store, cache, pc, held, user, err>>
    BY <1>5 DEF FinishForeground, informerVars, MaybeStack, IInv, StackTypes
  <2> QED BY <1>5, <2>1, WriteKeepsInv DEF FinishForeground
<1> QED BY <1>1, <1>2, <1>3, <1>4, <1>5 DEF UserOperation

\* Kubernetes changes children only.
LEMMA KubernetesStep ==
    ASSUME IInv, Kubernetes \/ \E w \in Services, c \in Configs : Drift(w, c)
    PROVE  IInv'
<1>1. ASSUME NEW w \in Services, NEW c, ExternalChild(w, c), budget' \in BudgetSet
      PROVE  IInv'
  <2>1. UNCHANGED <<stack, watch, store, cache, pc, held, heldFresh, user, err>>
    BY <1>1 DEF ExternalChild, apiVars, informerVars
  <2> QED BY <1>1, <2>1, OtherKeepsInv DEF IInv, StackTypes
<1>2. ASSUME NEW w \in Services, BecomeReady(w) \/ Collect(w)
      PROVE  IInv'
  BY <1>1, <1>2 DEF BecomeReady, Collect, IInv, StackTypes
<1>3. ASSUME NEW w \in Services, NEW c \in Configs, Drift(w, c)
      PROVE  IInv'
  <2>1. budget' \in BudgetSet
    BY <1>3, SpendType DEF Drift, IInv, StackTypes
  <2> QED BY <1>1, <1>3, <2>1 DEF Drift
<1> QED BY <1>2, <1>3 DEF Kubernetes

\* The informer only ever moves towards the version in etcd.
LEMMA InformerStep ==
    ASSUME IInv, Listeners \/ Relist \/ Resync \/ Restart
    PROVE  IInv'
<1>1. CASE StackWatch
  <2>1. /\ watch \in Seq(MaybeStack) /\ watch # <<>>
        /\ store' = Head(watch) /\ watch' = Tail(watch)
        /\ UNCHANGED <<stack, cache, pc, held, heldFresh, user, err, budget>>
    BY <1>1 DEF StackWatch, IInv, StackTypes, recVars
  <2>2. store' \in MaybeStack /\ watch' \in Seq(MaybeStack)
    BY <2>1, HeadTailProperties
  <2>3. CaughtUp' = CaughtUp
    <3>1. Len(watch) \in Nat /\ Len(watch) > 0 /\ Len(watch') = Len(watch) - 1
      BY <2>1, HeadTailProperties, EmptySeq, SMT
    <3>2. CASE Len(watch) = 1
      <4>1. watch' = <<>> /\ store' = watch[Len(watch)]
        BY <2>1, <2>2, <3>1, <3>2, EmptySeq, SMT
      <4> QED BY <2>1, <4>1 DEF CaughtUp
    <3>3. CASE Len(watch) > 1
      <4>1. watch' # <<>>
        BY <3>1, <3>3, SMT
      <4>2. \A i \in 1..Len(watch') : watch'[i] = watch[i + 1]
        BY <2>1, HeadTailProperties
      <4>3. watch'[Len(watch')] = watch[Len(watch)]
        BY <3>1, <3>3, <4>2, SMT
      <4> QED BY <2>1, <4>1, <4>3 DEF CaughtUp
    <3> QED BY <3>1, <3>2, <3>3, SMT
  <2>4. StackTypes'
    BY <2>1, <2>2 DEF IInv, StackTypes
  <2> QED BY <2>1, <2>3, <2>4 DEF IInv, Holding, HeldIsCurrent
<1>2. CASE onUpdate
  <2>1. cache' \in [owner : Users, dirty : BOOLEAN] \cup {None}
    <3>1. cache' = setDirty /\ TRUE \in BOOLEAN
      BY <1>2 DEF onUpdate
    <3>2. CASE cache = None
      BY <3>1, <3>2 DEF setDirty
    <3>3. CASE cache # None
      BY <3>1, <3>3 DEF setDirty, IInv, StackTypes
    <3> QED BY <3>2, <3>3
  <2>2. UNCHANGED <<stack, watch, store, pc, held, heldFresh, user, err, budget>>
    BY <1>2 DEF onUpdate, apiVars, recVars
  <2> QED BY <2>1, <2>2, OtherKeepsInv DEF IInv, StackTypes
<1>3. CASE onDelete \/ Resync \/ \E w \in Services : ChildEvent(w)
  <2>1. UNCHANGED <<stack, watch, store, cache, pc, held, heldFresh, user, err, budget>>
    BY <1>3 DEF onDelete, Resync, ChildEvent, apiVars, recVars, informerVars
  <2> QED BY <2>1, OtherKeepsInv DEF IInv, StackTypes
<1>4. CASE Relist
  <2>1. budget' \in BudgetSet
    BY <1>4, SpendType DEF Relist, IInv, StackTypes
  <2>2. /\ store' = stack /\ watch' = <<>>
        /\ UNCHANGED <<stack, cache, pc, held, heldFresh, user, err>>
    BY <1>4 DEF Relist, recVars
  <2>3. StackTypes'
    BY <2>1, <2>2, SMT DEF IInv, StackTypes
  <2> QED BY <2>2, <2>3 DEF IInv, Holding, HeldIsCurrent, CaughtUp
<1>5. CASE Restart
  <2>1. budget' \in BudgetSet
    BY <1>5, SpendType DEF Restart, IInv, StackTypes
  <2>2. Idle /\ store' = stack /\ watch' = <<>> /\ stack' = stack /\ cache' = None
    BY <1>5 DEF Restart
  <2>3. CaughtUp' = stack'
    BY <2>2 DEF CaughtUp
  <2>4. stack' \in MaybeStack /\ store' \in MaybeStack /\ watch' \in Seq(MaybeStack)
    BY <2>2, SMT DEF IInv, StackTypes
  <2> QED BY <2>1, <2>2, <2>3, <2>4, IdleKeepsInv
<1> QED BY <1>1, <1>2, <1>3, <1>4, <1>5 DEF Listeners

\* What the reconciler takes from the store is current exactly when the
\* informer has nothing left to apply.
LEMMA TakeStep ==
    ASSUME IInv, TakeKey \/ TakeRetry \/ TakeDeletion
    PROVE  IInv'
<1>1. CASE TakeKey \/ TakeRetry
  <2>1. ReadStack /\ UNCHANGED <<stack, watch, store, cache, budget>>
    BY <1>1 DEF TakeKey, TakeRetry, environment, apiVars, informerVars
  <2>2. CASE store = None
    <3>1. Idle /\ CaughtUp' = stack'
      BY <2>1, <2>2 DEF ReadStack, IInv, HeldIsCurrent, CaughtUp
    <3> QED BY <2>1, <3>1, IdleKeepsInv DEF IInv, StackTypes
  <2>3. CASE store # None
    <3>1. /\ pc' = IF store.deleting THEN "deleteChildren" ELSE "getUpdater"
          /\ held' = IF store.deleting THEN None ELSE store
          /\ UNCHANGED <<user, err>>
      BY <2>1, <2>3 DEF ReadStack
    <3>2. heldFresh' => ~store.deleting /\ watch = <<>>
      BY <2>1, <2>3 DEF ReadStack
    <3>3. StackTypes'
      BY <2>1, <3>1 DEF IInv, StackTypes, MaybeStack
    <3>4. Holding'
      BY <2>3, <3>1 DEF Holding
    <3>5. HeldIsCurrent'
      BY <2>1, <2>3, <3>1, <3>2 DEF IInv, HeldIsCurrent, CaughtUp
    <3> QED BY <3>3, <3>4, <3>5 DEF IInv
  <2> QED BY <2>2, <2>3
<1>2. CASE TakeDeletion
  <2>1. /\ pc' = "deleteChildren"
        /\ UNCHANGED <<stack, watch, store, cache, budget, held, heldFresh, user, err>>
    BY <1>2 DEF TakeDeletion, environment, apiVars, informerVars
  <2> QED BY <2>1 DEF IInv, StackTypes, Holding, HeldIsCurrent, CaughtUp
<1> QED BY <1>1, <1>2

\* Resolving the owner yields a user, and leaves an entry for a user.
LEMMA ResolveOwnerFacts ==
    ASSUME IInv, NEW a \in BOOLEAN, ResolveOwner(a)
    PROVE  /\ user' \in Users /\ user' # None
           /\ cache' \in [owner : Users, dirty : BOOLEAN] \cup {None}
           /\ UNCHANGED budget
<1> USE StackControllerAssumption DEF IInv, StackTypes
<1>1. CASE cache # None /\ user' = cache.owner /\ UNCHANGED <<cache, budget>>
  BY <1>1
<1>2. CASE /\ stack # None /\ user' = stack.owner /\ UNCHANGED budget
           /\ cache' = [owner |-> stack.owner, dirty |-> FALSE]
  <2>1. stack.owner \in Users /\ FALSE \in BOOLEAN
    BY <1>2 DEF MaybeStack, StackSet
  <2> QED BY <1>2, <2>1
<1> QED BY <1>1, <1>2 DEF ResolveOwner, GoodEntry

\* An owner that is not found ends the pass, and the cache stays as it is.
LEMMA OwnerErrorKeepsInv ==
    ASSUME IInv, NEW a \in BOOLEAN, OwnerError(a), UNCHANGED <<stack, watch, store>>
    PROVE  IInv'
<1>1. Idle /\ UNCHANGED cache
  BY DEF OwnerError
<1>2. budget' \in BudgetSet
  BY SpendType DEF OwnerError, IInv, StackTypes
<1>3. CaughtUp' = stack'
  BY DEF IInv, HeldIsCurrent, CaughtUp
<1> QED BY <1>1, <1>2, <1>3, IdleKeepsInv DEF IInv, StackTypes

\* The reconciler asks for the owner of its stack.
LEMMA UpdaterStep ==
    ASSUME IInv, GetUpdater \/ DeletionUpdater
    PROVE  IInv'
<1>1. UNCHANGED <<stack, watch, store>>
  BY DEF GetUpdater, DeletionUpdater, apiVars, informerVars
<1>2. (~IsStackDirty(held)) \in BOOLEAN /\ TRUE \in BOOLEAN
  BY DEF IsStackDirty
<1>3. CASE /\ pc = "getUpdater" /\ ResolveOwner(~IsStackDirty(held))
           /\ pc' = "reconcileChildren" /\ UNCHANGED <<held, heldFresh, plan, err>>
  <2>1. /\ user' \in Users /\ user' # None /\ UNCHANGED budget
        /\ cache' \in [owner : Users, dirty : BOOLEAN] \cup {None}
    BY <1>2, <1>3, ResolveOwnerFacts
  <2>2. StackTypes'
    BY <1>1, <1>3, <2>1 DEF IInv, StackTypes
  <2>3. Holding' /\ HeldIsCurrent'
    BY <1>1, <1>3, <2>1 DEF IInv, Holding, HeldIsCurrent, CaughtUp
  <2> QED BY <2>2, <2>3 DEF IInv
<1>4. CASE /\ pc = "deleteUpdater" /\ ResolveOwner(TRUE)
           /\ pc' = (IF Settled(plan) THEN "deleteSecrets" ELSE "deleteDiff")
           /\ UNCHANGED <<held, heldFresh, plan, err>>
  <2>1. /\ user' \in Users /\ UNCHANGED budget
        /\ cache' \in [owner : Users, dirty : BOOLEAN] \cup {None}
    BY <1>2, <1>4, ResolveOwnerFacts
  <2>2. StackTypes'
    BY <1>1, <1>4, <2>1 DEF IInv, StackTypes
  <2>3. pc' \in {"deleteSecrets", "deleteDiff"}
    BY <1>4
  <2>4. Holding' /\ HeldIsCurrent'
    BY <1>1, <1>4, <2>3 DEF IInv, Holding, HeldIsCurrent, CaughtUp
  <2> QED BY <2>2, <2>4 DEF IInv
<1>5. CASE OwnerError(~IsStackDirty(held)) \/ OwnerError(TRUE)
  BY <1>1, <1>2, <1>5, OwnerErrorKeepsInv
<1> QED BY <1>3, <1>4, <1>5 DEF GetUpdater, DeletionUpdater

\* The calls for the children move only the place, the error and the budget.
LEMMA ChildrenStep ==
    ASSUME IInv,
           \/ ComputeChildren \/ ListChildren
           \/ \E w \in Services : ApplyOne(w) \/ DeleteOne(w)
    PROVE  IInv'
<1>1. UNCHANGED <<stack, watch, store, cache>>
  BY DEF ComputeChildren, ListChildren, ApplyOne, DeleteOne, environment, apiVars, informerVars
<1>2. budget' \in BudgetSet
  BY SpendType DEF ComputeChildren, ListChildren, ApplyOne, DeleteOne, Spend, environment,
                   IInv, StackTypes
<1>3. CASE Idle
  <2>1. CaughtUp' = stack'
    BY <1>1 DEF IInv, HeldIsCurrent, CaughtUp
  <2> QED BY <1>1, <1>2, <1>3, <2>1, IdleKeepsInv DEF IInv, StackTypes
<1>4. ASSUME UNCHANGED <<held, heldFresh, user>>, err' \in Failures \cup {None},
             \/ pc \in {"reconcileChildren", "applyStackDiff", "reconcileStatus"}
             \/ pc' \in {"deleteUpdater", "deleteDiff", "deleteSecrets"},
             pc' # "getUpdater"
      PROVE  IInv'
  <2>1. StackTypes'
    BY <1>1, <1>2, <1>4 DEF IInv, StackTypes
  <2>2. Holding' /\ HeldIsCurrent'
    BY <1>1, <1>4 DEF IInv, Holding, HeldIsCurrent, CaughtUp
  <2> QED BY <2>1, <2>2 DEF IInv
<1>5. CASE ComputeChildren
  <2>1. err' \in Failures \cup {None}
    BY <1>5 DEF ComputeChildren, Failures, IInv, StackTypes
  <2>2. pc = "reconcileChildren" /\ pc' \in {"reconcileStatus", "applyStackDiff"}
    BY <1>5 DEF ComputeChildren
  <2> QED BY <1>4, <1>5, <2>1, <2>2 DEF ComputeChildren
<1>6. CASE ListChildren
  BY <1>4, <1>6 DEF ListChildren, IInv, StackTypes
<1>7. ASSUME NEW w \in Services, ApplyOne(w)
      PROVE  IInv'
  <2>1. CallError(w) \in Failures \cup {None}
    BY DEF CallError, Failures
  <2>2. err' \in Failures \cup {None}
    BY <1>7, <2>1 DEF ApplyOne, Failures, IInv, StackTypes
  <2>3. pc = "applyStackDiff" /\ pc' \in {"reconcileStatus", "applyStackDiff"}
    BY <1>7 DEF ApplyOne
  <2> QED BY <1>4, <1>7, <2>2, <2>3 DEF ApplyOne
<1>8. ASSUME NEW w \in Services, DeleteOne(w)
      PROVE  IInv'
  <2>1. CASE Idle
    BY <1>3, <2>1
  <2>2. CASE /\ pc' = (IF Settled(plan') THEN "deleteSecrets" ELSE pc)
             /\ UNCHANGED <<held, heldFresh, user, err, budget>>
    <3>1. pc' \in {"deleteDiff", "deleteSecrets"}
      BY <1>8, <2>2 DEF DeleteOne
    <3> QED BY <1>4, <2>2, <3>1 DEF IInv, StackTypes
  <2> QED BY <1>8, <2>1, <2>2 DEF DeleteOne
<1> QED BY <1>5, <1>6, <1>7, <1>8

\* A status update writes the spec that is in etcd already.
LEMMA StatusWrittenFacts ==
    ASSUME IInv, pc = "reconcileStatus", heldFresh, StatusWritten
    PROVE  /\ stack # None /\ stack'.spec = stack.spec
           /\ stack' \in MaybeStack /\ watch' \in Seq(MaybeStack)
           /\ UNCHANGED store => CaughtUp' = stack'
<1> DEFINE phase == IF stack.owner = user THEN NewPhase ELSE "pending"
           s == [held EXCEPT !.owner = user, !.phase = phase]
<1>1. held = stack /\ held # None /\ user # None
  BY DEF IInv, Holding, HeldIsCurrent
<1>2. held \in StackSet /\ user \in Users
  BY <1>1 DEF IInv, StackTypes, MaybeStack
<1>3. phase \in Phases
  <2>1. CASE err # None
    BY <2>1 DEF NewPhase, Phases, IInv, StackTypes
  <2>2. CASE err = None
    BY <2>2 DEF NewPhase, Phases
  <2> QED BY <2>1, <2>2
<1> HIDE DEF phase
<1>4. s \in StackSet /\ s.spec = held.spec
  BY <1>2, <1>3 DEF StackSet
<1>5. WriteStack(s) /\ s \in MaybeStack
  BY <1>4 DEF StatusWritten, phase, MaybeStack
<1>6. stack' = s
  BY <1>5 DEF WriteStack
<1> HIDE DEF s
<1>7. /\ stack' \in MaybeStack /\ watch' \in Seq(MaybeStack)
      /\ UNCHANGED store => CaughtUp' = stack'
  BY <1>5, WriteStackFacts DEF IInv
<1> QED BY <1>1, <1>4, <1>6, <1>7

\* The end of a reconciliation.
LEMMA EndStep ==
    ASSUME IInv, UpdateStatus
    PROVE  IInv'
<1>1. Idle /\ UNCHANGED <<store, cache>>
  BY DEF UpdateStatus, informerVars
<1>2. budget' \in BudgetSet
  BY SpendType DEF UpdateStatus, IInv, StackTypes
<1>3. CASE UNCHANGED <<stack, watch>>
  <2>1. CaughtUp' = stack'
    BY <1>1, <1>3 DEF IInv, HeldIsCurrent, CaughtUp
  <2> QED BY <1>1, <1>2, <1>3, <2>1, IdleKeepsInv DEF IInv, StackTypes
<1>4. CASE pc = "reconcileStatus" /\ heldFresh /\ StatusWritten
  <2>1. /\ stack' \in MaybeStack /\ watch' \in Seq(MaybeStack)
        /\ CaughtUp' = stack'
    BY <1>1, <1>4, StatusWrittenFacts
  <2> QED BY <1>1, <1>2, <2>1, IdleKeepsInv DEF IInv, StackTypes
<1> QED BY <1>3, <1>4 DEF UpdateStatus

\* The last three steps of deleteStackChildren.
Cleanup == DeleteSecrets \/ DeleteConfigMaps \/ RemoveOwner

\* They go on or end the pass, and touch no stack, child or queue.
LEMMA CleanupFacts ==
    ASSUME Cleanup
    PROVE  /\ UNCHANGED <<stack, watch, informerVars, queueVars, childVars, resolved, written>>
           /\ cache' \in {cache, None}
           /\ UNCHANGED budget \/ Spend("failures")
           /\ pc \in {"deleteSecrets", "deleteConfigMaps", "removeOwner"}
           /\ \/ Idle
              \/ /\ pc' \in {"deleteConfigMaps", "removeOwner"}
                 /\ UNCHANGED <<held, heldFresh, user, plan, err>>
<1>1. CASE RemoveOwner
  BY <1>1 DEF RemoveOwner, apiVars
<1>2. CASE DeleteSecrets
  BY <1>2 DEF DeleteSecrets, DeleteCollection
<1>3. CASE DeleteConfigMaps
  BY <1>3 DEF DeleteConfigMaps, DeleteCollection
<1> QED BY <1>1, <1>2, <1>3 DEF Cleanup

\* So they keep what the reconciler holds.
LEMMA CleanupStep ==
    ASSUME IInv, Cleanup
    PROVE  IInv'
<1>1. UNCHANGED <<stack, watch, store>>
  BY CleanupFacts DEF informerVars
<1>2. /\ cache' \in [owner : Users, dirty : BOOLEAN] \cup {None}
      /\ budget' \in BudgetSet
  BY CleanupFacts, SpendType DEF IInv, StackTypes
<1>3. CaughtUp' = stack'
  BY <1>1 DEF IInv, HeldIsCurrent, CaughtUp
<1>4. CASE Idle
  BY <1>1, <1>2, <1>3, <1>4, IdleKeepsInv DEF IInv, StackTypes
<1>5. CASE /\ pc' \in {"deleteConfigMaps", "removeOwner"}
           /\ UNCHANGED <<held, heldFresh, user, plan, err>>
  BY <1>1, <1>2, <1>3, <1>5 DEF IInv, StackTypes, Holding, HeldIsCurrent
<1> QED BY <1>4, <1>5, CleanupFacts

\* Every step preserves it.
LEMMA StepInv == IInv /\ [Next]_vars => IInv'
<1> SUFFICES ASSUME IInv, [Next]_vars PROVE IInv'
  OBVIOUS
<1>1. CASE UserOperation \/ FinishForeground
  BY <1>1, UserStep
<1>2. CASE Kubernetes \/ \E w \in Services, c \in Configs : Drift(w, c)
  BY <1>2, KubernetesStep
<1>3. CASE Listeners \/ Relist \/ Resync \/ Restart
  BY <1>3, InformerStep
<1>4. CASE TakeKey \/ TakeRetry \/ TakeDeletion
  BY <1>4, TakeStep
<1>5. CASE ReconcilerStep
  BY <1>5, UpdaterStep, ChildrenStep, EndStep, CleanupStep DEF ReconcilerStep, Cleanup
<1>6. CASE UNCHANGED vars
  BY <1>6, OtherKeepsInv DEF vars, apiVars, informerVars, recVars, IInv, StackTypes
<1> QED BY <1>1, <1>2, <1>3, <1>4, <1>5, <1>6 DEF Next

\* In every reachable state the reconciler holds what its place in the code
\* needs (a stack and a user before it touches children or status), and a copy
\* of the stack it believes current is the stack in etcd.
THEOREM Invariance == Spec => []IInv
<1>1. IInv /\ [Next]_vars => IInv'
  BY StepInv
<1> QED BY <1>1, InitInv, PTL DEF Spec

\* One step: only a user's update gives a stack another spec.
LEMMA StepKeepsSpec ==
    ASSUME IInv, Next, stack # None, stack' # None, stack.spec # stack'.spec
    PROVE  budget'.updates < budget.updates
<1>1. stack' # stack
  OBVIOUS
<1>2. CASE UserOperation \/ FinishForeground
  <2>1. ASSUME NEW u \in Users, NEW sp \in UserSpecs, UpdateStack(u, sp)
        PROVE  budget'.updates < budget.updates
    <3>1. budget' = [budget EXCEPT !["updates"] = @ - 1, !.events = @ - 1]
      BY <2>1 DEF UpdateStack, Spend
    <3>2. budget \in BudgetSet
      BY DEF IInv, StackTypes
    <3>3. budget.updates \in Nat /\ budget'.updates = budget.updates - 1
      BY <3>1, <3>2 DEF BudgetSet
    <3> QED BY ONLY <3>3
  <2>2. ~DeleteStackForeground
    <3> SUFFICES ASSUME DeleteStackForeground PROVE FALSE
      OBVIOUS
    <3>1. stack \in StackSet /\ stack' = [stack EXCEPT !.deleting = TRUE]
      BY DEF DeleteStackForeground, WriteStack, IInv, StackTypes, MaybeStack
    <3>2. stack'.spec = stack.spec
      BY <3>1 DEF StackSet
    <3> QED BY <3>2
  <2>3. ~(DeleteStack \/ FinishForeground \/ \E u \in Users, sp \in UserSpecs : CreateStack(u, sp))
    BY DEF DeleteStack, FinishForeground, CreateStack, WriteStack
  <2> QED BY <1>2, <2>1, <2>2, <2>3 DEF UserOperation
<1>3. CASE UpdateStatus
  BY <1>1, <1>3, StatusWrittenFacts DEF UpdateStatus
<1>4. ~(\/ Kubernetes \/ \E w \in Services, c \in Configs : Drift(w, c)
        \/ Listeners \/ Relist \/ Resync \/ Restart)
  BY <1>1 DEF Kubernetes, BecomeReady, Collect, Drift, ExternalChild, Listeners, StackWatch,
              onUpdate, onDelete, ChildEvent, Relist, Resync, Restart, apiVars
<1>5. ~(TakeKey \/ TakeRetry \/ TakeDeletion)
  BY <1>1 DEF TakeKey, TakeRetry, TakeDeletion, environment, apiVars
<1>6. ~(\/ GetUpdater \/ ComputeChildren \/ ListChildren \/ DeletionUpdater \/ Cleanup
        \/ \E w \in Services : ApplyOne(w) \/ DeleteOne(w))
  BY <1>1, CleanupFacts DEF GetUpdater, ComputeChildren, ListChildren, DeletionUpdater,
              ApplyOne, DeleteOne, environment, apiVars
<1> QED BY <1>2, <1>3, <1>4, <1>5, <1>6 DEF Next, ReconcilerStep, Cleanup

\* The status updates of the controller, which write back the whole stack they
\* read from the informer, never undo a user's change of the spec, for any
\* services, users, delays, failures, conflicts, restarts and lost watches.
THEOREM SpecsAreTheUsers == Spec => SpecOnlyByUsers
<1>1. IInv /\ [Next]_vars
        => [stack # None /\ stack' # None /\ stack.spec # stack'.spec
              => budget'.updates < budget.updates]_vars
  BY StepKeepsSpec
<1> QED BY <1>1, Invariance, PTL DEF Spec, SpecOnlyByUsers
-----------------------------------------------------------------------------
(* What is spent of the bounds.                                            *)

Bounds == {"stacks", "updates", "deletions", "foreground", "drifts",
           "failures", "restarts", "relists"}

\* No more failures are left than the scenario began with.
Left == budget.failures <= budget.of.failures

\* Spending one bound leaves the scenario and the other bounds as they are.
LEMMA SpendFacts ==
    ASSUME budget \in BudgetSet, NEW b \in Bounds, Spend(b)
    PROVE  /\ budget'.of = budget.of
           /\ budget'.failures <= budget.failures
           /\ b = "failures" => budget'.failures < budget.failures
<1> DEFINE left == [budget EXCEPT ![b] = @ - 1]
<1>1. budget' = left \/ budget' = [left EXCEPT !.events = @ - 1]
  BY DEF Spend
<1>2. /\ budget.failures \in Nat
      /\ left.of = budget.of
      /\ left.failures = IF b = "failures" THEN budget.failures - 1 ELSE budget.failures
      /\ DOMAIN left = DOMAIN budget
  BY DEF BudgetSet, Bounds
<1> HIDE DEF left
<1>3. budget'.of = left.of /\ budget'.failures = left.failures
  BY <1>1, <1>2 DEF BudgetSet
<1> QED BY <1>2, <1>3, SMT

\* A step spends nothing or one bound.
LEMMA StepSpends ==
    ASSUME [Next]_vars
    PROVE  UNCHANGED budget \/ \E b \in Bounds : Spend(b)
<1> USE DEF Bounds
<1>1. CASE UserOperation \/ FinishForeground
  BY <1>1 DEF UserOperation, FinishForeground, CreateStack, UpdateStack, DeleteStack,
              DeleteStackForeground
<1>2. CASE Kubernetes \/ \E w \in Services, c \in Configs : Drift(w, c)
  BY <1>2 DEF Kubernetes, BecomeReady, Collect, Drift
<1>3. CASE Listeners \/ Relist \/ Resync \/ Restart
  BY <1>3 DEF Listeners, StackWatch, onUpdate, onDelete, ChildEvent, Relist, Resync, Restart
<1>4. CASE TakeKey \/ TakeRetry \/ TakeDeletion
  BY <1>4 DEF TakeKey, TakeRetry, TakeDeletion, environment
<1>5. CASE ReconcilerStep
  BY <1>5, CleanupFacts
     DEF ReconcilerStep, GetUpdater, ResolveOwner, OwnerError, ComputeChildren, UpdateStatus,
         ListChildren, DeletionUpdater, Cleanup, ApplyOne, DeleteOne, environment
<1>6. CASE UNCHANGED vars
  BY <1>6 DEF vars
<1> QED BY <1>1, <1>2, <1>3, <1>4, <1>5, <1>6 DEF Next

\* What is spent stays spent.
LEMMA SpentStep ==
    ASSUME IInv, Left, [Next]_vars
    PROVE  /\ Left' /\ budget'.of = budget.of
           /\ ~Spent("failures")' => ~Spent("failures")
<1>1. budget \in BudgetSet
  BY DEF IInv, StackTypes
<1>2. budget.failures \in Nat /\ budget.of.failures \in Nat
  BY <1>1 DEF BudgetSet, Scenario
<1>3. budget' \in BudgetSet
  BY StepInv DEF IInv, StackTypes
<1>4. budget'.failures \in Nat
  BY <1>3 DEF BudgetSet
<1>5. budget'.of = budget.of /\ budget'.failures <= budget.failures
  <2>1. CASE UNCHANGED budget
    BY <2>1, <1>2, SMT
  <2>2. ASSUME NEW b \in Bounds, Spend(b)
        PROVE  budget'.of = budget.of /\ budget'.failures <= budget.failures
    BY <1>1, <2>2, SpendFacts
  <2> QED BY <2>1, <2>2, StepSpends
<1> QED BY <1>2, <1>4, <1>5, SMT DEF Left, Spent

\* A failing call is remembered.
LEMMA FailureSpent ==
    ASSUME IInv, Left, Spend("failures")
    PROVE  Spent("failures")'
<1>1. budget \in BudgetSet
  BY DEF IInv, StackTypes
<1>2. budget.failures \in Nat /\ budget.of.failures \in Nat
  BY <1>1 DEF BudgetSet, Scenario
<1>3. budget'.of = budget.of /\ budget'.failures < budget.failures
  BY <1>1, SpendFacts DEF Bounds
<1>4. budget'.failures \in Nat
  <2>1. budget' \in BudgetSet
    BY <1>1, SpendType
  <2> QED BY <2>1 DEF BudgetSet
<1> QED BY <1>2, <1>3, <1>4, SMT DEF Left, Spent

\* Nothing is spent before the first event.
LEMMA InitLeft == Init => Left
<1> SUFFICES ASSUME Init PROVE Left
  OBVIOUS
<1>1. PICK sc \in Scenarios :
          budget = [of |-> sc, stacks |-> sc.stacks, updates |-> sc.updates,
                    deletions |-> sc.deletions, foreground |-> sc.foreground,
                    drifts |-> sc.drifts, failures |-> sc.failures,
                    restarts |-> sc.restarts, relists |-> sc.relists, events |-> sc.events]
  BY DEF Init
<1>2. sc.failures \in Nat
  BY StackControllerAssumption DEF Scenario
<1> QED BY <1>1, <1>2, SMT DEF Left

\* What is left of a budget never exceeds what the scenario granted, so that
\* "spent" means that a call failed.
THEOREM LeftInvariance == Spec => [](IInv /\ Left)
<1>1. IInv /\ Left /\ [Next]_vars => (IInv /\ Left)'
  BY StepInv, SpentStep
<1> QED BY <1>1, InitInv, InitLeft, PTL DEF Spec
-----------------------------------------------------------------------------
(* A pending stack is woken up.                                            *)

Passing == {"getUpdater", "reconcileChildren", "applyStackDiff", "reconcileStatus"}

\* The listener's last pending call is about what the informer's store holds.
LastCall == notif # <<>> => notif[Len(notif)] = Event(store)

QueueTypes ==
    /\ notif \in Seq({"update", "delete"})
    /\ reconcileQueue \in Nat /\ retryQueue \in Nat

Waits == stack # None /\ ~stack.deleting /\ stack.phase = "pending" /\ ~Spent("failures")
UnderWay == watch # <<>> \/ notif # <<>> \/ reconcileQueue > 0 \/ retryQueue > 0

\* PendingIsScheduled, made inductive: a pass under way counts only if it is
\* about a version that is pending, because such a pass ends in a write, or in a
\* conflict that is retried.
Woken == Waits => UnderWay \/ (pc \in Passing /\ held.phase = "pending")

WakeInv == QueueTypes /\ LastCall /\ Woken

\* A send leaves a copy of the key in the queue.
LEMMA Pushed ==
    ASSUME NEW n \in Nat, NEW m, PushTo(n, m)
    PROVE  m \in Nat /\ m > 0
BY SMT DEF PushTo

\* Nothing is pending before the first event.
LEMMA InitWake == Init => WakeInv
BY SMT DEF Init, WakeInv, QueueTypes, LastCall, Woken, Waits

\* A step that leaves the stack, the informer and the listener alone, takes
\* nothing from the queues and keeps a pass over a pending version going.
LEMMA QuietKeepsWake ==
    ASSUME IInv, Left, WakeInv, [Next]_vars,
           UNCHANGED <<stack, watch, store, notif>>,
           reconcileQueue' \in Nat, retryQueue' \in Nat,
           reconcileQueue > 0 => reconcileQueue' > 0,
           retryQueue > 0 => retryQueue' > 0,
           \/ pc \notin Passing \/ Spent("failures")' \/ retryQueue' > 0
           \/ pc' \in Passing /\ held' = held
           \/ held.phase # "pending"
    PROVE  WakeInv'
<1>1. QueueTypes' /\ LastCall'
  BY DEF WakeInv, QueueTypes, LastCall, Event
<1>2. Waits' => Waits
  BY SpentStep DEF Waits
<1>3. Woken'
  BY <1>2 DEF WakeInv, Woken, Waits, UnderWay
<1> QED BY <1>1, <1>3 DEF WakeInv

\* A write of the stack is under way to the informer.
LEMMA WriteKeepsWake ==
    ASSUME IInv, WakeInv, NEW s, WriteStack(s), UNCHANGED <<store, notif, reconcileQueue, retryQueue>>
    PROVE  WakeInv'
<1>1. watch' # <<>>
  BY AppendProperties, SMT DEF WriteStack, IInv, StackTypes
<1> QED BY <1>1 DEF WakeInv, QueueTypes, LastCall, Event, Woken, UnderWay

\* A user's write is announced.
LEMMA UserWake ==
    ASSUME IInv, WakeInv, UserOperation \/ FinishForeground
    PROVE  WakeInv'
<1>1. UNCHANGED <<store, notif, reconcileQueue, retryQueue>>
  BY DEF UserOperation, CreateStack, UpdateStack, DeleteStack, DeleteStackForeground,
         FinishForeground, informerVars, queueVars
<1>2. \E s : WriteStack(s)
  BY DEF UserOperation, CreateStack, UpdateStack, DeleteStack, DeleteStackForeground,
         FinishForeground
<1> QED BY <1>1, <1>2, WriteKeepsWake

\* What Kubernetes does to a child is announced.
LEMMA KubernetesWake ==
    ASSUME IInv, Left, WakeInv, [Next]_vars,
           Kubernetes \/ \E w \in Services, c \in Configs : Drift(w, c)
    PROVE  WakeInv'
<1>1. UNCHANGED <<stack, watch, store, notif, reconcileQueue, retryQueue, pc, held>>
  BY DEF Kubernetes, BecomeReady, Collect, Drift, ExternalChild, apiVars, informerVars, queueVars
<1> QED BY <1>1, QuietKeepsWake DEF WakeInv, QueueTypes

\* The listener's call for the version the informer has just applied.
LEMMA CallAppended ==
    ASSUME notif \in Seq({"update", "delete"}), NEW s, notif' = Append(notif, Event(s))
    PROVE  /\ notif' \in Seq({"update", "delete"}) /\ notif' # <<>>
           /\ notif'[Len(notif')] = Event(s)
<1>1. Event(s) \in {"update", "delete"}
  BY DEF Event
<1> QED BY <1>1, AppendProperties, SMT

\* What is left of the listener's calls when it has made the first.
LEMMA CallMade ==
    ASSUME notif \in Seq({"update", "delete"}), notif # <<>>, notif' = Tail(notif)
    PROVE  /\ notif' \in Seq({"update", "delete"})
           /\ notif' # <<>> => notif'[Len(notif')] = notif[Len(notif)]
           /\ notif' = <<>> => Head(notif) = notif[Len(notif)]
<1>1. /\ notif' \in Seq({"update", "delete"})
      /\ Len(notif') = Len(notif) - 1 /\ Len(notif) \in Nat /\ Len(notif) > 0
      /\ Head(notif) = notif[1]
      /\ \A i \in 1..Len(notif') : notif'[i] = notif[i + 1]
  BY HeadTailProperties, EmptySeq, SMT
<1>2. notif' # <<>> => Len(notif') \in 1..Len(notif')
  BY <1>1, EmptySeq, SMT
<1>3. ASSUME notif' = <<>> PROVE Len(notif) = 1
  <2>1. Len(notif') = 0
    BY <1>1, <1>3, EmptySeq
  <2> QED BY ONLY <1>1, <2>1
<1> QED BY <1>1, <1>2, <1>3, SMT

\* An event that is handled schedules what it makes pending.
LEMMA InformerWake ==
    ASSUME IInv, Left, WakeInv, [Next]_vars, Listeners \/ Relist \/ Resync \/ Restart
    PROVE  WakeInv'
<1> USE DEF WakeInv
<1>1. CASE StackWatch
  <2>1. /\ store' = Head(watch) /\ notif' = Append(notif, Event(Head(watch)))
        /\ UNCHANGED <<reconcileQueue, retryQueue>>
    BY <1>1 DEF StackWatch, queueVars
  <2>2. /\ notif' \in Seq({"update", "delete"}) /\ notif' # <<>>
        /\ notif'[Len(notif')] = Event(store')
    BY <2>1, CallAppended DEF QueueTypes
  <2>3. LastCall'
    BY <2>2 DEF LastCall, Event
  <2> QED BY <2>1, <2>2, <2>3 DEF QueueTypes, Woken, UnderWay
<1>2. CASE onUpdate
  <2>1. /\ notif # <<>> /\ notif' = Tail(notif) /\ UNCHANGED <<store, retryQueue>>
        /\ PushTo(reconcileQueue, reconcileQueue')
    BY <1>2 DEF onUpdate
  <2>2. reconcileQueue' \in Nat /\ reconcileQueue' > 0
    BY <2>1, Pushed DEF QueueTypes
  <2>3. /\ notif' \in Seq({"update", "delete"})
        /\ notif' # <<>> => notif'[Len(notif')] = notif[Len(notif)]
    BY <2>1, CallMade DEF QueueTypes
  <2>4. LastCall'
    BY <2>1, <2>3 DEF LastCall, Event
  <2> QED BY <2>1, <2>2, <2>3, <2>4 DEF QueueTypes, Woken, UnderWay
<1>3. CASE onDelete
  <2>1. /\ notif # <<>> /\ notif' = Tail(notif) /\ Head(notif) = "delete"
        /\ UNCHANGED <<stack, watch, store, reconcileQueue, retryQueue, budget>>
    BY <1>3 DEF onDelete, apiVars
  <2>2. /\ notif' \in Seq({"update", "delete"})
        /\ notif' # <<>> => notif'[Len(notif')] = notif[Len(notif)]
        /\ notif' = <<>> => Head(notif) = notif[Len(notif)]
    BY <2>1, CallMade DEF QueueTypes
  <2>3. LastCall'
    BY <2>1, <2>2 DEF LastCall, Event
  <2>4. Woken'
    <3> SUFFICES ASSUME Waits', notif' = <<>>, watch' = <<>> PROVE FALSE
      BY DEF Woken, UnderWay
    <3>1. Event(store) = "delete"
      BY <2>1, <2>2 DEF LastCall
    <3>2. store = None
      BY <3>1 DEF Event
    <3>3. stack = None
      BY <2>1, <3>2 DEF IInv, HeldIsCurrent, CaughtUp
    <3> QED BY <2>1, <3>3 DEF Waits
  <2> QED BY <2>1, <2>2, <2>3, <2>4 DEF QueueTypes
<1>4. ASSUME NEW w \in Services, ChildEvent(w)
      PROVE  WakeInv'
  <2>1. /\ UNCHANGED <<store, notif, retryQueue>> /\ PushTo(reconcileQueue, reconcileQueue')
    BY <1>4 DEF ChildEvent, informerVars
  <2>2. reconcileQueue' \in Nat /\ reconcileQueue' > 0
    BY <2>1, Pushed DEF QueueTypes
  <2> QED BY <2>1, <2>2 DEF QueueTypes, LastCall, Event, Woken, UnderWay
<1>5. CASE Relist
  <2>1. /\ store' = stack /\ UNCHANGED <<stack, reconcileQueue, retryQueue>>
        /\ notif' = IF store = None /\ stack = None THEN notif ELSE Append(notif, Event(stack))
    BY <1>5 DEF Relist, queueVars
  <2>2. CASE store = None /\ stack = None
    BY <2>1, <2>2 DEF QueueTypes, LastCall, Event, Woken, Waits
  <2>3. CASE ~(store = None /\ stack = None)
    <3>1. notif' = Append(notif, Event(stack))
      BY <2>1, <2>3
    <3>2. /\ notif' \in Seq({"update", "delete"}) /\ notif' # <<>>
          /\ notif'[Len(notif')] = Event(store')
      BY <2>1, <3>1, CallAppended DEF QueueTypes
    <3>3. LastCall'
      BY <3>2 DEF LastCall, Event
    <3> QED BY <2>1, <3>2, <3>3 DEF QueueTypes, Woken, UnderWay
  <2> QED BY <2>2, <2>3
<1>6. CASE Resync
  <2>1. store # None /\ notif' = <<"update">> /\ UNCHANGED <<store, reconcileQueue, retryQueue>>
    BY <1>6 DEF Resync, queueVars
  <2>2. QueueTypes' /\ LastCall'
    BY <2>1, SMT DEF QueueTypes, LastCall, Event
  <2> QED BY <2>1, <2>2 DEF Woken, UnderWay
<1>7. CASE Restart
  <2>1. /\ store' = stack /\ UNCHANGED stack /\ reconcileQueue' = 0 /\ retryQueue' = 0
        /\ notif' = IF stack = None THEN <<>> ELSE <<"update">>
    BY <1>7 DEF Restart
  <2>2. QueueTypes'
    <3>1. <<>> \in Seq({"update", "delete"}) /\ <<"update">> \in Seq({"update", "delete"})
      BY SMT
    <3>2. notif' \in Seq({"update", "delete"})
      BY ONLY <2>1, <3>1, Zenon
    <3> QED BY <2>1, <3>2 DEF QueueTypes
  <2>3. CASE stack = None
    BY <2>1, <2>2, <2>3 DEF LastCall, Woken, Waits
  <2>4. CASE stack # None
    <3>1. notif' = <<"update">> /\ notif' # <<>> /\ Len(notif') = 1
      BY <2>1, <2>4
    <3>2. LastCall'
      BY <2>1, <2>4, <3>1, SMT DEF LastCall, Event
    <3> QED BY <2>2, <3>1, <3>2 DEF Woken, UnderWay
  <2> QED BY <2>3, <2>4
<1> QED BY <1>1, <1>2, <1>3, <1>4, <1>5, <1>6, <1>7 DEF Listeners

\* A key is taken from a queue only by a pass over what the store holds: the
\* version in etcd, if nothing is under way to the informer.
LEMMA TakeWake ==
    ASSUME IInv, Left, WakeInv, [Next]_vars, TakeKey \/ TakeRetry \/ TakeDeletion
    PROVE  WakeInv'
<1>1. UNCHANGED <<stack, watch, store, notif, budget>> /\ pc = "select"
  BY DEF TakeKey, TakeRetry, TakeDeletion, environment, apiVars, informerVars
<1>2. pc \notin Passing
  BY <1>1 DEF Passing
<1>3. CASE TakeDeletion
  BY <1>1, <1>2, <1>3, QuietKeepsWake DEF TakeDeletion, WakeInv, QueueTypes
<1>4. CASE TakeKey \/ TakeRetry
  <2>1. reconcileQueue' \in Nat /\ retryQueue' \in Nat /\ ReadStack
    BY <1>4, SMT DEF TakeKey, TakeRetry, WakeInv, QueueTypes
  <2>2. QueueTypes' /\ LastCall'
    BY <1>1, <2>1 DEF WakeInv, QueueTypes, LastCall, Event
  <2>3. Woken'
    <3> SUFFICES ASSUME Waits', watch' = <<>>
                 PROVE  pc' \in Passing /\ held'.phase = "pending"
      BY DEF Woken, UnderWay
    <3>1. store = stack
      BY <1>1 DEF IInv, HeldIsCurrent, CaughtUp
    <3>2. stack # None /\ ~stack.deleting /\ stack.phase = "pending"
      BY <1>1 DEF Waits
    <3>3. pc' = "getUpdater" /\ held' = store
      BY <2>1, <3>1, <3>2 DEF ReadStack
    <3> QED BY <3>1, <3>2, <3>3 DEF Passing
  <2> QED BY <2>2, <2>3 DEF WakeInv
<1> QED BY <1>3, <1>4

\* No status the controller computes is "pending".
LEMMA NewPhaseFacts ==
    ASSUME err \in Failures \cup {None}
    PROVE  NewPhase # "pending"
<1>1. CASE err # None
  BY <1>1 DEF NewPhase, Failures
<1>2. CASE err = None
  BY <1>2 DEF NewPhase
<1> QED BY <1>1, <1>2

\* What the reconciler takes it reconciles, or puts back.
LEMMA ReconcilerWake ==
    ASSUME IInv, Left, WakeInv, [Next]_vars, ReconcilerStep
    PROVE  WakeInv'
<1> USE DEF WakeInv
<1>0. reconcileQueue \in Nat /\ retryQueue \in Nat
  BY DEF QueueTypes
<1>1. CASE GetUpdater \/ DeletionUpdater
  <2>1. UNCHANGED <<stack, watch, store, notif, reconcileQueue, retryQueue>>
    BY <1>1 DEF GetUpdater, DeletionUpdater, apiVars, informerVars, queueVars
  <2>2. CASE GetUpdater /\ ~OwnerError(~IsStackDirty(held))
    <3>1. pc' \in Passing /\ held' = held
      BY <2>2 DEF GetUpdater, Passing
    <3> QED BY <1>0, <2>1, <3>1, QuietKeepsWake
  <2>3. CASE DeletionUpdater
    <3>1. pc \notin Passing
      BY <2>3 DEF DeletionUpdater, Passing
    <3> QED BY <1>0, <2>1, <3>1, QuietKeepsWake
  <2>4. CASE OwnerError(~IsStackDirty(held))
    <3>1. CASE Spend("failures")
      BY <1>0, <2>1, <3>1, FailureSpent, QuietKeepsWake
    <3>2. CASE stack = None
      BY <2>1, <3>2 DEF QueueTypes, LastCall, Event, Woken, Waits
    <3> QED BY <2>4, <3>1, <3>2 DEF OwnerError
  <2> QED BY <1>1, <2>2, <2>3, <2>4
<1>2. CASE ComputeChildren \/ ListChildren
  <2>1. UNCHANGED <<stack, watch, store, notif, reconcileQueue, retryQueue, held>>
    BY <1>2 DEF ComputeChildren, ListChildren, environment, apiVars, informerVars, queueVars
  <2>2. pc \notin Passing \/ pc' \in Passing
    BY <1>2 DEF ComputeChildren, ListChildren, Passing
  <2> QED BY <1>0, <2>1, <2>2, QuietKeepsWake
<1>3. ASSUME NEW w \in Services, ApplyOne(w)
      PROVE  WakeInv'
  <2>1. /\ UNCHANGED <<stack, watch, store, notif, reconcileQueue, held>>
        /\ pc' \in Passing
    BY <1>3 DEF ApplyOne, apiVars, informerVars, Passing
  <2>2. UNCHANGED retryQueue \/ PushTo(retryQueue, retryQueue')
    BY <1>3 DEF ApplyOne
  <2>3. retryQueue' \in Nat /\ (retryQueue > 0 => retryQueue' > 0)
    BY <1>0, <2>2, Pushed
  <2> QED BY <1>0, <2>1, <2>3, QuietKeepsWake
<1>4. ASSUME NEW w \in Services, DeleteOne(w)
      PROVE  WakeInv'
  <2>1. UNCHANGED <<stack, watch, store, notif, reconcileQueue, retryQueue>>
    BY <1>4 DEF DeleteOne, apiVars, informerVars, queueVars
  <2>2. pc \notin Passing
    BY <1>4 DEF DeleteOne, Passing
  <2> QED BY <1>0, <2>1, <2>2, QuietKeepsWake
<1>5. CASE Cleanup
  <2>1. UNCHANGED <<stack, watch, store, notif, reconcileQueue, retryQueue>>
    BY <1>5, CleanupFacts DEF informerVars, queueVars
  <2>2. pc \notin Passing
    BY <1>5, CleanupFacts DEF Passing
  <2> QED BY <1>0, <2>1, <2>2, QuietKeepsWake
<1>6. CASE UpdateStatus
  <2>0. UNCHANGED <<store, notif, reconcileQueue>>
    BY <1>6 DEF UpdateStatus, informerVars
  <2>1. CASE NewPhase = held.phase /\ UNCHANGED <<stack, watch, retryQueue>>
    <3>1. held.phase # "pending"
      BY <2>1, NewPhaseFacts DEF IInv, StackTypes
    <3> QED BY <1>0, <2>0, <2>1, <3>1, QuietKeepsWake
  <2>2. CASE StatusWritten /\ UNCHANGED retryQueue
    BY <2>0, <2>2, WriteKeepsWake DEF StatusWritten
  <2>3. CASE PushTo(retryQueue, retryQueue') /\ UNCHANGED <<stack, watch>>
    <3>1. retryQueue' \in Nat /\ retryQueue' > 0
      BY <1>0, <2>3, Pushed
    <3> QED BY <1>0, <2>0, <2>3, <3>1, QuietKeepsWake
  <2>4. CASE stack = None /\ UNCHANGED <<stack, watch, retryQueue>>
    BY <2>0, <2>4 DEF QueueTypes, LastCall, Event, Woken, Waits
  <2>5. CASE Spend("failures") /\ UNCHANGED <<stack, watch, retryQueue>>
    BY <1>0, <2>0, <2>5, FailureSpent, QuietKeepsWake
  <2> QED BY <1>6, <2>1, <2>2, <2>3, <2>4, <2>5 DEF UpdateStatus
<1> QED BY <1>1, <1>2, <1>3, <1>4, <1>5, <1>6 DEF ReconcilerStep, Cleanup

\* Every step preserves it.
LEMMA WakeStep == IInv /\ Left /\ WakeInv /\ [Next]_vars => WakeInv'
<1> SUFFICES ASSUME IInv, Left, WakeInv, [Next]_vars PROVE WakeInv'
  OBVIOUS
<1>1. CASE UNCHANGED vars
  <2>1. /\ UNCHANGED <<stack, watch, store, notif, reconcileQueue, retryQueue, pc, held>>
    BY <1>1 DEF vars, apiVars, informerVars, queueVars, recVars
  <2> QED BY <2>1, QuietKeepsWake DEF WakeInv, QueueTypes
<1> QED BY <1>1, UserWake, KubernetesWake, InformerWake, TakeWake, ReconcilerWake DEF Next

\* A stack that waits for reconciliation is never forgotten: an event, a call of
\* the listener, a key in a queue or a pass of the reconciler is on its way, for
\* any interleaving of users, informers and reconciler, stale reads, conflicts,
\* lost watches and restarts, as long as no other call to the API server failed.
THEOREM PendingStacksAreScheduled == Spec => []PendingIsScheduled
<1>1. Left /\ WakeInv => PendingIsScheduled
  BY DEF WakeInv, Woken, Waits, UnderWay, PendingIsScheduled, Passing
<1>2. IInv /\ Left /\ WakeInv /\ [Next]_vars => WakeInv'
  BY WakeStep
<1> QED BY <1>1, <1>2, InitWake, LeftInvariance, PTL DEF Spec
-----------------------------------------------------------------------------
(* What a deleted stack leaves behind is removed.                          *)

Deleting == {"deleteChildren", "deleteUpdater", "deleteDiff", "deleteSecrets", "deleteConfigMaps"}

\* A call of onDelete or an entry of the deletion queue is to come.
Owed == deletionQueue > 0 \/ \E i \in DOMAIN notif : notif[i] = "delete"

\* LeftoversAreScheduled, made inductive: it is about any stack, because the
\* owner may be looked up before the deletion; a stack in the informer's store
\* stands for the deletion that is still to be seen; and the pass that forgets
\* the owner has removed everything.
Known == resolved /\ ~Spent("failures")
LeftoverInv ==
    /\ deletionQueue \in Nat /\ labelled \subseteq Labelled
    /\ pc = "getUpdater" => store # None \/ Owed
    /\ Known /\ labelled # {} => cache # None /\ (store # None \/ Owed \/ pc \in Deleting)
    /\ Known /\ pc = "deleteConfigMaps" => "secrets" \notin labelled
    /\ Known /\ pc = "removeOwner" => labelled = {}

\* Nothing is left before the first event.
LEMMA InitLeftover == Init => LeftoverInv
BY SMT DEF Init, LeftoverInv, Known, Labelled

\* A step of another process that leaves the reconciler where it is.
LEMMA OthersKeepLeftover ==
    ASSUME IInv, Left, LeftoverInv, [Next]_vars,
           UNCHANGED <<pc, resolved, labelled>>, deletionQueue' \in Nat,
           cache # None => cache' # None,
           store # None \/ Owed => store' # None \/ Owed'
    PROVE  LeftoverInv'
<1>1. Known' => Known
  BY SpentStep DEF Known
<1> QED BY <1>1 DEF LeftoverInv

\* A step of the reconciler that leaves the cache and the leftovers alone.
LEMMA PassKeepsLeftover ==
    ASSUME IInv, Left, LeftoverInv, [Next]_vars,
           UNCHANGED <<store, notif, deletionQueue, cache, resolved, labelled>>,
           pc' \notin {"deleteConfigMaps", "removeOwner"},
           pc' = "getUpdater" => store # None,
           pc \in Deleting => pc' \in Deleting \/ Spent("failures")' \/ cache = None
    PROVE  LeftoverInv'
<1>1. Known' => Known
  BY SpentStep DEF Known
<1>2. Owed' = Owed
  BY DEF Owed
<1> QED BY <1>1, <1>2 DEF LeftoverInv, Known

\* Users write the stack; a new one has not been looked at.
LEMMA UserLeftover ==
    ASSUME IInv, Left, LeftoverInv, [Next]_vars, UserOperation \/ FinishForeground
    PROVE  LeftoverInv'
<1>1. UNCHANGED <<store, notif, pc, cache, deletionQueue>>
  BY DEF UserOperation, CreateStack, UpdateStack, DeleteStack, DeleteStackForeground,
         FinishForeground, informerVars, queueVars
<1>2. Owed' = Owed
  BY <1>1 DEF Owed
<1>3. CASE UNCHANGED <<resolved, labelled>>
  BY <1>1, <1>2, <1>3, OthersKeepLeftover DEF LeftoverInv
<1>4. CASE ~resolved' /\ labelled' = Labelled
  BY <1>1, <1>2, <1>4 DEF LeftoverInv, Known
<1> QED BY <1>3, <1>4 DEF UserOperation, CreateStack, UpdateStack, DeleteStack,
                          DeleteStackForeground, FinishForeground

\* A call of the listener that is appended or made keeps what is owed.
LEMMA OwedAppended ==
    ASSUME notif \in Seq({"update", "delete"}), NEW e, notif' = Append(notif, e),
           UNCHANGED deletionQueue
    PROVE  (Owed \/ e = "delete") => Owed'
<1>1. /\ DOMAIN notif = 1..Len(notif) /\ Len(notif) \in Nat
      /\ DOMAIN notif' = 1..(Len(notif) + 1)
      /\ notif'[Len(notif) + 1] = e
      /\ \A i \in 1..Len(notif) : notif'[i] = notif[i]
  BY SMT
<1>2. Len(notif) + 1 \in DOMAIN notif' /\ \A i \in DOMAIN notif : i \in DOMAIN notif'
  BY <1>1, SMT
<1> QED BY <1>1, <1>2 DEF Owed

LEMMA OwedMade ==
    ASSUME notif \in Seq({"update", "delete"}), notif # <<>>, notif' = Tail(notif),
           deletionQueue \in Nat,
           \/ Head(notif) = "update" /\ UNCHANGED deletionQueue
           \/ Head(notif) = "delete" /\ deletionQueue' = deletionQueue + 1
    PROVE  Owed => Owed'
<1>1. /\ DOMAIN notif = 1..Len(notif) /\ Len(notif) \in Nat
      /\ DOMAIN notif' = 1..(Len(notif) - 1) /\ Head(notif) = notif[1]
      /\ \A i \in 1..(Len(notif) - 1) : notif'[i] = notif[i + 1]
  BY SMT
<1>2. CASE Head(notif) = "delete" /\ deletionQueue' = deletionQueue + 1
  <2>1. deletionQueue' > 0
    BY <1>2, SMT
  <2> QED BY <2>1 DEF Owed
<1>3. CASE Head(notif) = "update" /\ UNCHANGED deletionQueue
  <2>1. ASSUME NEW i \in DOMAIN notif, notif[i] = "delete"
        PROVE  \E j \in DOMAIN notif' : notif'[j] = "delete"
    <3>1. i - 1 \in DOMAIN notif' /\ notif'[i - 1] = notif[i]
      BY <1>1, <1>3, <2>1, SMT
    <3> QED BY <2>1, <3>1
  <2> QED BY <1>3, <2>1 DEF Owed
<1> QED BY <1>2, <1>3

\* The informer announces the deletion of every stack it held.
LEMMA InformerLeftover ==
    ASSUME IInv, Left, WakeInv, LeftoverInv, [Next]_vars, Listeners \/ Relist \/ Resync \/ Restart
    PROVE  LeftoverInv'
<1>0. notif \in Seq({"update", "delete"}) /\ deletionQueue \in Nat
  BY DEF WakeInv, QueueTypes, LeftoverInv
<1>1. CASE StackWatch
  <2>1. /\ store' = Head(watch) /\ notif' = Append(notif, Event(Head(watch)))
        /\ UNCHANGED <<pc, resolved, labelled, cache, deletionQueue>>
    BY <1>1 DEF StackWatch, queueVars, recVars
  <2>2. store' # None \/ Event(Head(watch)) = "delete"
    BY <2>1 DEF Event
  <2> QED BY <1>0, <2>1, <2>2, OwedAppended, OthersKeepLeftover
<1>2. CASE onUpdate
  <2>1. /\ notif # <<>> /\ notif' = Tail(notif) /\ Head(notif) = "update"
        /\ UNCHANGED <<pc, resolved, labelled, store, deletionQueue>> /\ cache' = setDirty
    BY <1>2 DEF onUpdate, apiVars, recVars
  <2>2. cache # None => cache' # None
    <3> SUFFICES ASSUME cache # None PROVE cache' # None
      OBVIOUS
    <3>1. cache \in [owner : Users, dirty : BOOLEAN] /\ cache' = [cache EXCEPT !.dirty = TRUE]
      BY <2>1 DEF setDirty, IInv, StackTypes
    <3>2. cache' \in [owner : Users, dirty : BOOLEAN]
      BY <3>1
    <3> QED BY <3>2, NoneAssumption
  <2> QED BY <1>0, <2>1, <2>2, OwedMade, OthersKeepLeftover
<1>3. CASE onDelete
  <2>1. /\ notif # <<>> /\ notif' = Tail(notif) /\ Head(notif) = "delete"
        /\ deletionQueue' = deletionQueue + 1
        /\ UNCHANGED <<pc, resolved, labelled, store, cache>>
    BY <1>3 DEF onDelete, apiVars, recVars
  <2>2. deletionQueue' \in Nat
    BY <1>0, <2>1, SMT
  <2> QED BY <1>0, <2>1, <2>2, OwedMade, OthersKeepLeftover
<1>4. ASSUME NEW w \in Services, ChildEvent(w)
      PROVE  LeftoverInv'
  <2>1. UNCHANGED <<pc, resolved, labelled, store, cache, notif, deletionQueue>>
    BY <1>4 DEF ChildEvent, apiVars, informerVars, recVars
  <2>2. Owed' = Owed
    BY <2>1 DEF Owed
  <2> QED BY <1>0, <2>1, <2>2, OthersKeepLeftover
<1>5. CASE Relist
  <2>1. /\ store' = stack
        /\ UNCHANGED <<pc, resolved, labelled, cache, deletionQueue>>
        /\ notif' = IF store = None /\ stack = None THEN notif ELSE Append(notif, Event(stack))
    BY <1>5 DEF Relist, queueVars, recVars
  <2>2. CASE store = None /\ stack = None
    <3>1. Owed' = Owed /\ store' = store
      BY <2>1, <2>2 DEF Owed
    <3> QED BY <1>0, <2>1, <3>1, OthersKeepLeftover
  <2>3. CASE ~(store = None /\ stack = None)
    <3>1. notif' = Append(notif, Event(stack)) /\ (store' # None \/ Event(stack) = "delete")
      BY <2>1, <2>3 DEF Event
    <3> QED BY <1>0, <2>1, <3>1, OwedAppended, OthersKeepLeftover
  <2> QED BY <2>2, <2>3
<1>6. CASE Resync
  <2>1. store' # None /\ UNCHANGED <<pc, resolved, labelled, cache, deletionQueue>>
    BY <1>6 DEF Resync, apiVars, queueVars, recVars
  <2> QED BY <1>0, <2>1, OthersKeepLeftover
<1>7. CASE Restart
  <2>1. ~resolved' /\ UNCHANGED labelled /\ pc' = "select" /\ deletionQueue' = 0
    BY <1>7 DEF Restart, Idle
  <2>2. deletionQueue' \in Nat
    BY <2>1, SMT
  <2> QED BY <2>1, <2>2 DEF LeftoverInv, Known
<1> QED BY <1>1, <1>2, <1>3, <1>4, <1>5, <1>6, <1>7 DEF Listeners

\* A lookup of the owner leaves an entry in the cache.
LEMMA ResolvedIsCached ==
    ASSUME IInv, NEW a, ResolveOwner(a)
    PROVE  cache' # None
<1>1. CASE cache # None /\ UNCHANGED cache
  BY <1>1
<1>2. CASE stack # None /\ cache' = [owner |-> stack.owner, dirty |-> FALSE]
  <2>1. stack.owner \in Users
    BY <1>2 DEF IInv, StackTypes, MaybeStack, StackSet
  <2>2. cache' \in [owner : Users, dirty : BOOLEAN]
    BY <1>2, <2>1, SMT
  <2> QED BY <2>2, NoneAssumption
<1> QED BY <1>1, <1>2 DEF ResolveOwner, GoodEntry

\* The reconciler forgets an owner only after both removals.
LEMMA ReconcilerLeftover ==
    ASSUME IInv, Left, LeftoverInv, [Next]_vars,
           ReconcilerStep \/ TakeKey \/ TakeRetry \/ TakeDeletion
    PROVE  LeftoverInv'
<1>0. Known' => ~Spent("failures")' /\ (resolved => Known)
  BY SpentStep DEF Known
<1>1. CASE TakeKey \/ TakeRetry
  <2>1. /\ UNCHANGED <<store, notif, deletionQueue, cache, resolved, labelled>>
        /\ ReadStack /\ pc = "select"
    BY <1>1 DEF TakeKey, TakeRetry, environment, apiVars, informerVars
  <2>2. /\ pc' \notin {"deleteConfigMaps", "removeOwner"}
        /\ pc' = "getUpdater" => store # None
    BY <2>1 DEF ReadStack, Idle
  <2> QED BY <2>1, <2>2, PassKeepsLeftover DEF Deleting
<1>2. CASE TakeDeletion
  <2>1. /\ UNCHANGED <<cache, resolved, labelled>> /\ pc' = "deleteChildren"
        /\ deletionQueue > 0 /\ deletionQueue' = deletionQueue - 1
    BY <1>2 DEF TakeDeletion, environment, apiVars
  <2>2. deletionQueue' \in Nat
    BY <2>1, SMT DEF LeftoverInv
  <2> QED BY <1>0, <2>1, <2>2 DEF LeftoverInv, Known, Deleting
<1>3. CASE GetUpdater \/ DeletionUpdater
  <2>1. /\ UNCHANGED <<labelled, store, notif, deletionQueue>>
        /\ pc \in {"getUpdater", "deleteUpdater"}
    BY <1>3 DEF GetUpdater, DeletionUpdater, apiVars, informerVars, queueVars
  <2>2. Owed' = Owed
    BY <2>1 DEF Owed
  <2>3. ASSUME NEW a, ResolveOwner(a),
               \/ pc = "getUpdater" /\ pc' = "reconcileChildren"
               \/ pc' \in {"deleteSecrets", "deleteDiff"}
        PROVE  LeftoverInv'
    <3>1. cache' # None
      BY <2>3, ResolvedIsCached
    <3> QED BY <2>1, <2>2, <2>3, <3>1 DEF LeftoverInv, Deleting
  <2>4. ASSUME NEW a, OwnerError(a)
        PROVE  LeftoverInv'
    <3>1. UNCHANGED <<cache, resolved>> /\ pc' = "select" /\ (cache = None \/ Spend("failures"))
      BY <2>4 DEF OwnerError, Idle
    <3>2. cache = None \/ Spent("failures")'
      BY <3>1, FailureSpent
    <3> QED BY <2>1, <3>1, <3>2, PassKeepsLeftover
  <2> QED BY <1>3, <2>3, <2>4 DEF GetUpdater, DeletionUpdater
<1>4. CASE ComputeChildren \/ ListChildren \/ UpdateStatus \/ \E w \in Services : ApplyOne(w)
  <2>1. UNCHANGED <<store, notif, deletionQueue, cache, resolved, labelled>>
    BY <1>4 DEF ComputeChildren, ListChildren, UpdateStatus, ApplyOne, environment, apiVars,
                informerVars, queueVars
  <2>2. /\ pc \in Deleting => pc' \in Deleting
        /\ pc' \notin {"getUpdater", "deleteConfigMaps", "removeOwner"}
    BY <1>4 DEF ComputeChildren, ListChildren, UpdateStatus, ApplyOne, Idle, Deleting
  <2> QED BY <2>1, <2>2, PassKeepsLeftover
<1>5. ASSUME NEW w \in Services, DeleteOne(w)
      PROVE  LeftoverInv'
  <2>1. UNCHANGED <<store, notif, deletionQueue, cache, resolved, labelled>>
    BY <1>5 DEF DeleteOne, apiVars, informerVars, queueVars
  <2>2. /\ pc' \in Deleting \/ Spent("failures")'
        /\ pc' \notin {"getUpdater", "deleteConfigMaps", "removeOwner"}
    BY <1>5, FailureSpent DEF DeleteOne, Idle, Deleting
  <2> QED BY <2>1, <2>2, PassKeepsLeftover
<1>6. CASE Cleanup
  <2>1. UNCHANGED <<store, notif, deletionQueue, resolved>>
    BY <1>6, CleanupFacts DEF informerVars, queueVars
  <2>2. Owed' = Owed
    BY <2>1 DEF Owed
  <2>3. ASSUME Spend("failures"), labelled' = labelled, pc' \in {"select", "deleteConfigMaps", "removeOwner"}
        PROVE  LeftoverInv'
    <3>1. ~Known'
      BY <2>3, FailureSpent DEF Known
    <3> QED BY <2>1, <2>2, <2>3, <3>1 DEF LeftoverInv
  <2>4. CASE pc = "deleteSecrets" /\ labelled' = labelled \ {"secrets"} /\ pc' = "deleteConfigMaps"
             /\ UNCHANGED cache
    BY <1>0, <2>1, <2>2, <2>4 DEF LeftoverInv, Known, Deleting
  <2>5. CASE pc = "deleteConfigMaps" /\ labelled' = labelled \ {"configMaps"} /\ pc' = "removeOwner"
             /\ UNCHANGED cache
    <3>1. Known' => labelled' = {}
      BY <1>0, <2>1, <2>5 DEF LeftoverInv, Known, Labelled
    <3> QED BY <2>1, <2>2, <2>5, <3>1 DEF LeftoverInv
  <2>6. CASE RemoveOwner
    <3>1. UNCHANGED labelled /\ pc' = "select" /\ pc = "removeOwner"
      BY <2>6 DEF RemoveOwner, apiVars, Idle
    <3> QED BY <1>0, <2>1, <2>2, <3>1 DEF LeftoverInv, Known
  <2> QED BY <1>6, <2>3, <2>4, <2>5, <2>6
          DEF Cleanup, DeleteSecrets, DeleteConfigMaps, DeleteCollection, Idle
<1> QED BY <1>1, <1>2, <1>3, <1>4, <1>5, <1>6 DEF ReconcilerStep, Cleanup

\* Every step preserves it.
LEMMA LeftoverStep == IInv /\ Left /\ WakeInv /\ LeftoverInv /\ [Next]_vars => LeftoverInv'
<1> SUFFICES ASSUME IInv, Left, WakeInv, LeftoverInv, [Next]_vars PROVE LeftoverInv'
  OBVIOUS
<1>1. CASE \/ UNCHANGED vars \/ Kubernetes
           \/ \E w \in Services, c \in Configs : Drift(w, c)
  <2>1. UNCHANGED <<pc, resolved, labelled, deletionQueue, cache, store, notif>>
    BY <1>1 DEF vars, Kubernetes, BecomeReady, Collect, Drift, ExternalChild, apiVars,
                informerVars, queueVars, recVars
  <2>2. Owed' = Owed
    BY <2>1 DEF Owed
  <2> QED BY <2>1, <2>2, OthersKeepLeftover DEF LeftoverInv
<1> QED BY <1>1, UserLeftover, InformerLeftover, ReconcilerLeftover DEF Next

\* Secrets and config maps of a deleted stack are not forgotten: their removal is
\* on its way and the owner it impersonates is cached, for any number of stacks of
\* the same name that come and go, any delay of the informer and the listener, any
\* lost watch, and deletions in the foreground or not.  A failing call, and an
\* owner nobody looked up since the controller started, are left out: there the
\* code leaves them behind.
THEOREM LeftoversStayScheduled == Spec => []LeftoversAreScheduled
<1>1. IInv /\ LeftoverInv => LeftoversAreScheduled
  <2> SUFFICES ASSUME IInv, LeftoverInv, stack = None, labelled # {}, resolved, ~Spent("failures")
               PROVE  cache # None /\ (watch # <<>> \/ DeletionToCome)
    BY DEF LeftoversAreScheduled
  <2>1. cache # None /\ (store # None \/ Owed \/ pc \in Deleting)
    BY DEF LeftoverInv, Known
  <2>2. store # None => watch # <<>>
    BY DEF IInv, HeldIsCurrent, CaughtUp
  <2> QED BY <2>1, <2>2 DEF Owed, Deleting, DeletionToCome
<1>2. IInv /\ Left /\ WakeInv /\ LeftoverInv /\ [Next]_vars => LeftoverInv'
  BY LeftoverStep
<1>3. IInv /\ Left /\ WakeInv /\ [Next]_vars => WakeInv'
  BY WakeStep
<1> QED BY <1>1, <1>2, <1>3, InitWake, InitLeftover, LeftInvariance, PTL DEF Spec
-----------------------------------------------------------------------------
(* A clean stack is applied.                                               *)

\* A version of the stack gives the service w the configuration c.
Says(s, w, c) == s # None /\ s.spec[w] = c

\* A version of a child runs c; and it does, unless somebody else changed it.
Runs(v, c) == v # None /\ v.cfg = c
Matches(v, c) == v # None /\ v.exp => v.cfg = c

ChildTypes ==
    /\ child \in [Services -> MaybeChild] /\ children \in [Services -> MaybeChild]
    /\ childWatch \in [Services -> Seq(MaybeChild)]
    /\ plan \in [Services -> PlanSet]

\* The children informers are on their way to the children in the API server.
ChildrenCatchUp ==
    \A w \in Services :
      child[w] = IF childWatch[w] = <<>> THEN children[w] ELSE childWatch[w][Len(childWatch[w])]

\* What the calls that are left to make will write.
Plans ==
    /\ pc = "applyStackDiff"
         => \A w \in Services :
              /\ plan[w].op \in {"add", "update"} => plan[w].cfg = held.spec[w] /\ plan[w].cfg # None
              /\ plan[w].op = "delete" => held.spec[w] = None
    /\ pc \in {"deleteUpdater", "deleteDiff"}
         => \A w \in Services : plan[w].op \in {"none", "delete"}
    /\ pc = "reconcileStatus" /\ err = None => \A w \in Services : plan[w].op = "none"

FreshIsRead == heldFresh => watch = <<>>

\* Every configuration found anywhere was written before.
Found(w, c) ==
    \/ Says(stack, w, c) \/ Says(store, w, c) \/ Says(held, w, c)
    \/ \E i \in 1..Len(watch) : Says(watch[i], w, c)
    \/ Runs(children[w], c)
    \/ \E i \in 1..Len(childWatch[w]) : Runs(childWatch[w][i], c)
Recorded == \A w \in Services, c \in Configs : Found(w, c) => <<w, c>> \in written

\* From the first version on that gives w the configuration c, all do.
StackSettles(w, c) ==
    /\ \A i, j \in 1..Len(watch) : i <= j /\ Says(watch[i], w, c) => Says(watch[j], w, c)
    /\ Says(store, w, c) => \A j \in 1..Len(watch) : Says(watch[j], w, c)
    /\ Says(held, w, c) => Says(store, w, c)
\* The informer has read c, and so has the reconciler if it is in a pass.
ReadBy(w, c) == Says(store, w, c) /\ (held # None => Says(held, w, c))
\* Once a child runs c, the controller writes nothing else.
ChildSettles(w, c) ==
    /\ \A i \in 1..Len(childWatch[w]) : Runs(childWatch[w][i], c)
         => ReadBy(w, c) /\ \A j \in i..Len(childWatch[w]) : Matches(childWatch[w][j], c)
    /\ Runs(children[w], c)
         => ReadBy(w, c) /\ \A j \in 1..Len(childWatch[w]) : Matches(childWatch[w][j], c)

\* Both, for the configuration that is now wanted.
Settling ==
    \A w \in Services, c \in Configs :
      Says(stack, w, c) => StackSettles(w, c) /\ ChildSettles(w, c)

\* A clean stack has the spec the informer and the reconciler know.
CleanIsKnown ==
    stack # None /\ ~IsStackDirty(stack)
        => /\ store # None /\ store.spec = stack.spec
           /\ \A i \in 1..Len(watch) : watch[i] # None /\ watch[i].spec = stack.spec
           /\ held # None => held.spec = stack.spec

\* In a pass over the current version, what needs no call is as it should be.
PassApplies ==
    heldFresh /\ err = None /\ pc \in {"applyStackDiff", "reconcileStatus"}
        => \A w \in Services, c \in Configs :
             plan[w].op = "none" /\ Says(stack, w, c) => Matches(child[w], c)

CleanInv ==
    /\ ~budget.of.reverts
    /\ ChildTypes /\ ChildrenCatchUp /\ Plans /\ FreshIsRead
    /\ Recorded /\ Settling /\ CleanIsKnown /\ PassApplies /\ CleanIsApplied

\* No stack is clean before its first reconciliation.
LEMMA InitClean ==
    ASSUME \A sc \in Scenarios : ~sc.reverts
    PROVE  Init => CleanInv
<1> SUFFICES ASSUME Init PROVE CleanInv
  OBVIOUS
<1>1. ~budget.of.reverts
  <2>1. \E sc \in Scenarios : budget.of = sc
    BY SMT DEF Init
  <2> QED BY <2>1
<1>2. NoPlan \in PlanSet
  BY DEF NoPlan, PlanSet
<1>3. ChildTypes
  BY <1>2, SMT DEF Init, ChildTypes, MaybeChild
<1>4. ChildrenCatchUp /\ Plans /\ FreshIsRead
  BY DEF Init, ChildrenCatchUp, Plans, FreshIsRead
<1>5. Recorded
  BY SMT DEF Init, Recorded, Found, Says, Runs
<1>6. Settling /\ CleanIsKnown /\ PassApplies /\ CleanIsApplied
  BY DEF Init, Settling, Says, CleanIsKnown, PassApplies, CleanIsApplied
<1> QED BY <1>1, <1>3, <1>4, <1>5, <1>6 DEF CleanInv

\* A write of the stack that gives each service the configuration it has, or one
\* that was never written.
LEMMA WriteSettles ==
    ASSUME IInv, CleanInv, NEW s \in MaybeStack, WriteStack(s),
           UNCHANGED <<store, children, childWatch>>, held' = held \/ held' = None,
           written \subseteq written',
           \A w \in Services, c \in Configs :
             Says(s, w, c) => <<w, c>> \in written' /\ (Says(stack, w, c) \/ <<w, c>> \notin written)
    PROVE  Recorded' /\ Settling'
<1>1. /\ stack' = s /\ watch' \in Seq(MaybeStack) /\ Len(watch) \in Nat
      /\ Len(watch') = Len(watch) + 1
      /\ \A i \in 1..Len(watch) : watch'[i] = watch[i]
      /\ watch'[Len(watch')] = s
  BY AppendProperties, SMT DEF WriteStack, IInv, StackTypes
<1>2. \A i \in 1..Len(watch') : i \in 1..Len(watch) \/ i = Len(watch')
  BY <1>1, SMT
<1>3. Recorded'
  <2> SUFFICES ASSUME NEW w \in Services, NEW c \in Configs, Found(w, c)'
               PROVE  <<w, c>> \in written'
    BY DEF Recorded
  <2>1. Found(w, c) \/ Says(s, w, c)
    BY <1>1, <1>2 DEF Found, Says, Runs
  <2> QED BY <2>1 DEF CleanInv, Recorded
<1>4. Settling'
  <2> SUFFICES ASSUME NEW w \in Services, NEW c \in Configs, Says(stack, w, c)'
               PROVE  StackSettles(w, c)' /\ ChildSettles(w, c)'
    BY DEF Settling
  <2>1. Says(s, w, c)
    BY <1>1 DEF Says
  <2>2. CASE Says(stack, w, c)
    <3>1. StackSettles(w, c) /\ ChildSettles(w, c)
      BY <2>2 DEF CleanInv, Settling
    <3>2. StackSettles(w, c)'
      BY <1>1, <1>2, <2>1, <3>1, SMTT(30) DEF StackSettles, Says
    <3>3. ChildSettles(w, c)'
      BY <3>1 DEF ChildSettles, ReadBy, Says, Runs, Matches
    <3> QED BY <3>2, <3>3
  <2>3. CASE ~Says(stack, w, c)
    <3>1. ~Found(w, c)
      BY <2>1, <2>3 DEF CleanInv, Recorded
    <3>2. StackSettles(w, c)'
      BY <1>1, <1>2, <2>1, <3>1, SMT DEF StackSettles, Found, Says
    <3>3. ChildSettles(w, c)'
      BY <3>1 DEF ChildSettles, Found, Runs
    <3> QED BY <3>2, <3>3
  <2> QED BY <2>2, <2>3
<1> QED BY <1>3, <1>4

\* What a write of a child may put there: nothing; what the child says already;
\* somebody else's configuration, written for the first time; the reconciler's.
Lawful(w, v) ==
    \/ v = None
    \/ child[w] # None /\ v.cfg = child[w].cfg /\ v.exp = child[w].exp
    \/ ~v.exp /\ <<w, v.cfg>> \notin written /\ <<w, v.cfg>> \in written'
    \/ held # None /\ v.cfg = held.spec[w]

\* The queue of a child after a write of it.
LEMMA WriteChildFacts ==
    ASSUME ChildTypes, NEW w \in Services, NEW v \in MaybeChild, WriteChild(w, v)
    PROVE  /\ child' \in [Services -> MaybeChild] /\ child'[w] = v
           /\ childWatch' \in [Services -> Seq(MaybeChild)]
           /\ \A x \in Services \ {w} : child'[x] = child[x] /\ childWatch'[x] = childWatch[x]
           /\ Len(childWatch[w]) \in Nat
           /\ Len(childWatch'[w]) = Len(childWatch[w]) + 1
           /\ \A i \in 1..Len(childWatch[w]) : childWatch'[w][i] = childWatch[w][i]
           /\ childWatch'[w][Len(childWatch'[w])] = v
           /\ childWatch'[w] # <<>>
<1>1. childWatch[w] \in Seq(MaybeChild) /\ childWatch'[w] = Append(childWatch[w], v)
  BY DEF WriteChild, ChildTypes
<1>2. /\ childWatch'[w] \in Seq(MaybeChild) /\ childWatch'[w] # <<>>
      /\ Len(childWatch[w]) \in Nat
      /\ Len(childWatch'[w]) = Len(childWatch[w]) + 1
      /\ \A i \in 1..Len(childWatch[w]) : childWatch'[w][i] = childWatch[w][i]
      /\ childWatch'[w][Len(childWatch'[w])] = v
  BY <1>1, AppendProperties, SMT
<1>3. /\ child' \in [Services -> MaybeChild] /\ child'[w] = v
      /\ \A x \in Services \ {w} : child'[x] = child[x] /\ childWatch'[x] = childWatch[x]
  BY DEF WriteChild, ChildTypes
<1>4. childWatch' \in [Services -> Seq(MaybeChild)]
  BY <1>1, <1>2 DEF WriteChild, ChildTypes
<1> QED BY <1>2, <1>3, <1>4

\* A write of a child brings it to what the reconciliation wants.
LEMMA ChildWriteSettles ==
    ASSUME IInv, CleanInv, NEW w \in Services, NEW v \in MaybeChild, WriteChild(w, v), Lawful(w, v),
           UNCHANGED <<stack, watch, store, held, children>>, written \subseteq written'
    PROVE  Recorded' /\ Settling' /\ ChildrenCatchUp' /\ CleanIsApplied'
<1> DEFINE n == Len(childWatch[w])
<1>1. /\ child'[w] = v /\ n \in Nat /\ Len(childWatch'[w]) = n + 1
      /\ \A x \in Services \ {w} : child'[x] = child[x] /\ childWatch'[x] = childWatch[x]
      /\ \A i \in 1..n : childWatch'[w][i] = childWatch[w][i]
      /\ childWatch'[w][n + 1] = v
      /\ childWatch'[w] # <<>>
  BY WriteChildFacts, SMT DEF CleanInv
<1>2. child[w] = children[w] \/ (n \in 1..n /\ child[w] = childWatch[w][n])
  <2>1. childWatch[w] \in Seq(MaybeChild)
    BY DEF CleanInv, ChildTypes
  <2>2. childWatch[w] # <<>> => n \in 1..n
    BY <1>1, <2>1, EmptySeq, SMT
  <2> QED BY <2>2 DEF CleanInv, ChildrenCatchUp
<1> HIDE DEF n
<1>3. \A i \in 1..(n + 1) : i \in 1..n \/ i = n + 1
  BY <1>1, SMT
<1>4. ChildrenCatchUp'
  BY <1>1 DEF CleanInv, ChildrenCatchUp
<1>5. Recorded'
  <2> SUFFICES ASSUME NEW x \in Services, NEW c \in Configs, Found(x, c)'
               PROVE  <<x, c>> \in written'
    BY DEF Recorded
  <2>1. CASE Found(x, c)
    BY <2>1 DEF CleanInv, Recorded
  <2>2. CASE ~Found(x, c)
    <3>1. x = w /\ Runs(v, c)
      BY <1>1, <1>3, <2>2 DEF Found, Says, Runs, n
    <3>2. ~(child[w] # None /\ v.cfg = child[w].cfg)
      BY <1>2, <2>2, <3>1 DEF Found, Runs, n
    <3>3. ~(held # None /\ v.cfg = held.spec[w])
      BY <2>2, <3>1 DEF Found, Says, Runs
    <3>4. v # None /\ v.cfg = c
      BY <3>1 DEF Runs
    <3> QED BY <3>1, <3>2, <3>3, <3>4 DEF Lawful
  <2> QED BY <2>1, <2>2
<1>6. ASSUME NEW c \in Configs, Says(stack, w, c)
      PROVE  /\ (\E i \in 1..n : Runs(childWatch[w][i], c)) \/ Runs(children[w], c)
                  => Matches(v, c)
             /\ Runs(v, c) => ReadBy(w, c) /\ Matches(v, c)
  <2>1. StackSettles(w, c) /\ ChildSettles(w, c) /\ <<w, c>> \in written
    BY <1>6 DEF CleanInv, Settling, Recorded, Found
  <2>2. ASSUME (\E i \in 1..n : Runs(childWatch[w][i], c)) \/ Runs(children[w], c)
        PROVE  ReadBy(w, c) /\ Matches(child[w], c)
    <3>1. ReadBy(w, c)
      BY <2>1, <2>2 DEF ChildSettles, n
    <3>2. CASE child[w] = children[w] /\ Runs(children[w], c)
      BY <3>1, <3>2 DEF Matches, Runs
    <3>3. CASE n \in 1..n /\ child[w] = childWatch[w][n]
      <4>1. Matches(childWatch[w][n], c)
        <5>1. CASE Runs(children[w], c)
          BY <2>1, <3>3, <5>1 DEF ChildSettles, n
        <5>2. ASSUME NEW i \in 1..n, Runs(childWatch[w][i], c) PROVE Matches(childWatch[w][n], c)
          <6>1. n \in i..n
            BY <1>1, <3>3, <5>2, SMT
          <6> QED BY <2>1, <5>2, <6>1 DEF ChildSettles, n
        <5> QED BY <2>2, <5>1, <5>2
      <4> QED BY <3>1, <3>3, <4>1 DEF Matches
    <3>4. CASE childWatch[w] = <<>>
      <4>1. n = 0 /\ child[w] = children[w]
        BY <3>4 DEF n, CleanInv, ChildrenCatchUp
      <4> QED BY <2>2, <3>2, <3>1, <4>1, SMT
    <3>5. childWatch[w] # <<>> => n \in 1..n /\ child[w] = childWatch[w][n]
      <4>1. childWatch[w] \in Seq(MaybeChild)
        BY DEF CleanInv, ChildTypes
      <4>2. childWatch[w] # <<>> => n \in 1..n
        BY <1>1, <4>1, EmptySeq, SMT DEF n
      <4> QED BY <4>2 DEF n, CleanInv, ChildrenCatchUp
    <3> QED BY <3>1, <3>3, <3>4, <3>5
  <2>3. Runs(child[w], c) => ReadBy(w, c)
    BY <1>2, <2>1 DEF ChildSettles, Runs, n
  <2>4. ASSUME (\E i \in 1..n : Runs(childWatch[w][i], c)) \/ Runs(children[w], c)
        PROVE  Matches(v, c)
    <3>1. ReadBy(w, c) /\ Matches(child[w], c)
      BY <2>2, <2>4
    <3> QED BY <3>1 DEF Lawful, Matches, ReadBy, Says
  <2>5. Runs(v, c) => ReadBy(w, c)
    <3> SUFFICES ASSUME Runs(v, c) PROVE ReadBy(w, c)
      OBVIOUS
    <3>1. CASE child[w] # None /\ v.cfg = child[w].cfg
      BY <2>3, <3>1 DEF Runs
    <3>2. CASE held # None /\ v.cfg = held.spec[w]
      BY <2>1, <3>2 DEF StackSettles, ReadBy, Runs, Says
    <3>3. v # None /\ <<w, v.cfg>> \in written
      BY <2>1 DEF Runs
    <3> QED BY <3>1, <3>2, <3>3 DEF Lawful
  <2> QED BY <2>4, <2>5 DEF Runs, Matches
<1>7. Settling'
  <2> SUFFICES ASSUME NEW x \in Services, NEW c \in Configs, Says(stack, x, c)'
               PROVE  StackSettles(x, c)' /\ ChildSettles(x, c)'
    BY DEF Settling
  <2>1. Says(stack, x, c)
    BY DEF Says
  <2>2. StackSettles(x, c) /\ ChildSettles(x, c)
    BY <2>1 DEF CleanInv, Settling
  <2>3. StackSettles(x, c)'
    BY <2>2 DEF StackSettles, Says
  <2>4. ReadBy(x, c)' <=> ReadBy(x, c)
    BY DEF ReadBy, Says
  <2>5. CASE x # w
    <3>1. childWatch'[x] = childWatch[x] /\ children'[x] = children[x]
      BY <1>1, <2>5
    <3>2. ChildSettles(x, c)'
      BY <2>2, <2>4, <3>1 DEF ChildSettles, Runs, Matches
    <3> QED BY <2>3, <3>2
  <2>6. CASE x = w
    <3>1. /\ \A i \in 1..n : Runs(childWatch[w][i], c)
               => ReadBy(w, c) /\ \A j \in i..n : Matches(childWatch[w][j], c)
          /\ Runs(children[w], c)
               => ReadBy(w, c) /\ \A j \in 1..n : Matches(childWatch[w][j], c)
      BY <2>2, <2>6 DEF ChildSettles, n
    <3>2. \A i \in 1..n : \A j \in i..(n + 1) : j \in i..n \/ j = n + 1
      BY <1>1, SMT
    <3>3. \A i \in 1..(n + 1) : i \in 1..n \/ i = n + 1
      BY <1>3
    <3>4. \A i \in 1..(n + 1) : Runs(childWatch'[w][i], c)
            => ReadBy(w, c) /\ \A j \in i..(n + 1) : Matches(childWatch'[w][j], c)
      <4> SUFFICES ASSUME NEW i \in 1..(n + 1), Runs(childWatch'[w][i], c)
                   PROVE  ReadBy(w, c) /\ \A j \in i..(n + 1) : Matches(childWatch'[w][j], c)
        OBVIOUS
      <4>1. CASE i \in 1..n
        <5>1. Runs(childWatch[w][i], c)
          BY <1>1, <4>1
        <5>2. ReadBy(w, c) /\ (\A j \in i..n : Matches(childWatch[w][j], c)) /\ Matches(v, c)
          BY <1>6, <2>1, <2>6, <3>1, <4>1, <5>1
        <5>3. \A j \in i..n : childWatch'[w][j] = childWatch[w][j]
          BY <1>1, <4>1, SMT
        <5> QED BY <1>1, <3>2, <4>1, <5>2, <5>3
      <4>2. CASE i = n + 1
        <5>1. Runs(v, c) /\ \A j \in i..(n + 1) : j = n + 1
          BY <1>1, <4>2, SMT
        <5> QED BY <1>1, <1>6, <2>1, <2>6, <5>1
      <4> QED BY <3>3, <4>1, <4>2
    <3>5. Runs(children[w], c)
            => ReadBy(w, c) /\ \A j \in 1..(n + 1) : Matches(childWatch'[w][j], c)
      BY <1>1, <1>3, <1>6, <2>1, <2>6, <3>1
    <3>6. ChildSettles(w, c)'
      BY <1>1, <2>4, <2>6, <3>4, <3>5 DEF ChildSettles, Runs, Matches
    <3> QED BY <2>3, <2>6, <3>6
  <2> QED BY <2>3, <2>5, <2>6
<1>8. CleanIsApplied'
  <2> SUFFICES ASSUME stack # None, ~IsStackDirty(stack), NEW x \in Services,
                      child'[x] # None, child'[x].exp, stack.spec[x] # None
               PROVE  child'[x].cfg = stack.spec[x]
    BY DEF CleanIsApplied, IsStackDirty
  <2>1. child[x] # None /\ child[x].exp => child[x].cfg = stack.spec[x]
    BY DEF CleanInv, CleanIsApplied
  <2>2. held # None => held.spec[x] = stack.spec[x]
    BY DEF CleanInv, CleanIsKnown
  <2> QED BY <1>1, <2>1, <2>2 DEF Lawful
<1> QED BY <1>4, <1>5, <1>7, <1>8

\* A step that moves neither the stack nor a child, and gives the reconciler
\* what the store holds or nothing.
LEMMA ReadSettles ==
    ASSUME IInv, CleanInv, UNCHANGED <<stack, watch, store, children, childWatch, written>>,
           held' \in {held, store, None}
    PROVE  Recorded' /\ Settling'
<1>1. Recorded'
  <2> SUFFICES ASSUME NEW w \in Services, NEW c \in Configs, Found(w, c)'
               PROVE  <<w, c>> \in written
    BY DEF Recorded
  <2>1. Found(w, c)
    BY DEF Found, Says, Runs
  <2> QED BY <2>1 DEF CleanInv, Recorded
<1>2. Settling'
  <2> SUFFICES ASSUME NEW w \in Services, NEW c \in Configs, Says(stack, w, c)'
               PROVE  StackSettles(w, c)' /\ ChildSettles(w, c)'
    BY DEF Settling
  <2>1. StackSettles(w, c) /\ ChildSettles(w, c)
    BY DEF CleanInv, Settling, Says
  <2>2. StackSettles(w, c)'
    BY <2>1 DEF StackSettles, Says
  <2>3. ReadBy(w, c) => ReadBy(w, c)'
    BY DEF ReadBy, Says
  <2>4. ChildSettles(w, c)'
    BY <2>1, <2>3 DEF ChildSettles, Runs, Matches
  <2> QED BY <2>2, <2>4
<1> QED BY <1>1, <1>2

\* The informer applies an event of the stack.
LEMMA WatchSettles ==
    ASSUME IInv, CleanInv, watch # <<>>, store' = Head(watch), watch' = Tail(watch),
           UNCHANGED <<stack, held, children, childWatch, written>>
    PROVE  Recorded' /\ Settling' /\ CleanIsKnown'
<1>1. /\ Len(watch) \in Nat /\ Len(watch) > 0 /\ Len(watch') = Len(watch) - 1
      /\ store' = watch[1] /\ 1 \in 1..Len(watch)
      /\ \A i \in 1..Len(watch') : watch'[i] = watch[i + 1] /\ i + 1 \in 1..Len(watch)
  <2>1. watch \in Seq(MaybeStack)
    BY DEF IInv, StackTypes
  <2>2. /\ Len(watch) \in Nat /\ Len(watch) > 0 /\ Len(watch') = Len(watch) - 1
        /\ store' = watch[1]
        /\ \A i \in 1..Len(watch') : watch'[i] = watch[i + 1]
    BY <2>1, HeadTailProperties, EmptySeq, SMT
  <2> QED BY <2>2, SMT
<1>2. Recorded'
  <2> SUFFICES ASSUME NEW w \in Services, NEW c \in Configs, Found(w, c)'
               PROVE  <<w, c>> \in written
    BY DEF Recorded
  <2>1. Found(w, c)
    BY <1>1 DEF Found, Says, Runs
  <2> QED BY <2>1 DEF CleanInv, Recorded
<1>3. Settling'
  <2> SUFFICES ASSUME NEW w \in Services, NEW c \in Configs, Says(stack, w, c)'
               PROVE  StackSettles(w, c)' /\ ChildSettles(w, c)'
    BY DEF Settling
  <2>1. StackSettles(w, c) /\ ChildSettles(w, c)
    BY DEF CleanInv, Settling, Says
  <2>2. Says(store, w, c) => Says(store', w, c)
    BY <1>1, <2>1 DEF StackSettles
  <2>3. \A j \in 1..Len(watch') : Says(watch[1], w, c) => Says(watch'[j], w, c)
    BY <1>1, <2>1, SMT DEF StackSettles
  <2>4. \A i, j \in 1..Len(watch') : i <= j /\ Says(watch'[i], w, c) => Says(watch'[j], w, c)
    <3> SUFFICES ASSUME NEW i \in 1..Len(watch'), NEW j \in 1..Len(watch'), i <= j,
                        Says(watch'[i], w, c)
                 PROVE  Says(watch'[j], w, c)
      OBVIOUS
    <3>1. /\ watch'[i] = watch[i + 1] /\ watch'[j] = watch[j + 1]
          /\ i + 1 \in 1..Len(watch) /\ j + 1 \in 1..Len(watch) /\ i + 1 <= j + 1
      BY <1>1, SMT
    <3> QED BY <2>1, <3>1 DEF StackSettles
  <2>5. StackSettles(w, c)'
    BY <1>1, <2>1, <2>2, <2>3, <2>4 DEF StackSettles, Says
  <2>6. ReadBy(w, c) => ReadBy(w, c)'
    BY <2>2 DEF ReadBy, Says
  <2>7. ChildSettles(w, c)'
    BY <2>1, <2>6 DEF ChildSettles, Runs, Matches
  <2> QED BY <2>5, <2>7
<1>4. CleanIsKnown'
  BY <1>1 DEF CleanInv, CleanIsKnown, IsStackDirty
<1> QED BY <1>2, <1>3, <1>4

\* The informer lists again.
LEMMA ListSettles ==
    ASSUME IInv, CleanInv, store' = stack, watch' = <<>>, UNCHANGED <<stack, child, written>>,
           \/ UNCHANGED <<held, children, childWatch>>
           \/ /\ held' = None /\ children' = child
              /\ childWatch' = [w \in Services |-> <<>>]
    PROVE  Recorded' /\ Settling' /\ CleanIsKnown' /\ ChildrenCatchUp'
<1>1. Len(watch') = 0 /\ Len(<<>>) = 0
  OBVIOUS
<1>2. ChildrenCatchUp'
  BY DEF CleanInv, ChildrenCatchUp
<1>3. ASSUME NEW w \in Services
      PROVE  \/ child[w] = children[w]
             \/ Len(childWatch[w]) \in 1..Len(childWatch[w])
                /\ child[w] = childWatch[w][Len(childWatch[w])]
  <2>1. childWatch[w] \in Seq(MaybeChild)
    BY DEF CleanInv, ChildTypes
  <2>2. childWatch[w] # <<>> => Len(childWatch[w]) \in 1..Len(childWatch[w])
    BY <2>1, EmptySeq, SMT
  <2> QED BY <2>2 DEF CleanInv, ChildrenCatchUp
<1>4. Recorded'
  <2> SUFFICES ASSUME NEW w \in Services, NEW c \in Configs, Found(w, c)'
               PROVE  <<w, c>> \in written
    BY DEF Recorded
  <2>1. CASE UNCHANGED <<held, children, childWatch>>
    <3>1. Found(w, c)
      BY <1>1, <2>1, SMT DEF Found, Says, Runs
    <3> QED BY <3>1 DEF CleanInv, Recorded
  <2>2. CASE held' = None /\ children' = child /\ childWatch' = [x \in Services |-> <<>>]
    <3>1. childWatch'[w] = <<>> /\ Len(childWatch'[w]) = 0
      BY <2>2
    <3>2. Says(stack, w, c) \/ Runs(child[w], c)
      BY <1>1, <2>2, <3>1, SMT DEF Found, Says, Runs
    <3>3. Found(w, c)
      BY <1>3, <3>2 DEF Found, Runs
    <3> QED BY <3>3 DEF CleanInv, Recorded
  <2> QED BY <2>1, <2>2
<1>5. Settling'
  <2> SUFFICES ASSUME NEW w \in Services, NEW c \in Configs, Says(stack, w, c)'
               PROVE  StackSettles(w, c)' /\ ChildSettles(w, c)'
    BY DEF Settling
  <2>1. Says(stack, w, c) /\ StackSettles(w, c) /\ ChildSettles(w, c)
    BY DEF CleanInv, Settling, Says
  <2>2. StackSettles(w, c)'
    BY <1>1, <2>1, SMT DEF StackSettles, Says
  <2>3. CASE UNCHANGED <<held, children, childWatch>>
    <3>1. ReadBy(w, c) => ReadBy(w, c)'
      BY <2>1, <2>3 DEF ReadBy, Says
    <3>2. ChildSettles(w, c)'
      BY <2>1, <2>3, <3>1 DEF ChildSettles, Runs, Matches
    <3> QED BY <2>2, <3>2
  <2>4. CASE held' = None /\ children' = child /\ childWatch' = [x \in Services |-> <<>>]
    <3>1. ReadBy(w, c)'
      BY <2>1, <2>4 DEF ReadBy, Says
    <3>2. childWatch'[w] = <<>> /\ Len(childWatch'[w]) = 0
      BY <2>4
    <3>3. ChildSettles(w, c)'
      BY <3>1, <3>2, SMT DEF ChildSettles
    <3> QED BY <2>2, <3>3
  <2> QED BY <2>3, <2>4
<1>6. CleanIsKnown'
  BY <1>1, SMT DEF CleanInv, CleanIsKnown, IsStackDirty
<1> QED BY <1>2, <1>4, <1>5, <1>6

\* A children informer applies an event.
LEMMA ChildEventSettles ==
    ASSUME IInv, CleanInv, NEW w \in Services, ChildEvent(w)
    PROVE  Recorded' /\ Settling' /\ ChildrenCatchUp' /\ ChildTypes'
<1> DEFINE n == Len(childWatch[w])
<1>0. /\ UNCHANGED <<stack, watch, store, held, child, plan, written>>
      /\ childWatch[w] \in Seq(MaybeChild) /\ childWatch[w] # <<>>
  BY DEF ChildEvent, apiVars, informerVars, recVars, CleanInv, ChildTypes
<1>1. /\ childWatch'[w] = Tail(childWatch[w]) /\ children'[w] = Head(childWatch[w])
      /\ \A x \in Services \ {w} : childWatch'[x] = childWatch[x] /\ children'[x] = children[x]
  BY DEF ChildEvent, CleanInv, ChildTypes
<1>2. /\ n \in Nat /\ n > 0 /\ Len(childWatch'[w]) = n - 1
      /\ children'[w] = childWatch[w][1] /\ children'[w] \in MaybeChild
      /\ childWatch'[w] \in Seq(MaybeChild)
      /\ \A i \in 1..(n - 1) : childWatch'[w][i] = childWatch[w][i + 1]
  BY <1>0, <1>1, HeadTailProperties, EmptySeq, SMT
<1>3. ChildTypes'
  <2>1. /\ childWatch' = [childWatch EXCEPT ![w] = childWatch'[w]]
        /\ children' = [children EXCEPT ![w] = children'[w]]
    BY <1>1 DEF ChildEvent, CleanInv, ChildTypes
  <2> QED BY <1>0, <1>2, <2>1 DEF CleanInv, ChildTypes
<1>4. ChildrenCatchUp'
  <2> SUFFICES ASSUME NEW x \in Services
               PROVE  child[x] = IF childWatch'[x] = <<>> THEN children'[x]
                                 ELSE childWatch'[x][Len(childWatch'[x])]
    BY <1>0 DEF ChildrenCatchUp
  <2>1. CASE x # w
    BY <1>1, <2>1 DEF CleanInv, ChildrenCatchUp
  <2>2. CASE x = w
    <3>1. child[w] = childWatch[w][n]
      BY <1>0 DEF CleanInv, ChildrenCatchUp
    <3>2. CASE n = 1
      <4>1. childWatch'[w] = <<>>
        BY <1>2, <3>2, EmptySeq, SMT
      <4> QED BY <1>2, <2>2, <3>1, <3>2, <4>1
    <3>3. CASE n > 1
      <4>1. childWatch'[w] # <<>>
        BY <1>2, <3>3, EmptySeq, SMT
      <4>2. childWatch'[w][n - 1] = childWatch[w][n]
        <5>1. n \in Nat /\ \A i \in 1..(n - 1) : childWatch'[w][i] = childWatch[w][i + 1]
          BY <1>2
        <5> HIDE DEF n
        <5>2. n - 1 \in 1..(n - 1) /\ (n - 1) + 1 = n
          BY ONLY <3>3, <5>1, SMT
        <5> QED BY ONLY <5>1, <5>2, Zenon
      <4>3. child[w] = childWatch'[w][Len(childWatch'[w])]
        BY ONLY <1>2, <3>1, <4>2
      <4> QED BY ONLY <2>2, <4>1, <4>3
    <3>4. n = 1 \/ n > 1
      <4>1. n \in Nat /\ n > 0
        BY <1>2
      <4> HIDE DEF n
      <4> QED BY ONLY <4>1
    <3> QED BY ONLY <3>2, <3>3, <3>4
  <2> QED BY <2>1, <2>2
<1> HIDE DEF n
<1>5. Recorded'
  <2> SUFFICES ASSUME NEW x \in Services, NEW c \in Configs, Found(x, c)'
               PROVE  <<x, c>> \in written
    BY <1>0 DEF Recorded
  <2>1. Found(x, c)
    <3>1. CASE x # w
      BY <1>0, <1>1, <3>1 DEF Found, Says, Runs
    <3>2. CASE x = w
      <4>1. /\ 1 \in 1..n /\ \A i \in 1..(n - 1) : i + 1 \in 1..n
        BY <1>2, SMT
      <4>2. Runs(childWatch[w][1], c) \/ (\E i \in 1..(n - 1) : Runs(childWatch'[w][i], c))
              => \E i \in 1..n : Runs(childWatch[w][i], c)
        BY <1>2, <4>1
      <4> QED BY <1>0, <1>2, <3>2, <4>2 DEF Found, Says, Runs, n
    <3> QED BY <3>1, <3>2
  <2> QED BY <2>1 DEF CleanInv, Recorded
<1>6. Settling'
  <2> SUFFICES ASSUME NEW x \in Services, NEW c \in Configs, Says(stack, x, c)'
               PROVE  StackSettles(x, c)' /\ ChildSettles(x, c)'
    BY DEF Settling
  <2>1. StackSettles(x, c) /\ ChildSettles(x, c)
    BY <1>0 DEF CleanInv, Settling, Says
  <2>2. StackSettles(x, c)' /\ (ReadBy(x, c)' <=> ReadBy(x, c))
    BY <1>0, <2>1 DEF StackSettles, ReadBy, Says
  <2>3. CASE x # w
    <3>1. childWatch'[x] = childWatch[x] /\ children'[x] = children[x]
      BY <1>1, <2>3
    <3>2. ChildSettles(x, c)'
      BY <2>1, <2>2, <3>1, ZenonT(30) DEF ChildSettles, Runs, Matches
    <3> QED BY <2>2, <3>2
  <2>4. CASE x = w
    <3>1. \A i \in 1..n : Runs(childWatch[w][i], c)
            => ReadBy(w, c) /\ \A j \in i..n : Matches(childWatch[w][j], c)
      BY <2>1, <2>4 DEF ChildSettles, n
    <3>2. ASSUME NEW i \in 1..n, Runs(childWatch[w][i], c),
                 NEW j \in 1..(n - 1), i <= j + 1
          PROVE  ReadBy(w, c) /\ Matches(childWatch'[w][j], c)
      <4>1. j + 1 \in i..n /\ childWatch'[w][j] = childWatch[w][j + 1]
        BY <1>2, <3>2, SMT
      <4> QED BY <3>1, <3>2, <4>1
    <3>3. \A i \in 1..(n - 1) : Runs(childWatch'[w][i], c)
            => ReadBy(w, c) /\ \A j \in i..(n - 1) : Matches(childWatch'[w][j], c)
      <4> SUFFICES ASSUME NEW i \in 1..(n - 1), Runs(childWatch'[w][i], c)
                   PROVE  ReadBy(w, c) /\ \A j \in i..(n - 1) : Matches(childWatch'[w][j], c)
        OBVIOUS
      <4>1. i + 1 \in 1..n /\ Runs(childWatch[w][i + 1], c)
        BY <1>2, SMT
      <4>2. \A j \in i..(n - 1) : j \in 1..(n - 1) /\ i + 1 <= j + 1
        BY <1>2, SMT
      <4> QED BY <3>1, <3>2, <4>1, <4>2
    <3>4. Runs(children'[w], c)
            => ReadBy(w, c) /\ \A j \in 1..(n - 1) : Matches(childWatch'[w][j], c)
      <4> SUFFICES ASSUME Runs(children'[w], c)
                   PROVE  ReadBy(w, c) /\ \A j \in 1..(n - 1) : Matches(childWatch'[w][j], c)
        OBVIOUS
      <4>1. 1 \in 1..n /\ Runs(childWatch[w][1], c)
        BY <1>2, SMT
      <4>2. \A j \in 1..(n - 1) : 1 <= j + 1
        BY <1>2, SMT
      <4> QED BY <3>1, <3>2, <4>1, <4>2
    <3>5. ChildSettles(w, c)'
      BY <1>2, <2>2, <2>4, <3>3, <3>4 DEF ChildSettles, Runs, Matches
    <3> QED BY <2>2, <2>4, <3>5
  <2> QED BY <2>3, <2>4
<1> QED BY <1>3, <1>4, <1>5, <1>6

\* The parts of the invariant that a step keeps when it leaves alone what they
\* are about.
LEMMA PassKept ==
    ASSUME CleanInv, UNCHANGED <<stack, child, pc, held, heldFresh, plan, err>>
    PROVE  Plans' /\ PassApplies'
BY DEF CleanInv, Plans, PassApplies, Says, Matches

\* What a scenario reverts is a constant of the behaviour.
LEMMA RevertsKept ==
    ASSUME IInv, Left, CleanInv, [Next]_vars
    PROVE  ~budget'.of.reverts
BY SpentStep DEF CleanInv

\* A user's write makes a stack unclean, or leaves its children alone.
LEMMA UserClean ==
    ASSUME IInv, Left, CleanInv, Next, UserOperation \/ FinishForeground
    PROVE  CleanInv'
<1>1. UNCHANGED <<store, child, children, childWatch, pc, held, plan, err>>
  BY DEF UserOperation, CreateStack, UpdateStack, DeleteStack, DeleteStackForeground,
         FinishForeground, informerVars, childVars
<1>2. ChildTypes' /\ ChildrenCatchUp' /\ Plans'
  BY <1>1 DEF CleanInv, ChildTypes, ChildrenCatchUp, Plans
<1>3. stack' \in MaybeStack
  BY StepInv DEF IInv, StackTypes
<1>4. ASSUME NEW s \in MaybeStack, WriteStack(s), Recorded' /\ Settling',
             \/ s = None
             \/ s.phase = "pending"
             \/ stack # None /\ s.spec = stack.spec /\ s.phase = stack.phase
      PROVE  CleanInv'
  <2>1. stack' = s /\ watch' = Append(watch, s) /\ ~heldFresh'
    BY <1>4 DEF WriteStack
  <2>2. FreshIsRead' /\ PassApplies'
    BY <2>1 DEF FreshIsRead, PassApplies
  <2>3. CleanIsKnown' /\ CleanIsApplied'
    <3> SUFFICES ASSUME s # None, ~IsStackDirty(s)
                 PROVE  CleanIsKnown' /\ CleanIsApplied'
      BY <2>1 DEF CleanIsKnown, CleanIsApplied, IsStackDirty
    <3>1. stack # None /\ s.spec = stack.spec /\ ~IsStackDirty(stack)
      BY <1>4 DEF IsStackDirty
    <3>2. /\ Len(watch) \in Nat /\ Len(watch') = Len(watch) + 1
          /\ \A i \in 1..Len(watch) : watch'[i] = watch[i]
          /\ watch'[Len(watch')] = s
      BY <2>1, AppendProperties, SMT DEF IInv, StackTypes
    <3>3. \A i \in 1..Len(watch') : i \in 1..Len(watch) \/ i = Len(watch')
      BY <3>2, SMT
    <3>4. CleanIsKnown'
      BY <1>1, <2>1, <3>1, <3>2, <3>3 DEF CleanInv, CleanIsKnown
    <3>5. CleanIsApplied'
      BY <1>1, <2>1, <3>1 DEF CleanInv, CleanIsApplied
    <3> QED BY <3>4, <3>5
  <2> QED BY <1>2, <1>4, <2>2, <2>3, RevertsKept DEF CleanInv
<1>5. ASSUME NEW u \in Users, NEW sp \in UserSpecs, CreateStack(u, sp)
      PROVE  CleanInv'
  <2> DEFINE s == [uid |-> budget.stacks, spec |-> sp, owner |-> u,
                   phase |-> "pending", deleting |-> FALSE]
  <2>1. WriteStack(s) /\ s \in MaybeStack /\ s.phase = "pending" /\ s.spec = sp
    BY <1>3, <1>5 DEF CreateStack, WriteStack
  <2>2. /\ written' = written \cup {<<w, sp[w]>> : w \in Services}
        /\ \A w \in Services : sp[w] = None \/ <<w, sp[w]>> \notin written
    BY <1>5 DEF CreateStack, Record, Writable, CleanInv
  <2> HIDE DEF s
  <2>3. \A w \in Services, c \in Configs : Says(s, w, c)
          => <<w, c>> \in written' /\ (Says(stack, w, c) \/ <<w, c>> \notin written)
    BY <2>1, <2>2, StackControllerAssumption DEF Says
  <2>4. Recorded' /\ Settling'
    BY <1>1, <2>1, <2>2, <2>3, WriteSettles
  <2> QED BY <1>4, <2>1, <2>4
<1>6. ASSUME NEW u \in Users, NEW sp \in UserSpecs, UpdateStack(u, sp)
      PROVE  CleanInv'
  <2> DEFINE s == [stack EXCEPT !.spec = sp, !.owner = u, !.phase = "pending"]
  <2>1. stack \in StackSet /\ stack # None
    BY <1>6 DEF UpdateStack, IInv, StackTypes, MaybeStack
  <2>2. WriteStack(s) /\ s \in MaybeStack /\ s.phase = "pending" /\ s.spec = sp
    BY <1>3, <1>6, <2>1 DEF UpdateStack, WriteStack, StackSet
  <2>3. /\ written' = written \cup {<<w, sp[w]>> : w \in Services}
        /\ \A w \in Services : sp[w] \in {stack.spec[w], None} \/ <<w, sp[w]>> \notin written
    BY <1>6 DEF UpdateStack, Record, Writable, CleanInv
  <2> HIDE DEF s
  <2>4. \A w \in Services, c \in Configs : Says(s, w, c)
          => <<w, c>> \in written' /\ (Says(stack, w, c) \/ <<w, c>> \notin written)
    BY <2>1, <2>2, <2>3, StackControllerAssumption DEF Says
  <2>5. Recorded' /\ Settling'
    BY <1>1, <2>2, <2>3, <2>4, WriteSettles
  <2> QED BY <1>4, <2>2, <2>5
<1>7. CASE DeleteStack \/ FinishForeground
  <2>1. WriteStack(None) /\ None \in MaybeStack /\ UNCHANGED written
    BY <1>7 DEF DeleteStack, FinishForeground, MaybeStack
  <2>2. Recorded' /\ Settling'
    BY <1>1, <2>1, WriteSettles DEF Says
  <2> QED BY <1>4, <2>1, <2>2
<1>8. CASE DeleteStackForeground
  <2> DEFINE s == [stack EXCEPT !.deleting = TRUE]
  <2>1. stack \in StackSet /\ stack # None
    BY <1>8 DEF DeleteStackForeground, IInv, StackTypes, MaybeStack
  <2>2. /\ WriteStack(s) /\ s \in MaybeStack /\ s.phase = stack.phase /\ s.spec = stack.spec
        /\ UNCHANGED written
    BY <1>3, <1>8, <2>1 DEF DeleteStackForeground, WriteStack, StackSet
  <2> HIDE DEF s
  <2>3. \A w \in Services, c \in Configs : Says(s, w, c)
          => <<w, c>> \in written' /\ (Says(stack, w, c) \/ <<w, c>> \notin written)
    BY <2>1, <2>2 DEF Says, CleanInv, Recorded, Found
  <2>4. Recorded' /\ Settling'
    BY <1>1, <2>2, <2>3, WriteSettles
  <2> QED BY <1>4, <2>1, <2>2, <2>4
<1> QED BY <1>5, <1>6, <1>7, <1>8 DEF UserOperation

\* Kubernetes and third parties change a child, never to what was written before.
LEMMA KubernetesClean ==
    ASSUME IInv, Left, CleanInv, Next,
           Kubernetes \/ \E w \in Services, c \in Configs : Drift(w, c)
    PROVE  CleanInv'
<1>1. ASSUME NEW w \in Services, NEW v \in MaybeChild, ExternalChild(w, v), written \subseteq written',
             \/ v = None
             \/ child[w] # None /\ v.cfg = child[w].cfg /\ v.exp = child[w].exp
             \/ ~v.exp /\ <<w, v.cfg>> \notin written /\ <<w, v.cfg>> \in written'
      PROVE  CleanInv'
  <2>1. /\ WriteChild(w, v) /\ plan' = Outdate(plan, w)
        /\ UNCHANGED <<stack, watch, store, children, pc, held, heldFresh, err>>
    BY <1>1 DEF ExternalChild, apiVars, informerVars
  <2>2. Recorded' /\ Settling' /\ ChildrenCatchUp' /\ CleanIsApplied'
    BY <1>1, <2>1, ChildWriteSettles DEF Lawful
  <2>3. /\ child' \in [Services -> MaybeChild] /\ child'[w] = v
        /\ childWatch' \in [Services -> Seq(MaybeChild)]
        /\ \A x \in Services \ {w} : child'[x] = child[x]
    BY <2>1, WriteChildFacts DEF CleanInv
  <2>4. /\ plan' \in [Services -> PlanSet]
        /\ \A x \in Services : plan'[x].op = plan[x].op /\ plan'[x].cfg = plan[x].cfg
    BY <2>1 DEF Outdate, CleanInv, ChildTypes, PlanSet
  <2>5. ChildTypes' /\ Plans' /\ FreshIsRead' /\ CleanIsKnown'
    BY <2>1, <2>3, <2>4, ZenonT(30)
       DEF CleanInv, ChildTypes, Plans, FreshIsRead, CleanIsKnown, IsStackDirty
  <2>6. PassApplies'
    <3> SUFFICES ASSUME heldFresh, err = None, pc \in {"applyStackDiff", "reconcileStatus"},
                        NEW x \in Services, NEW c \in Configs, plan[x].op = "none", Says(stack, x, c)
                 PROVE  Matches(child'[x], c)
      BY <2>1, <2>4 DEF PassApplies, Says, Matches
    <3>1. Matches(child[x], c)
      BY DEF CleanInv, PassApplies
    <3> QED BY <1>1, <2>3, <3>1 DEF Matches
  <2> QED BY <2>2, <2>5, <2>6, RevertsKept DEF CleanInv
<1>2. ASSUME NEW w \in Services, BecomeReady(w)
      PROVE  CleanInv'
  <2>1. child[w] \in ChildSet /\ child[w] # None
    BY <1>2 DEF BecomeReady, CleanInv, ChildTypes, MaybeChild
  <2> DEFINE v == [child[w] EXCEPT !.ready = TRUE]
  <2>2. v \in MaybeChild /\ v.cfg = child[w].cfg /\ v.exp = child[w].exp
    BY <2>1 DEF ChildSet, MaybeChild
  <2>3. ExternalChild(w, v) /\ UNCHANGED written
    BY <1>2 DEF BecomeReady
  <2> HIDE DEF v
  <2> QED BY <1>1, <2>1, <2>2, <2>3
<1>3. ASSUME NEW w \in Services, Collect(w)
      PROVE  CleanInv'
  BY <1>1, <1>3 DEF Collect, MaybeChild
<1>4. ASSUME NEW w \in Services, NEW c \in Configs, Drift(w, c)
      PROVE  CleanInv'
  <2>1. child[w] \in ChildSet /\ child[w] # None
    BY <1>4 DEF Drift, CleanInv, ChildTypes, MaybeChild
  <2> DEFINE v == [child[w] EXCEPT !.cfg = c, !.exp = FALSE, !.ready = FALSE]
  <2>2. v \in MaybeChild /\ v.cfg = c /\ ~v.exp
    BY <2>1 DEF ChildSet, MaybeChild
  <2>3. /\ ExternalChild(w, v) /\ <<w, c>> \notin written
        /\ written' = written \cup {<<w, c>>}
    BY <1>4 DEF Drift, CleanInv
  <2> HIDE DEF v
  <2> QED BY <1>1, <2>2, <2>3
<1> QED BY <1>2, <1>3, <1>4 DEF Kubernetes

\* At rest the reconciler has nothing planned and holds nothing.
LEMMA IdleClean ==
    ASSUME Idle
    PROVE  /\ plan' \in [Services -> PlanSet] /\ held' = None
           /\ Plans' /\ FreshIsRead' /\ PassApplies'
<1>1. NoPlan \in PlanSet
  BY DEF NoPlan, PlanSet
<1> QED BY <1>1 DEF Idle, Plans, FreshIsRead, PassApplies

\* A step that touches neither the stack nor a child nor an informer's copy.
LEMMA QuietClean ==
    ASSUME IInv, Left, CleanInv, Next,
           UNCHANGED <<stack, watch, store, child, children, childWatch, written>>,
           held' \in {held, store, None}, plan' \in [Services -> PlanSet],
           Plans', FreshIsRead', PassApplies'
    PROVE  CleanInv'
<1>1. Recorded' /\ Settling'
  BY ReadSettles
<1>2. ChildTypes' /\ ChildrenCatchUp'
  BY DEF CleanInv, ChildTypes, ChildrenCatchUp
<1>3. CleanIsKnown' /\ CleanIsApplied'
  BY DEF CleanInv, CleanIsKnown, CleanIsApplied, IsStackDirty
<1> QED BY <1>1, <1>2, <1>3, RevertsKept DEF CleanInv

\* An event tells what the server already holds.
LEMMA InformerClean ==
    ASSUME IInv, Left, CleanInv, Next, Listeners \/ Relist \/ Resync \/ Restart
    PROVE  CleanInv'
<1>1. CASE StackWatch
  <2>1. /\ watch # <<>> /\ store' = Head(watch) /\ watch' = Tail(watch)
        /\ UNCHANGED <<stack, child, children, childWatch, written,
                       pc, held, heldFresh, plan, err>>
    BY <1>1 DEF StackWatch, childVars, recVars
  <2>2. Recorded' /\ Settling' /\ CleanIsKnown'
    BY <2>1, WatchSettles
  <2>3. Plans' /\ PassApplies'
    BY <2>1, PassKept
  <2>4. ChildTypes' /\ ChildrenCatchUp' /\ FreshIsRead' /\ CleanIsApplied'
    BY <2>1 DEF CleanInv, ChildTypes, ChildrenCatchUp, FreshIsRead, CleanIsApplied, IsStackDirty
  <2> QED BY <2>2, <2>3, <2>4, RevertsKept DEF CleanInv
<1>2. CASE onUpdate \/ onDelete \/ Resync
  <2>1. UNCHANGED <<stack, watch, store, child, children, childWatch, written,
                    pc, held, heldFresh, plan, err>>
    BY <1>2 DEF onUpdate, onDelete, Resync, apiVars, childVars, recVars
  <2>2. Plans' /\ PassApplies' /\ FreshIsRead' /\ plan' \in [Services -> PlanSet]
    BY <2>1, PassKept DEF CleanInv, FreshIsRead, ChildTypes
  <2> QED BY <2>1, <2>2, QuietClean
<1>3. ASSUME NEW w \in Services, ChildEvent(w)
      PROVE  CleanInv'
  <2>1. UNCHANGED <<stack, watch, store, child, pc, held, heldFresh, plan, err>>
    BY <1>3 DEF ChildEvent, apiVars, informerVars, recVars
  <2>2. Recorded' /\ Settling' /\ ChildrenCatchUp' /\ ChildTypes'
    BY <1>3, ChildEventSettles
  <2>3. Plans' /\ PassApplies'
    BY <2>1, PassKept
  <2>4. FreshIsRead' /\ CleanIsApplied' /\ CleanIsKnown'
    BY <2>1 DEF CleanInv, FreshIsRead, CleanIsApplied, CleanIsKnown, IsStackDirty
  <2> QED BY <2>2, <2>3, <2>4, RevertsKept DEF CleanInv
<1>4. CASE Relist
  <2>1. /\ store' = stack /\ watch' = <<>>
        /\ UNCHANGED <<stack, child, children, childWatch, written,
                       pc, held, heldFresh, plan, err>>
    BY <1>4 DEF Relist, childVars, recVars
  <2>2. Recorded' /\ Settling' /\ CleanIsKnown' /\ ChildrenCatchUp'
    BY <2>1, ListSettles
  <2>3. Plans' /\ PassApplies'
    BY <2>1, PassKept
  <2>4. ChildTypes' /\ FreshIsRead' /\ CleanIsApplied'
    BY <2>1 DEF CleanInv, ChildTypes, FreshIsRead, CleanIsApplied, IsStackDirty
  <2> QED BY <2>2, <2>3, <2>4, RevertsKept DEF CleanInv
<1>5. CASE Restart
  <2>1. /\ store' = stack /\ watch' = <<>> /\ Idle
        /\ children' = child /\ childWatch' = [w \in Services |-> <<>>]
        /\ UNCHANGED <<stack, child, written>>
    BY <1>5 DEF Restart
  <2>2. /\ plan' \in [Services -> PlanSet] /\ held' = None
        /\ Plans' /\ FreshIsRead' /\ PassApplies'
    BY <2>1, IdleClean
  <2>3. Recorded' /\ Settling' /\ CleanIsKnown' /\ ChildrenCatchUp'
    BY <2>1, <2>2, ListSettles
  <2>4. ChildTypes'
    <3>1. <<>> \in Seq(MaybeChild)
      BY SMT
    <3> QED BY <2>1, <2>2, <3>1 DEF CleanInv, ChildTypes
  <2>5. CleanIsApplied'
    BY <2>1 DEF CleanInv, CleanIsApplied, IsStackDirty
  <2> QED BY <2>2, <2>3, <2>4, <2>5, RevertsKept DEF CleanInv
<1> QED BY <1>1, <1>2, <1>3, <1>4, <1>5 DEF Listeners

\* The reconciler begins from the stack it has been told of.
LEMMA TakeClean ==
    ASSUME IInv, Left, CleanInv, Next, TakeKey \/ TakeRetry \/ TakeDeletion
    PROVE  CleanInv'
<1>1. UNCHANGED <<stack, watch, store, child, children, childWatch, written>>
  BY DEF TakeKey, TakeRetry, TakeDeletion, environment, apiVars, informerVars, childVars
<1>2. CASE TakeDeletion
  <2>1. pc' = "deleteChildren" /\ UNCHANGED <<held, heldFresh, plan, err>>
    BY <1>2 DEF TakeDeletion
  <2>2. Plans' /\ FreshIsRead' /\ PassApplies' /\ plan' \in [Services -> PlanSet]
    BY <1>1, <2>1 DEF Plans, FreshIsRead, PassApplies, CleanInv, ChildTypes
  <2> QED BY <1>1, <2>1, <2>2, QuietClean
<1>3. CASE TakeKey \/ TakeRetry
  <2>0. ReadStack
    BY <1>3 DEF TakeKey, TakeRetry
  <2>1. CASE Idle
    BY <1>1, <2>1, IdleClean, QuietClean
  <2>2. CASE ~Idle
    <3>1. /\ pc' \in {"deleteChildren", "getUpdater"} /\ held' \in {None, store}
          /\ heldFresh' => watch = <<>>
          /\ UNCHANGED <<plan, err>>
      BY <2>0, <2>2 DEF ReadStack
    <3>2. Plans' /\ FreshIsRead' /\ PassApplies' /\ plan' \in [Services -> PlanSet]
      BY <1>1, <3>1 DEF Plans, FreshIsRead, PassApplies, CleanInv, ChildTypes
    <3> QED BY <1>1, <3>1, <3>2, QuietClean
  <2> QED BY <2>1, <2>2
<1> QED BY <1>2, <1>3

\* Asking for the owner of the stack writes no child.
LEMMA UpdaterClean ==
    ASSUME IInv, Left, CleanInv, Next, GetUpdater \/ DeletionUpdater
    PROVE  CleanInv'
<1>1. UNCHANGED <<stack, watch, store, child, children, childWatch, written>>
  BY DEF GetUpdater, DeletionUpdater, apiVars, informerVars, childVars
<1>2. CASE Idle
  BY <1>1, <1>2, IdleClean, QuietClean
<1>3. CASE ~Idle
  <2>1. UNCHANGED <<held, heldFresh, plan, err>>
    BY <1>3 DEF GetUpdater, DeletionUpdater, OwnerError
  <2>2. \/ pc' = "reconcileChildren"
        \/ pc = "deleteUpdater" /\ pc' \in {"deleteDiff", "deleteSecrets"}
    BY <1>3 DEF GetUpdater, DeletionUpdater, OwnerError
  <2>3. Plans' /\ FreshIsRead' /\ PassApplies' /\ plan' \in [Services -> PlanSet]
    BY <1>1, <2>1, <2>2 DEF Plans, FreshIsRead, PassApplies, CleanInv, ChildTypes
  <2> QED BY <1>1, <2>1, <2>3, QuietClean
<1> QED BY <1>2, <1>3

\* What diff.ComputeDiff plans for one service.
LEMMA DiffFacts ==
    ASSUME NEW w \in Services, NEW d \in Configs \cup {None}, children[w] \in MaybeChild
    PROVE  /\ Diff(w, d) \in PlanSet
           /\ Diff(w, d).op \in {"add", "update"} => Diff(w, d).cfg = d /\ d # None
           /\ Diff(w, d).op = "delete" => d = None
           /\ Diff(w, d).op = "none" /\ d # None => children[w] # None /\ children[w].cfg = d
<1> DEFINE Plan(op) == [op |-> op, cfg |-> d, fresh |-> op = "update" /\ childWatch[w] = <<>>]
<1>1. /\ NoPlan \in PlanSet /\ NoPlan.op = "none"
      /\ \A op \in {"add", "update", "delete"} :
           Plan(op) \in PlanSet /\ Plan(op).op = op /\ Plan(op).cfg = d
  BY DEF NoPlan, PlanSet
<1>2. CASE children[w] = None /\ d = None
  <2>1. Diff(w, d) = NoPlan
    BY <1>2 DEF Diff
  <2> QED BY <1>1, <1>2, <2>1
<1>3. CASE children[w] = None /\ d # None
  <2>1. Diff(w, d) = Plan("add")
    BY <1>3 DEF Diff
  <2> HIDE DEF Plan
  <2> QED BY <1>1, <1>3, <2>1
<1>4. CASE children[w] # None /\ d = None
  <2>1. Diff(w, d) = Plan("delete")
    <3>1. d # children[w].cfg
      BY <1>4, StackControllerAssumption DEF MaybeChild, ChildSet
    <3> QED BY <1>4, <3>1 DEF Diff
  <2> HIDE DEF Plan
  <2> QED BY <1>1, <1>4, <2>1
<1>5. CASE children[w] # None /\ d # None /\ d = children[w].cfg
  <2>1. Diff(w, d) = NoPlan
    BY <1>5 DEF Diff
  <2> QED BY <1>1, <1>5, <2>1
<1>6. CASE children[w] # None /\ d # None /\ d # children[w].cfg
  <2>1. Diff(w, d) = Plan("update")
    BY <1>6 DEF Diff
  <2> HIDE DEF Plan
  <2> QED BY <1>1, <1>6, <2>1
<1> QED BY <1>2, <1>3, <1>4, <1>5, <1>6

\* A service of a stack in a pass is wanted as the spec says, or as it is.
LEMMA DesiredFacts ==
    ASSUME NEW w \in Services, held \in StackSet, children[w] \in MaybeChild
    PROVE  /\ Desired(w) \in Configs \cup {None}
           /\ \/ Desired(w) = held.spec[w]
              \/ /\ ~IsStackDirty(held) /\ children[w] # None
                 /\ Desired(w) = children[w].cfg /\ Desired(w) # None
<1>1. held.spec[w] \in Configs \cup {None}
  BY DEF StackSet, SpecSet
<1>2. CASE held.spec[w] # None /\ ~IsStackDirty(held) /\ children[w] # None /\ children[w].exp
  <2>1. Desired(w) = children[w].cfg /\ children[w].cfg \in Configs
    BY <1>2 DEF Desired, MaybeChild, ChildSet
  <2> QED BY <1>2, <2>1, StackControllerAssumption
<1>3. CASE ~(held.spec[w] # None /\ ~IsStackDirty(held) /\ children[w] # None /\ children[w].exp)
  BY <1>1, <1>3 DEF Desired
<1> QED BY <1>2, <1>3

\* In a pass over the current version, a service for which nothing is planned
\* is as the spec says: the informer has seen it so and the controller has
\* written nothing else since, or the stack is clean.
LEMMA NothingPlanned ==
    ASSUME IInv, CleanInv, heldFresh, NEW w \in Services, NEW c \in Configs,
           Says(stack, w, c), Diff(w, Desired(w)).op = "none"
    PROVE  Matches(child[w], c)
<1>1. held = stack /\ held # None /\ held \in StackSet /\ held.spec[w] = c
  BY DEF IInv, HeldIsCurrent, StackTypes, MaybeStack, Says
<1>2. children[w] \in MaybeChild /\ childWatch[w] \in Seq(MaybeChild)
  BY DEF CleanInv, ChildTypes
<1>3. CASE ~IsStackDirty(stack)
  BY <1>1, <1>3, StackControllerAssumption DEF CleanInv, CleanIsApplied, Matches
<1>4. CASE IsStackDirty(stack)
  <2>1. Desired(w) = c /\ c # None
    BY <1>1, <1>2, <1>4, DesiredFacts, StackControllerAssumption
  <2>2. Runs(children[w], c)
    BY <1>2, <2>1, DiffFacts DEF Runs
  <2>3. ChildSettles(w, c)
    BY DEF CleanInv, Settling
  <2>4. \A j \in 1..Len(childWatch[w]) : Matches(childWatch[w][j], c)
    BY <2>2, <2>3 DEF ChildSettles
  <2>5. childWatch[w] # <<>> => Len(childWatch[w]) \in 1..Len(childWatch[w])
    BY <1>2, EmptySeq, SMT
  <2>6. CASE childWatch[w] = <<>>
    BY <2>2, <2>6 DEF CleanInv, ChildrenCatchUp, Runs, Matches
  <2>7. CASE childWatch[w] # <<>>
    BY <2>4, <2>5, <2>7 DEF CleanInv, ChildrenCatchUp
  <2> QED BY <2>6, <2>7
<1> QED BY <1>3, <1>4

\* What a reconciliation is to do is computed from the state it has read.
LEMMA ComputeClean ==
    ASSUME IInv, Left, CleanInv, Next, ComputeChildren \/ ListChildren
    PROVE  CleanInv'
<1>1. UNCHANGED <<stack, watch, store, child, children, childWatch, written, held, heldFresh>>
  BY DEF ComputeChildren, ListChildren, environment, apiVars, informerVars, childVars
<1>2. FreshIsRead' /\ \A w \in Services : children[w] \in MaybeChild
  BY <1>1 DEF CleanInv, FreshIsRead, ChildTypes
<1>3. CASE ComputeChildren
  <2>1. held \in StackSet
    BY <1>3 DEF ComputeChildren, IInv, Holding, StackTypes, MaybeStack
  <2>2. CASE err' = "nospec" /\ pc' = "reconcileStatus" /\ UNCHANGED plan
    <3>1. err' # None
      BY <2>2, NoneAssumption DEF Failures
    <3>2. Plans' /\ PassApplies' /\ plan' \in [Services -> PlanSet]
      BY <2>2, <3>1 DEF Plans, PassApplies, CleanInv, ChildTypes
    <3> QED BY <1>1, <1>2, <3>2, QuietClean
  <2>3. CASE /\ plan' = [w \in Services |-> Diff(w, Desired(w))]
             /\ pc' = (IF Settled(plan') THEN "reconcileStatus" ELSE "applyStackDiff")
             /\ UNCHANGED err
    <3>1. \A w \in Services :
            /\ plan'[w] = Diff(w, Desired(w)) /\ plan'[w] \in PlanSet
            /\ plan'[w].op \in {"add", "update"} => plan'[w].cfg = held.spec[w] /\ plan'[w].cfg # None
            /\ plan'[w].op = "delete" => held.spec[w] = None
      <4> TAKE w \in Services
      <4>1. plan'[w] = Diff(w, Desired(w)) /\ children[w] \in MaybeChild
        BY <1>2, <2>3
      <4>2. /\ Desired(w) \in Configs \cup {None}
            /\ \/ Desired(w) = held.spec[w]
               \/ /\ children[w] # None /\ Desired(w) = children[w].cfg /\ Desired(w) # None
        BY <2>1, <4>1, DesiredFacts
      <4>3. /\ Diff(w, Desired(w)) \in PlanSet
            /\ Diff(w, Desired(w)).op \in {"add", "update"}
                 => Diff(w, Desired(w)).cfg = Desired(w) /\ Desired(w) # None
            /\ Diff(w, Desired(w)).op = "delete" => Desired(w) = None
        BY <4>1, <4>2, DiffFacts
      <4>4. CASE Desired(w) = held.spec[w]
        BY <4>1, <4>3, <4>4
      <4>5. CASE children[w] # None /\ Desired(w) = children[w].cfg /\ Desired(w) # None
        <5>1. Diff(w, Desired(w)) = NoPlan
          BY <4>5 DEF Diff
        <5> QED BY <4>1, <4>3, <5>1, SMT DEF NoPlan
      <4> QED BY <4>2, <4>4, <4>5
    <3>2. plan' \in [Services -> PlanSet]
      BY <2>3, <3>1
    <3>3. /\ pc' \in {"reconcileStatus", "applyStackDiff"}
          /\ pc' = "reconcileStatus" => \A w \in Services : plan'[w].op = "none"
      BY <2>3 DEF Settled
    <3>4. Plans'
      BY <1>1, <3>1, <3>3 DEF Plans
    <3>5. PassApplies'
      BY <1>1, <3>1, NothingPlanned, ZenonT(30) DEF PassApplies, Says, Matches
    <3> QED BY <1>1, <1>2, <3>2, <3>4, <3>5, QuietClean
  <2> QED BY <1>3, <2>2, <2>3 DEF ComputeChildren
<1>4. CASE ListChildren
  <2>1. plan' = [w \in Services |-> Diff(w, None)] /\ pc' = "deleteUpdater"
    BY <1>4 DEF ListChildren
  <2>2. \A w \in Services : plan'[w] \in PlanSet /\ plan'[w].op \in {"none", "delete"}
    <3> TAKE w \in Services
    <3>1. Diff(w, None) \in PlanSet /\ Diff(w, None).op \notin {"add", "update"}
      BY <1>2, DiffFacts
    <3>2. Diff(w, None).op \in {"none", "delete"}
      BY <3>1 DEF PlanSet
    <3> QED BY <2>1, <3>1, <3>2
  <2>3. Plans' /\ PassApplies' /\ plan' \in [Services -> PlanSet]
    BY <2>1, <2>2 DEF Plans, PassApplies
  <2> QED BY <1>1, <1>2, <2>3, QuietClean
<1> QED BY <1>3, <1>4

\* What a successful call writes: the configuration of the spec, or a deletion
\* of what the spec does not want.
LEMMA CallFacts ==
    ASSUME IInv, CleanInv, NEW w \in Services, pc \in {"applyStackDiff", "deleteDiff"},
           IsNext(w), CallSucceeds(w)
    PROVE  \/ /\ UNCHANGED <<child, childWatch>>
              /\ pc = "applyStackDiff" => held.spec[w] = None
           \/ \E v \in MaybeChild :
                /\ WriteChild(w, v) /\ Lawful(w, v)
                /\ pc = "applyStackDiff" => held.spec[w] = None \/ v.cfg = held.spec[w]
<1>1. plan[w] \in PlanSet /\ child[w] \in MaybeChild
  BY DEF CleanInv, ChildTypes
<1>2. CASE plan[w].op = "delete" /\ ~IsLive(child[w]) /\ UNCHANGED <<child, childWatch>>
  BY <1>2 DEF CleanInv, Plans
<1>3. CASE /\ plan[w].op = "delete" /\ IsLive(child[w])
           /\ WriteChild(w, [child[w] EXCEPT !.term = TRUE])
  <2> DEFINE v == [child[w] EXCEPT !.term = TRUE]
  <2>1. child[w] # None /\ child[w] \in ChildSet
    BY <1>1, <1>3 DEF IsLive, MaybeChild
  <2>2. v \in MaybeChild /\ v.cfg = child[w].cfg /\ v.exp = child[w].exp
    BY <2>1 DEF ChildSet, MaybeChild
  <2> HIDE DEF v
  <2>3. WriteChild(w, v) /\ Lawful(w, v)
    BY <1>3, <2>1, <2>2 DEF v, Lawful
  <2>4. pc = "applyStackDiff" => held.spec[w] = None
    BY <1>3 DEF CleanInv, Plans
  <2> QED BY <2>2, <2>3, <2>4
<1>4. CASE plan[w].op \in {"add", "update"}
  <2>1. /\ pc = "applyStackDiff" /\ held # None
        /\ plan[w].cfg = held.spec[w] /\ plan[w].cfg # None
    BY <1>4 DEF CleanInv, Plans, IInv, Holding
  <2>2. plan[w].cfg \in Configs /\ held.uid \in Nat
    BY <1>1, <2>1 DEF PlanSet, IInv, StackTypes, MaybeStack, StackSet
  <2>3. NewChild(w) \in ChildSet /\ NewChild(w).cfg = held.spec[w]
    BY <2>1, <2>2 DEF NewChild, ChildSet
  <2>4. CASE plan[w].op = "add"
    <3>1. WriteChild(w, NewChild(w))
      BY <2>4 DEF CallSucceeds
    <3>2. Lawful(w, NewChild(w)) /\ NewChild(w) \in MaybeChild
      BY <2>1, <2>3 DEF Lawful, MaybeChild
    <3> QED BY <2>3, <3>1, <3>2
  <2>5. CASE plan[w].op = "update"
    <3> DEFINE v == [NewChild(w) EXCEPT !.term = child[w].term]
    <3>1. WriteChild(w, v) /\ child[w] # None
      BY <2>5 DEF CallSucceeds
    <3>2. child[w].term \in BOOLEAN
      BY <1>1, <3>1 DEF MaybeChild, ChildSet
    <3>3. v \in MaybeChild /\ v.cfg = held.spec[w]
      BY <2>3, <3>2 DEF MaybeChild, ChildSet
    <3> HIDE DEF v
    <3>4. Lawful(w, v)
      BY <2>1, <3>3 DEF Lawful
    <3> QED BY <3>1, <3>3, <3>4
  <2> QED BY <1>4, <2>4, <2>5
<1> QED BY <1>2, <1>3, <1>4 DEF CallSucceeds

\* A call of a reconciliation brings the children nearer.
LEMMA CallClean ==
    ASSUME IInv, Left, CleanInv, Next, NEW w \in Services, ApplyOne(w) \/ DeleteOne(w)
    PROVE  CleanInv'
<1>1. /\ UNCHANGED <<stack, watch, store, children, written>>
      /\ pc \in {"applyStackDiff", "deleteDiff"} /\ IsNext(w)
  BY DEF ApplyOne, DeleteOne, apiVars, informerVars
<1>2. CASE DeleteOne(w) /\ Idle /\ UNCHANGED <<child, childWatch>>
  BY <1>1, <1>2, IdleClean, QuietClean
<1>3. CASE /\ ApplyOne(w) /\ UNCHANGED <<child, childWatch>>
           /\ err' # None /\ plan' = [v \in Services |-> NoPlan] /\ pc' = "reconcileStatus"
  <2>1. UNCHANGED <<held, heldFresh>> /\ NoPlan \in PlanSet
    BY <1>3 DEF ApplyOne, NoPlan, PlanSet
  <2>2. Plans' /\ PassApplies' /\ FreshIsRead' /\ plan' \in [Services -> PlanSet]
    BY <1>1, <1>3, <2>1 DEF Plans, PassApplies, CleanInv, FreshIsRead
  <2> QED BY <1>1, <1>3, <2>1, <2>2, QuietClean
<1>4. CASE /\ CallSucceeds(w) /\ plan' = [plan EXCEPT ![w] = NoPlan]
           /\ UNCHANGED <<held, heldFresh, err>>
           /\ pc = "applyStackDiff" => pc' = (IF Settled(plan') THEN "reconcileStatus" ELSE pc)
           /\ pc = "deleteDiff" => pc' = (IF Settled(plan') THEN "deleteSecrets" ELSE pc)
  <2>1. /\ plan' \in [Services -> PlanSet] /\ plan'[w] = NoPlan /\ NoPlan.op = "none"
        /\ \A x \in Services \ {w} : plan'[x] = plan[x]
    BY <1>4 DEF CleanInv, ChildTypes, NoPlan, PlanSet
  <2>2. /\ pc' = "applyStackDiff" => pc = "applyStackDiff"
        /\ pc' = "reconcileStatus" => pc = "applyStackDiff" /\ Settled(plan')
        /\ pc' = "deleteDiff" => pc = "deleteDiff"
        /\ pc' \in {"applyStackDiff", "reconcileStatus", "deleteDiff", "deleteSecrets"}
    BY <1>1, <1>4
  <2>3. Plans'
    BY <1>4, <2>1, <2>2 DEF CleanInv, Plans, Settled
  <2>4. FreshIsRead' /\ CleanIsKnown'
    BY <1>1, <1>4 DEF CleanInv, FreshIsRead, CleanIsKnown, IsStackDirty
  <2>5. ASSUME \A x \in Services \ {w} : child'[x] = child[x],
               \A c \in Configs : pc = "applyStackDiff" /\ held.spec[w] = c => Matches(child'[w], c)
        PROVE  PassApplies'
    <3> SUFFICES ASSUME heldFresh, err = None, pc = "applyStackDiff",
                        NEW x \in Services, NEW c \in Configs, plan'[x].op = "none",
                        Says(stack, x, c)
                 PROVE  Matches(child'[x], c)
      BY <1>1, <1>4, <2>2 DEF PassApplies, Says, Matches
    <3>1. CASE x = w
      BY <2>5, <3>1 DEF IInv, HeldIsCurrent, Says
    <3>2. CASE x # w
      <4>1. plan[x].op = "none" /\ child'[x] = child[x]
        BY <2>1, <2>5, <3>2
      <4>2. Matches(child[x], c)
        BY <4>1 DEF CleanInv, PassApplies
      <4> QED BY <4>1, <4>2
    <3> QED BY <3>1, <3>2
  <2>6. CASE /\ UNCHANGED <<child, childWatch>>
             /\ pc = "applyStackDiff" => held.spec[w] = None
    <3>1. PassApplies'
      BY <2>5, <2>6, StackControllerAssumption
    <3> QED BY <1>1, <1>4, <2>1, <2>3, <2>4, <2>6, <3>1, QuietClean
  <2>7. ASSUME NEW v \in MaybeChild, WriteChild(w, v), Lawful(w, v),
               pc = "applyStackDiff" => held.spec[w] = None \/ v.cfg = held.spec[w]
        PROVE  CleanInv'
    <3>1. /\ child' \in [Services -> MaybeChild] /\ child'[w] = v
          /\ childWatch' \in [Services -> Seq(MaybeChild)]
          /\ \A x \in Services \ {w} : child'[x] = child[x]
      BY <2>7, WriteChildFacts DEF CleanInv
    <3>2. PassApplies'
      BY <2>5, <2>7, <3>1, StackControllerAssumption DEF Matches
    <3>3. Recorded' /\ Settling' /\ ChildrenCatchUp' /\ CleanIsApplied'
      BY <1>1, <1>4, <2>7, ChildWriteSettles
    <3>4. ChildTypes'
      BY <1>1, <2>1, <3>1 DEF CleanInv, ChildTypes
    <3> QED BY <2>3, <2>4, <3>2, <3>3, <3>4, RevertsKept DEF CleanInv
  <2> QED BY <1>1, <1>4, <2>6, <2>7, CallFacts
<1>5. CASE ApplyOne(w)
  <2>1. CallError(w) # None /\ err' = CallError(w) => err' # None
    OBVIOUS
  <2>2. err' = "api" => err' # None
    BY NoneAssumption DEF Failures
  <2> QED BY <1>3, <1>4, <1>5, <2>1, <2>2 DEF ApplyOne
<1>6. CASE DeleteOne(w)
  BY <1>2, <1>4, <1>6 DEF DeleteOne
<1> QED BY <1>5, <1>6

\* A reconciliation that ends without an error has done all its calls.
LEMMA EndClean ==
    ASSUME IInv, Left, CleanInv, Next, UpdateStatus
    PROVE  CleanInv'
<1>1. Idle /\ UNCHANGED <<store, child, children, childWatch, written>>
  BY DEF UpdateStatus, informerVars, childVars
<1>2. /\ plan' \in [Services -> PlanSet] /\ held' = None
      /\ Plans' /\ FreshIsRead' /\ PassApplies'
  BY <1>1, IdleClean
<1>3. CASE UNCHANGED <<stack, watch>>
  BY <1>1, <1>2, <1>3, QuietClean
<1>4. CASE pc = "reconcileStatus" /\ heldFresh /\ StatusWritten
  <2>1. /\ held = stack /\ stack # None /\ store = stack /\ watch = <<>> /\ stack \in StackSet
    BY <1>4 DEF IInv, HeldIsCurrent, CaughtUp, CleanInv, FreshIsRead, StackTypes, MaybeStack
  <2>2. stack'.spec = stack.spec /\ stack' \in MaybeStack
    BY <1>4, StatusWrittenFacts
  <2>3. stack'.phase = IF stack.owner = user THEN NewPhase ELSE "pending"
    BY <1>4, <2>1 DEF StatusWritten, WriteStack, StackSet
  <2>4. PICK s \in MaybeStack : WriteStack(s) /\ s = stack' /\ s.spec = stack.spec
    BY <1>4, <2>2 DEF StatusWritten, WriteStack
  <2>5. \A w \in Services, c \in Configs : Says(s, w, c)
          => <<w, c>> \in written' /\ (Says(stack, w, c) \/ <<w, c>> \notin written)
    BY <1>1, <2>1, <2>4 DEF Says, CleanInv, Recorded, Found
  <2>6. Recorded' /\ Settling'
    BY <1>1, <1>2, <2>4, <2>5, WriteSettles
  <2>7. ChildTypes' /\ ChildrenCatchUp'
    BY <1>1, <1>2 DEF CleanInv, ChildTypes, ChildrenCatchUp
  <2>8. CleanIsKnown'
    <3> SUFFICES ASSUME s # None
                 PROVE  /\ store # None /\ store.spec = s.spec
                        /\ \A i \in 1..Len(watch') : watch'[i] # None /\ watch'[i].spec = s.spec
      BY <1>1, <1>2, <2>4 DEF CleanIsKnown
    <3>1. watch' = <<s>>
      BY <2>1, <2>4, SMT DEF WriteStack
    <3> QED BY <2>1, <2>4, <3>1, SMT
  <2>9. CleanIsApplied'
    <3> SUFFICES ASSUME ~IsStackDirty(stack'), NEW w \in Services,
                        child[w] # None, child[w].exp, stack.spec[w] # None
                 PROVE  child[w].cfg = stack.spec[w]
      BY <1>1, <2>2 DEF CleanIsApplied, IsStackDirty
    <3>1. stack'.phase = NewPhase /\ NewPhase \notin Failures
      BY <2>3 DEF IsStackDirty
    <3>2. err = None
      BY <3>1 DEF NewPhase, IInv, StackTypes
    <3>3. plan[w].op = "none"
      BY <1>4, <3>2 DEF CleanInv, Plans
    <3>4. stack.spec[w] \in Configs /\ Says(stack, w, stack.spec[w])
      BY <2>1 DEF StackSet, SpecSet, Says
    <3> QED BY <1>4, <3>2, <3>3, <3>4 DEF CleanInv, PassApplies, Matches
  <2> QED BY <1>2, <2>6, <2>7, <2>8, <2>9, RevertsKept DEF CleanInv
<1> QED BY <1>3, <1>4 DEF UpdateStatus

\* The removal of secrets and config maps writes no child.
LEMMA CleanupClean ==
    ASSUME IInv, Left, CleanInv, Next, Cleanup
    PROVE  CleanInv'
<1>1. UNCHANGED <<stack, watch, store, child, children, childWatch, written>>
  BY CleanupFacts DEF informerVars, childVars
<1>2. CASE Idle
  BY <1>1, <1>2, IdleClean, QuietClean
<1>3. CASE /\ pc' \in {"deleteConfigMaps", "removeOwner"}
           /\ UNCHANGED <<held, heldFresh, user, plan, err>>
  <2>1. Plans' /\ FreshIsRead' /\ PassApplies' /\ plan' \in [Services -> PlanSet]
    BY <1>1, <1>3 DEF Plans, FreshIsRead, PassApplies, CleanInv, ChildTypes
  <2> QED BY <1>1, <1>3, <2>1, QuietClean
<1> QED BY <1>2, <1>3, CleanupFacts

\* Every step preserves it.
LEMMA CleanStep == IInv /\ Left /\ CleanInv /\ [Next]_vars => CleanInv'
<1> SUFFICES ASSUME IInv, Left, CleanInv, [Next]_vars PROVE CleanInv'
  OBVIOUS
<1>1. CASE UNCHANGED vars
  <2>1. UNCHANGED <<stack, watch, store, child, childWatch, children, written, pc, held,
                    heldFresh, plan, err, budget>>
    BY <1>1 DEF vars, environment, apiVars, informerVars, childVars, recVars
  <2>2. ChildTypes' /\ ChildrenCatchUp' /\ Plans' /\ FreshIsRead'
    BY <2>1, ZenonT(30) DEF CleanInv, ChildTypes, ChildrenCatchUp, Plans, FreshIsRead
  <2>3. Recorded' /\ Settling'
    <3>1. Recorded'
      BY <2>1, ZenonT(30) DEF CleanInv, Recorded, Found
    <3>2. ASSUME NEW w \in Services, NEW c \in Configs, Says(stack, w, c)
          PROVE  StackSettles(w, c)' /\ ChildSettles(w, c)'
      <4>1. StackSettles(w, c) /\ ChildSettles(w, c)
        BY <3>2 DEF CleanInv, Settling
      <4>2. StackSettles(w, c)'
        BY <2>1, <4>1, ZenonT(30) DEF StackSettles
      <4>3. ChildSettles(w, c)'
        BY <2>1, <4>1, ZenonT(30) DEF ChildSettles, ReadBy
      <4> QED BY <4>2, <4>3
    <3>3. Settling'
      BY <2>1, <3>2 DEF Settling
    <3> QED BY <3>1, <3>3
  <2>4. CleanIsKnown' /\ CleanIsApplied'
    BY <2>1 DEF CleanInv, CleanIsKnown, CleanIsApplied, IsStackDirty
  <2>5. PassApplies'
    BY <2>1 DEF CleanInv, PassApplies, Says, Matches
  <2> QED BY <2>1, <2>2, <2>3, <2>4, <2>5 DEF CleanInv
<1>2. CASE Next
  <2>1. ReconcilerStep => CleanInv'
    BY <1>2, UpdaterClean, ComputeClean, CallClean, EndClean, CleanupClean
       DEF ReconcilerStep, Cleanup
  <2> QED BY <1>2, <2>1, UserClean, KubernetesClean, InformerClean, TakeClean DEF Next
<1> QED BY <1>1, <1>2

\* The skip in toStackResources is safe: when the status of a stack is not
\* dirty, every workload that nobody else changed runs the configuration of the
\* spec, for any services, users, delays of the informers, conflicts, failing
\* calls, restarts and third parties, where no service goes back to an earlier
\* configuration.  (Where one does, the run controller_flip shows it false.)
THEOREM CleanStacksAreApplied ==
    ASSUME \A sc \in Scenarios : ~sc.reverts
    PROVE  Spec => []CleanIsApplied
<1>1. Init => CleanInv
  BY InitClean
<1>2. IInv /\ Left /\ CleanInv /\ [Next]_vars => CleanInv'
  BY CleanStep
<1>3. CleanInv => CleanIsApplied
  BY DEF CleanInv
<1> QED BY <1>1, <1>2, <1>3, LeftInvariance, PTL DEF Spec
=============================================================================
