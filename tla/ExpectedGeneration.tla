------------------------- MODULE ExpectedGeneration -------------------------
(***************************************************************************)
(* How the controller tells its own version of a workload from one that    *)
(* somebody else changed (internal/convert/stack.go): it predicts the      *)
(* generation the API server will give the object it writes, and leaves    *)
(* the prediction on the object as an annotation.  A clean stack skips a   *)
(* workload whose generation is the predicted one.                         *)
(*                                                                         *)
(* The API server moves the generation when the spec it stores changes;    *)
(* for a deployment also when the annotations do.  It fills in the fields  *)
(* a spec leaves out (the default mode of a secret volume, the type of a   *)
(* host path), so a spec that was converted afresh may differ from the     *)
(* stored one without changing it.                                         *)
(***************************************************************************)
EXTENDS Naturals

CONSTANTS
    Specs,          \* the pod specs a user asks for
    Labels,         \* the labels a user asks for
    Edits,          \* the pod specs somebody else writes
    None,           \* no such object
    Workloads,      \* the kinds of workload considered
    MaxUpdates,     \* bound on updates by the user
    MaxEdits,       \* bound on changes by somebody else
    MaxConflicts    \* bound on passes that fail for an outdated copy

\* `notes`: a change of the annotations moves the generation.
\* `partial`: the converted spec leaves out fields that the API server fills in.
WorkloadSet == [notes : BOOLEAN, partial : BOOLEAN]

ASSUME ExpectedGenerationAssumption ==
    /\ Specs # {} /\ Labels # {}
    /\ Workloads \subseteq WorkloadSet
    /\ MaxUpdates \in Nat /\ MaxEdits \in Nat /\ MaxConflicts \in Nat

VARIABLES
    workload,   \* the kind of workload the service becomes
    want,       \* the spec and the labels in the stack
    dirty,      \* the stack is pending or has failed
    live,       \* the object in the API server, or None
    copy,       \* the indexer's copy of it, or None
    fresh,      \* the copy has the resource version of the object
    updates, edits, conflicts,  \* what is left of the bounds
    ours,       \* history: the spec of the object is the controller's
    given,      \* history: the specs users asked for or others wrote
    returned    \* history: a user went back to one of them

vars == <<workload, want, dirty, live, copy, fresh, updates, edits, conflicts,
          ours, given, returned>>

\* `expected` is the annotation; `revision` an annotation of the workload's
\* own controller.
ObjectSet == [generation : Nat \ {0}, expected : Nat, spec : Specs \cup Edits,
              labels : Labels, revision : BOOLEAN]

Init ==
    /\ workload \in Workloads
    /\ want \in [spec : Specs, labels : Labels]
    /\ dirty = TRUE
    /\ live = None /\ copy = None /\ fresh = TRUE
    /\ updates = MaxUpdates /\ edits = MaxEdits /\ conflicts = MaxConflicts
    /\ ours = TRUE /\ given = {want.spec} /\ returned = FALSE
-----------------------------------------------------------------------------
generationMatchesExpected(o) == o.expected = o.generation

\* The conversion starts from the copy, and compares its result with it.
specsDiffer == copy.spec # want.spec \/ workload.partial

predict_Always == copy.generation + 1

\* setExpectedGeneration.  For a deployment it is called again, to compare the
\* annotations: the desired ones are the first prediction and nothing else.
predict ==
    LET first == IF specsDiffer THEN copy.generation + 1 ELSE copy.generation
        annotationsDiffer == copy.expected # first \/ copy.revision
    IN  IF workload.notes
        THEN IF annotationsDiffer THEN copy.generation + 1 ELSE copy.generation
        ELSE first

\* The API server stores an update, and moves the generation if that changes
\* what it watches.
Stored(o, new) ==
    LET changed == \/ new.spec # o.spec
                   \/ workload.notes /\ (new.expected # o.expected \/ new.revision # o.revision)
    IN  [new EXCEPT !.generation = IF changed THEN o.generation + 1 ELSE o.generation]

\* The user changes the stack, which becomes pending.
UpdateStack(spec, labels) ==
    /\ updates > 0
    /\ want' = [spec |-> spec, labels |-> labels] /\ want' # want
    /\ updates' = updates - 1
    /\ dirty' = TRUE
    /\ given' = given \cup {spec}
    /\ returned' = (returned \/ (spec # want.spec /\ spec \in given))
    /\ UNCHANGED <<workload, live, copy, fresh, edits, conflicts, ours>>

\* Somebody else changes the spec.
Edit(spec) ==
    /\ edits > 0 /\ live # None /\ spec # live.spec
    /\ edits' = edits - 1
    /\ live' = [live EXCEPT !.spec = spec, !.generation = @ + 1]
    /\ fresh' = FALSE /\ ours' = FALSE
    /\ given' = given \cup {spec}
    /\ UNCHANGED <<workload, want, dirty, copy, updates, conflicts, returned>>

\* The workload's own controller notes its revision, with the status.
Annotate ==
    /\ live # None /\ workload.notes /\ ~live.revision
    /\ live' = [live EXCEPT !.revision = TRUE]
    /\ fresh' = FALSE
    /\ UNCHANGED <<workload, want, dirty, copy, updates, edits, conflicts, ours, given, returned>>

\* The children informer catches up.
Sync ==
    /\ ~fresh
    /\ copy' = live /\ fresh' = TRUE
    /\ UNCHANGED <<workload, want, dirty, live, updates, edits, conflicts, ours, given, returned>>

Skips_AnyGeneration == ~dirty /\ copy # None

\* A clean stack keeps the copy of a workload whose generation matches.
Skips == ~dirty /\ copy # None /\ generationMatchesExpected(copy)

\* One pass over the workload, status included.  Nothing to do:
Unchanged ==
    \/ Skips
    \/ copy # None /\ ~specsDiffer /\ copy.labels = want.labels
Keep ==
    /\ Unchanged
    /\ dirty' = FALSE
    /\ UNCHANGED <<workload, want, live, copy, fresh, updates, edits, conflicts, ours, given,
                   returned>>

\* A workload the indexer does not have is created.
Create ==
    /\ copy = None /\ live = None
    /\ live' = [generation |-> 1, expected |-> 1, spec |-> want.spec,
                labels |-> want.labels, revision |-> FALSE]
    /\ fresh' = FALSE /\ ours' = TRUE /\ dirty' = FALSE
    /\ UNCHANGED <<workload, want, copy, updates, edits, conflicts, given, returned>>

\* One it has is replaced, if the copy is current.
Replace ==
    /\ copy # None /\ ~Unchanged /\ fresh
    /\ live' = Stored(live, [generation |-> copy.generation, expected |-> predict,
                             spec |-> want.spec, labels |-> want.labels, revision |-> FALSE])
    /\ fresh' = (live' = live) /\ ours' = TRUE /\ dirty' = FALSE
    /\ UNCHANGED <<workload, want, copy, updates, edits, conflicts, given, returned>>

\* Otherwise the call fails, and the stack with it.
Fail ==
    /\ \/ copy = None /\ live # None
       \/ copy # None /\ ~Unchanged /\ ~fresh
    /\ conflicts > 0 /\ conflicts' = conflicts - 1
    /\ dirty' = TRUE
    /\ UNCHANGED <<workload, want, live, copy, fresh, updates, edits, ours, given, returned>>

reconcileChildren == Keep \/ Create \/ Replace \/ Fail

Next ==
    \/ \E spec \in Specs, labels \in Labels : UpdateStack(spec, labels)
    \/ \E spec \in Edits : Edit(spec)
    \/ Annotate
    \/ Sync
    \/ reconcileChildren

Spec == Init /\ [][Next]_vars

\* The informer delivers; the resync timer brings the reconciler back.
FairSpec == Spec /\ WF_vars(Sync) /\ WF_vars(reconcileChildren)
-----------------------------------------------------------------------------
\* The type of every variable.
TypeOK ==
    /\ workload \in Workloads
    /\ want \in [spec : Specs, labels : Labels]
    /\ dirty \in BOOLEAN /\ fresh \in BOOLEAN /\ ours \in BOOLEAN
    /\ live \in ObjectSet \cup {None} /\ copy \in ObjectSet \cup {None}
    /\ updates \in 0..MaxUpdates /\ edits \in 0..MaxEdits /\ conflicts \in 0..MaxConflicts
    /\ given \subseteq Specs \cup Edits /\ returned \in BOOLEAN

\* A workload whose generation is the predicted one has the controller's spec:
\* the skip in toStackResources never keeps what somebody else wrote.
MatchIsOurs == live # None /\ generationMatchesExpected(live) => ours

\* docs/architecture.md: the controller reconciles the current cluster state
\* with the desired one.  Once users and others are quiet, the workload has the
\* spec of the stack, whatever others wrote and however late the informer is.
\* Left out is a user who goes back to a spec that was there before: a copy that
\* still has it passes for the workload, the stack becomes clean, and from then
\* on the skip of toStackResources keeps the other spec (the run controller_flip).
Repairs == <>[](returned \/ (live # None /\ live.spec = want.spec))

\* A pass that writes the workload leaves a generation that matches, so that
\* the next pass over a clean stack has nothing to do.
WriteMatches ==
    [][Create \/ Replace => generationMatchesExpected(live')]_vars
=============================================================================
