------------------------- MODULE MCStackController -------------------------
(* Model values, specs and symmetry for StackController. *)
EXTENDS StackController, TLC

CONSTANTS w1, w2, c1, c2

\* One service that changes its configuration, or keeps it; a second one that
\* comes or goes; a stack without services, which the conversion refuses.
Spec1(c) == [w \in Services |-> IF w = w1 THEN c ELSE None]
OneService == {Spec1(c1), Spec1(c2)}
TwoServices == {Spec1(c1), [w \in Services |-> c1]}
NoService == {Spec1(c1), Spec1(None)}

AllSpecs == OneService \cup TwoServices \cup NoService

\* Nothing happens but one creation; every scenario adds to it.
Quiet == [stacks |-> 1, updates |-> 0, deletions |-> 0, foreground |-> 0,
          drifts |-> 0, failures |-> 0, restarts |-> 0, relists |-> 0,
          events |-> 0, first |-> {Spec1(c1)}, specs |-> {Spec1(c1)}, reverts |-> FALSE]

\* Two events around an update of a service; a lost watch; an update that adds
\* or removes a service; one that leaves no service.
Changing ==
    [Quiet EXCEPT !.updates = 1, !.drifts = 1, !.failures = 1, !.restarts = 1,
                  !.events = 2, !.specs = OneService]
Relisting == [Quiet EXCEPT !.updates = 1, !.relists = 1, !.events = 2, !.specs = OneService]
Coming == [Quiet EXCEPT !.updates = 1, !.events = 1, !.first = TwoServices, !.specs = TwoServices]
Emptying ==
    [Quiet EXCEPT !.updates = 1, !.failures = 1, !.events = 1, !.first = NoService, !.specs = NoService]
UpdateScenarios == {Changing, Relisting, Coming, Emptying}

\* A deletion with a lost watch, a failing call or a restart, one in the foreground, and a
\* stack that is deleted and created again.
Deleting ==
    [Quiet EXCEPT !.deletions = 1, !.failures = 1, !.restarts = 1, !.relists = 1, !.events = 2]
Foreground == [Quiet EXCEPT !.foreground = 1, !.events = 1]
Recreating ==
    [Quiet EXCEPT !.stacks = 2, !.deletions = 1, !.events = 1, !.reverts = TRUE]
DeletionScenarios == {Deleting, Foreground, Recreating}

\* The owner changes; the spec goes A, B, A.
HandingScenarios == {[Quiet EXCEPT !.updates = 1, !.events = 1]}
FlippingScenarios ==
    {[Quiet EXCEPT !.updates = 2, !.events = 2, !.specs = OneService, !.reverts = TRUE]}
=============================================================================
