--------------------------- MODULE StackRegistry ---------------------------
(***************************************************************************)
(* The API server's storage of one stack, written through all the ways in: *)
(* v1beta1 (a compose file), v1beta2 and v1alpha3 (a structured stack, one *)
(* implementation), the composeFile subresource and the scale subresource, *)
(* with and without skip-validation, together with the one client that     *)
(* writes all the time: the controller, which reads a v1alpha3 view from   *)
(* its informer's cache, applies it and puts the status back.              *)
(*                                                                         *)
(* A compose file is its text and whether it starts with the "outdated"    *)
(* header.  A structured stack is its content, whether its services are in *)
(* the order of their names, and the replica count each service is given.  *)
(* A request the server refuses leaves everything as it is: it is a step   *)
(* that stutters, so collisions with other objects (validateCollisions)    *)
(* and conflicts of conditional requests need no action of their own.      *)
(***************************************************************************)
EXTENDS Integers, FiniteSets

CONSTANTS
    Files,         \* texts of compose files, without the header
    NoFile,        \* the empty compose file
    Contents,      \* what a structured stack says, apart from order and scale
    Convertible,   \* the contents with valid names that StackToStack converts
    None,
    ParsedAs,      \* the content of a text, None where the loader fails
    Services,      \* names of the services
    Globals,       \* those with the mode "global", which have no replica count
    Counts,        \* replica counts users ask for
    Users,
    Skips,         \* the values of the skip-validation parameter users send
    Bodies,        \* what users put in the status: "kept" as read, "cleared"
    OldEra,        \* may storage hold a stack of the v1beta1 era at the start
    MaxWrites      \* bound on the requests of users

ASSUME FilesAssumption ==
    /\ NoFile \notin Files
    /\ None \notin Contents
    /\ Convertible \subseteq Contents
    /\ ParsedAs \in [Files \cup {NoFile} -> Contents \cup {None}]
    /\ ParsedAs[NoFile] = None

ASSUME RequestsAssumption ==
    /\ Counts \subseteq Nat
    /\ Bodies \subseteq {"kept", "cleared"}
    /\ OldEra \in BOOLEAN
    /\ MaxWrites \in Nat

ASSUME SkipsAssumption == Skips \subseteq {"", "0", "1", "true"}

VARIABLES
    stack,      \* the stored stack, None before its creation
    writes,     \* number of requests users made
    scaling,    \* the scale update between its Get and its UpdateStack
    cache,      \* the controller's v1alpha3 view of the stack
    fresh,      \* does that view have the stored resource version
    work,       \* the view being reconciled and the status to put, None when idle
    applied     \* what the stack's workloads run

vars == <<stack, writes, scaling, cache, fresh, work, applied>>
-----------------------------------------------------------------------------
(* Stored stacks *)

Unset == 99         \* Deploy.Replicas is nil
MaxUint64 == 98     \* stands for 2^64 - 1, what -1 is as a uint64
Replicas == Counts \cup {1, Unset, MaxUint64}

File == [text : Files \cup {NoFile}, outdated : BOOLEAN]

Plain(f) == [text |-> f, outdated |-> FALSE]

StackSpec ==
    [content : Contents, sorted : BOOLEAN, replicas : [Services -> Replicas]]

\* "Nil" is a nil Status, "Unset" an empty phase, and a Failure is told apart
\* by its message.
Phase == {"Nil", "Unset", "Pending", "ParsingError", "ConversionError", "Available"}

Stack ==
    [file : File, spec : StackSpec \cup {None}, owner : Users, phase : Phase]

View == [spec : StackSpec \cup {None}, phase : Phase]

\* A scale update between its two halves.
Scaling ==
    [counts : [Services -> Counts \cup {1, -1}], target : Services, owner : Users,
     current : BOOLEAN]

\* A pass of the reconciler between its reading and its status.
Pass == [view : View, current : BOOLEAN, status : Phase]

ASSUME NoneAssumption == None \notin StackSpec \cup Scaling \cup View \cup Pass

AsWritten == [s \in Services |-> Unset]

\* The count of a service in a Scale, and its conversions between int and uint64.
ToInt(r) == IF r = MaxUint64 THEN -1 ELSE r
ToUint64(n) == IF n = -1 THEN MaxUint64 ELSE n
Count(s, r) == IF s \in Globals THEN -1 ELSE IF r = Unset THEN 1 ELSE ToInt(r)

\* What the children of a stack are converted from.
Workloads(spec) ==
    [content |-> spec.content, counts |-> [s \in Services |-> Count(s, spec.replicas[s])]]

IsStackDirty(phase) == phase \notin {"Unset", "Available"}

TypeOK ==
    /\ stack \in Stack \cup {None}
    /\ writes \in 0 .. MaxWrites
    /\ scaling \in Scaling \cup {None}
    /\ cache \in View \cup {None}
    /\ fresh \in BOOLEAN
    /\ work \in Pass \cup {None}
    /\ applied \in
         [content : Contents, counts : [Services -> Counts \cup {1, -1}]] \cup {None}
-----------------------------------------------------------------------------
(* Preparing a request *)

\* Which of the two strategies serves a resource in a version of the API: the
\* composeFile of every version is that of v1beta1.
V1beta1Storage == [stacks |-> "v1beta1", owner |-> "v1beta1"]
V1beta2Storage == [stacks |-> "v1beta2", owner |-> "v1beta2", composeFile |-> "v1beta1",
                   scale |-> "v1beta2"]
VersionedResourcesStorageMap ==
    [v1beta1 |-> V1beta1Storage, v1beta2 |-> V1beta2Storage, v1alpha3 |-> V1beta2Storage]

\* What the handlers find in the context of a request.
WithSkipValidationHandler(value) == value = "1"
SkipValidationFrom == {WithSkipValidationHandler(value) : value \in Skips}

\* The loader ranges over a map: the services come in any order.
LoadStackData(f) ==
    {[content |-> ParsedAs[f.text], sorted |-> o, replicas |-> AsWritten] : o \in BOOLEAN}

prepareStackFromComposefile_NoStatus(s, skip) ==
    IF s.spec # None THEN {s}
    ELSE IF ParsedAs[s.file.text] # None
         THEN {[s EXCEPT !.spec = p] : p \in LoadStackData(s.file)}
    ELSE IF skip THEN {s}
    ELSE {}

prepareStackFromComposefile_Always(s, skip) ==
    IF ParsedAs[s.file.text] # None
    THEN {[s EXCEPT !.spec = p] : p \in LoadStackData(s.file)}
    ELSE IF skip THEN {[s EXCEPT !.phase = "ParsingError"]}
    ELSE {}

prepareStackFromComposefile_SkipParsing(s, skip) ==
    IF s.spec # None \/ skip THEN {s}
    ELSE IF ParsedAs[s.file.text] # None
         THEN {[s EXCEPT !.spec = p] : p \in LoadStackData(s.file)}
    ELSE {}

\* The stacks a request may go on with.  There is none where parsing fails and
\* validation is not skipped: the request ends in validateStackNotNil.
prepareStackFromComposefile(s, skip) ==
    IF s.spec # None THEN {s}
    ELSE IF ParsedAs[s.file.text] # None
         THEN {[s EXCEPT !.spec = p] : p \in LoadStackData(s.file)}
    ELSE IF skip THEN {[s EXCEPT !.phase = "ParsingError"]}
    ELSE {}

setFieldsForV1beta1Update(old, new) ==
    [new EXCEPT !.spec = IF new.file # old.file THEN None ELSE old.spec]

setFieldsForV1beta2Update_NoMark(old, new) == [new EXCEPT !.file = old.file]

setFieldsForV1beta2Update_AnyChange(old, new) ==
    [new EXCEPT !.file =
        [old.file EXCEPT !.outdated =
            @ \/ ([new EXCEPT !.file = old.file] # old /\ old.file.text # NoFile)]]

setFieldsForV1beta2Update(old, new) ==
    [new EXCEPT !.file =
        [old.file EXCEPT !.outdated =
            @ \/ (new.spec # old.spec /\ old.file.text # NoFile)]]

MarkChanged_Never(old, new) == new

\* The comparison at the end of PrepareForUpdate.
MarkChanged(old, new) ==
    IF old.file = new.file /\ old.spec = new.spec /\ old.owner = new.owner
    THEN new
    ELSE [new EXCEPT !.phase = "Pending"]

\* The validators, of which any may refuse: a content with a name that is not
\* valid is not Convertible, and a collision is a refused request.  The two that
\* convert the stack about to be stored sort its services in place.
Validated(s, skip) ==
    IF skip THEN {s}
    ELSE IF s.spec # None /\ s.spec.content \in Convertible
         THEN {[s EXCEPT !.spec.sorted = TRUE]}
         ELSE {}

\* What may be stored for a creation, and for an update of old with new
\* through the strategy of a version.
Created(new, skip) ==
    UNION {Validated([s EXCEPT !.phase = "Pending"], skip) :
           s \in prepareStackFromComposefile(new, skip)}

Updated(version, old, new, skip) ==
    LET fields == IF version = "v1beta1" THEN setFieldsForV1beta1Update(old, new)
                                         ELSE setFieldsForV1beta2Update(old, new)
    IN  UNION {Validated(MarkChanged(old, s), skip) :
               s \in prepareStackFromComposefile(fields, skip)}

\* The v1alpha3 (and v1beta2) form of a stored stack.  When a stack without a
\* structured spec parses, the conversion returns before it copies the spec and
\* the status.
stackFromInternalV1alpha3(s) ==
    IF s.spec = None /\ ParsedAs[s.file.text] # None
    THEN [spec |-> None, phase |-> "Nil"]
    ELSE [spec |-> s.spec, phase |-> s.phase]
-----------------------------------------------------------------------------
(* The requests of users *)

\* Storage skips the write, and the new resource version, when nothing changed.
Write(s) ==
    /\ stack' = s
    /\ fresh' = (fresh /\ s = stack)

Aged(reader, s) ==
    IF reader = None THEN None ELSE [reader EXCEPT !.current = @ /\ s = stack]

Store(s) ==
    /\ Write(s)
    /\ scaling' = Aged(scaling, s)
    /\ work' = Aged(work, s)

Request ==
    /\ writes < MaxWrites
    /\ writes' = writes + 1
    /\ UNCHANGED <<cache, applied>>

\* A compose file as a user sends it: a new text, the header kept or not where
\* there is one, which includes the file just as it was read.
SentFiles ==
    [text : Files, outdated : {FALSE} \cup {stack.file.outdated}] \cup {stack.file}

\* A structured stack as a user sends it: new content with the replicas as
\* they are or left out, or no spec at all.
SentSpecs ==
    [content : Contents, sorted : BOOLEAN,
     replicas : {AsWritten} \cup (IF stack.spec = None THEN {} ELSE {stack.spec.replicas})]
    \cup {None}

V1beta1Phase(body) ==
    IF body = "cleared" \/ stack.phase = "Nil" THEN "Unset" ELSE stack.phase

V1beta2Phase(body) ==
    IF body = "cleared" THEN "Nil" ELSE stackFromInternalV1alpha3(stack).phase

\* v1beta1, and the Create of the composeFile subresource.
CreateFromFile(u, f, skip) ==
    /\ stack = None
    /\ Request
    /\ \E s \in Created([file |-> Plain(f), spec |-> None, owner |-> u, phase |-> "Nil"], skip) :
         Store(s)

CreateFromSpec(u, p, skip) ==
    /\ stack = None
    /\ Request
    /\ \E s \in Created([file |-> Plain(NoFile), spec |-> p, owner |-> u, phase |-> "Nil"], skip) :
         Store(s)

UpdateV1beta1(u, body, skip) ==
    /\ stack # None
    /\ Request
    /\ \E f \in SentFiles :
         \E s \in Updated(VersionedResourcesStorageMap.v1beta1.stacks, stack,
                          [file |-> f, spec |-> None, owner |-> u,
                           phase |-> V1beta1Phase(body)], skip) : Store(s)

UpdateV1beta2(u, body, skip) ==
    /\ stack # None
    /\ Request
    /\ \E p \in SentSpecs :
         \E s \in Updated(VersionedResourcesStorageMap.v1beta2.stacks, stack,
                          [file |-> Plain(NoFile), spec |-> p, owner |-> u,
                           phase |-> V1beta2Phase(body)], skip) : Store(s)

\* The Update of the composeFile subresource.
UpdateComposeFile(u, skip) ==
    /\ stack # None
    /\ Request
    /\ \E f \in SentFiles :
         \E s \in Updated(VersionedResourcesStorageMap.v1beta2.composeFile, stack,
                          [stack EXCEPT !.file = f, !.spec = None, !.owner = u], skip) :
           Store(s)

\* The Update of the scale subresource reads every service's count, lets the
\* request change one, and only then enters the transaction of UpdateStack,
\* where it writes all of them.  Get dereferences the structured stack and
\* converts it, so a stack without one, or not convertible, cannot be scaled.
ScaleGet(u, target, n) ==
    /\ scaling = None
    /\ stack # None
    /\ stack.spec # None
    /\ stack.spec.content \in Convertible
    /\ Request
    /\ scaling' = [counts |-> [[s \in Services |-> Count(s, stack.spec.replicas[s])]
                               EXCEPT ![target] = n],
                   target |-> target, owner |-> u, current |-> TRUE]
    /\ UNCHANGED <<stack, fresh, work>>

ScaledSpec(spec) ==
    [spec EXCEPT !.replicas = [s \in Services |-> ToUint64(scaling.counts[s])]]

ScaleUpdate(skip) ==
    /\ scaling # None
    /\ \/ /\ stack # None
          /\ stack.spec # None
          /\ \E s \in Updated(VersionedResourcesStorageMap.v1beta2.scale, stack,
                              [stack EXCEPT !.spec = ScaledSpec(@), !.owner = scaling.owner],
                              skip) : Write(s) /\ work' = Aged(work, s)
       \/ UNCHANGED <<stack, fresh, work>>      \* refused
    /\ scaling' = None
    /\ UNCHANGED <<writes, cache, applied>>
-----------------------------------------------------------------------------
(* The controller *)

Watch ==
    /\ stack # None
    /\ ~fresh
    /\ cache' = stackFromInternalV1alpha3(stack)
    /\ fresh' = TRUE
    /\ UNCHANGED <<stack, writes, scaling, work, applied>>

\* reconcileChildren: the conversion sorts the cached services in place, keeps
\* the workloads of a clean stack, and replaces those of a dirty one.
Sorted(view) == IF view.spec = None THEN view ELSE [view EXCEPT !.spec.sorted = TRUE]

Converts(view) == view.spec # None /\ view.spec.content \in Convertible

Reconcile ==
    /\ cache # None
    /\ work = None
    /\ cache' = Sorted(cache)
    /\ work' = [view |-> cache', current |-> fresh,
                status |-> IF Converts(cache) THEN "Available" ELSE "ConversionError"]
    /\ applied' = IF Converts(cache) /\ (applied = None \/ IsStackDirty(cache.phase))
                  THEN Workloads(cache.spec) ELSE applied
    /\ UNCHANGED <<stack, writes, scaling, fresh>>

\* updateStackStatus: no request when the cached status is the same, not found
\* or a conflict when its resource version is not the stored one.
UpdateStackStatus ==
    IF work.view.phase # work.status /\ stack # None /\ work.current
    THEN \E s \in Updated(VersionedResourcesStorageMap.v1alpha3.stacks, stack,
                          [file |-> Plain(NoFile), spec |-> work.view.spec,
                           owner |-> stack.owner, phase |-> work.status], TRUE) :
           Write(s) /\ scaling' = Aged(scaling, s)
    ELSE UNCHANGED <<stack, fresh, scaling>>

ReconcileStatus ==
    /\ work # None
    /\ UpdateStackStatus
    /\ work' = None
    /\ UNCHANGED <<writes, cache, applied>>
-----------------------------------------------------------------------------
OldStack(u, f) == [file |-> Plain(f), spec |-> None, owner |-> u, phase |-> "Available"]

Init ==
    /\ stack \in {None} \cup
         IF OldEra THEN {OldStack(u, f) : u \in Users, f \in {g \in Files : ParsedAs[g] # None}}
                   ELSE {}
    /\ writes = 0
    /\ scaling = None
    /\ cache = None
    /\ fresh = FALSE
    /\ work = None
    /\ applied = None

UserRequest ==
    \E u \in Users, skip \in SkipValidationFrom :
      \/ \E f \in Files : CreateFromFile(u, f, skip)
      \/ \E p \in [content : Contents, sorted : BOOLEAN, replicas : {AsWritten}] \cup {None} :
           CreateFromSpec(u, p, skip)
      \/ \E body \in Bodies : UpdateV1beta1(u, body, skip)
      \/ \E body \in Bodies : UpdateV1beta2(u, body, skip)
      \/ UpdateComposeFile(u, skip)
      \/ \E target \in Services, n \in Counts : ScaleGet(u, target, n)
      \/ ScaleUpdate(skip)

Next == UserRequest \/ Watch \/ Reconcile \/ ReconcileStatus

Spec == Init /\ [][Next]_vars

\* The informer delivers, and the reconciler is woken again and again: by the
\* events of the stack and by the periodic resynchronisation.
FairSpec ==
    Spec /\ WF_vars(Watch) /\ WF_vars(Reconcile) /\ WF_vars(ReconcileStatus)
-----------------------------------------------------------------------------
(* Properties *)

\* A compose file without the header, which the composeFile subresource and
\* v1beta1 show to users as the stack's definition, is what the structured
\* stack was made from: setFieldsForV1beta2Update marks it whenever another
\* way in changes the stack, and setFieldsForV1beta1Update parses it anew
\* whenever it changes itself.
FileTellsStack ==
    stack # None /\ stack.spec # None /\ stack.file.text # NoFile /\ ~stack.file.outdated
    => /\ stack.spec.content = ParsedAs[stack.file.text]
       /\ stack.spec.replicas = AsWritten

\* A status that is not dirty is about the stored spec: whenever the stack is
\* Available, however old the controller's view of it is, the workloads run the
\* stored spec.  So MarkChanged never misses a change that the conversion sees,
\* and reconcileChildren, which skips what is not dirty, skips nothing new.
AvailableIsApplied ==
    stack # None /\ stack.phase = "Available" /\ stack.spec # None
    => applied = Workloads(stack.spec)

\* The compose file gets its header only when the stack itself was updated
\* (setFieldsForV1beta2Update), and putting a status back is not an update of
\* the stack: where the stored services are sorted, as validation leaves them,
\* no step of the controller changes the compose file.  (Services that were
\* not sorted come back sorted, which marks the file.)
StatusKeepsFile ==
    [][work # None /\ work' = None /\ stack.spec # None /\ stack.spec.sorted
       => stack'.file = stack.file]_vars

\* The end of a scale request changes the count of the service it names and of
\* no other, if nobody wrote the stack between its Get and its UpdateStack: a service
\* without a count is written the one that the conversion gives it.
ScalesOneServiceStep ==
    scaling # None /\ scaling' = None /\ scaling.current /\ stack' # stack
    => \A s \in Services \ {scaling.target} :
         Count(s, stack'.spec.replicas[s]) = Count(s, stack.spec.replicas[s])

\* Every scale request that nobody overtakes (stackScaleRest.Update) is so.
ScalesOneService == [][ScalesOneServiceStep]_vars

\* Once users stop writing, the workloads are those of the stored stack,
\* whichever ways in were used; a stack of the v1beta1 era gets a structured
\* stack when the controller puts its first status.
Converges ==
    <>[](stack # None =>
           /\ stack.spec = None => ParsedAs[stack.file.text] = None
           /\ stack.spec # None /\ stack.spec.content \in Convertible
              => applied = Workloads(stack.spec))

\* A stack that can be neither parsed nor converted, stored with
\* skip-validation, is eventually reported as failed, with the parser's message
\* when there is no structured stack.
FailureReported ==
    <>[](stack # None =>
           /\ stack.spec = None => stack.phase = "ParsingError"
           /\ stack.spec # None /\ stack.spec.content \notin Convertible
              => stack.phase = "ConversionError")

\* The status the server writes when it cannot parse and the one the controller
\* computes for the same stack differ, and neither gives way; the stored stack
\* comes to rest all the same.
StatusSettles == <>[][FALSE]_stack
=============================================================================
