----------------------------- MODULE StackDiff ------------------------------
(***************************************************************************)
(* What to do to get from the objects a stack has to those it should have  *)
(* (internal/stackresources/diff): a set of calls, each with the object it *)
(* sends.  Objects are maps from keys <<kind, name>>, and have the fields  *)
(* that Convert gives them.                                                *)
(***************************************************************************)
EXTENDS Integers, Sequences

CONSTANT None       \* no digest

isService(key) == key[1] = "service"

\* Tolerations of the orchestrator's own are not compared.
normalizeTolerationsForEquality(tolerations) ==
    {t \in tolerations : t.prefix # "com.docker.ucp."}

\* current is desired with a digest added: a signed image that was pinned.
isPinned(current, desired) ==
    /\ desired.digest = None /\ current.digest # None
    /\ current.name = desired.name /\ current.tag = desired.tag

\* The desired containers, with the images that only differ by being pinned.
normalizePodSpecForEquality(current, desired) ==
    IF Len(current) # Len(desired) THEN desired
    ELSE [ix \in DOMAIN desired |->
            IF isPinned(current[ix].image, desired[ix].image)
            THEN [desired[ix] EXCEPT !.image = current[ix].image] ELSE desired[ix]]

normalizeEqualWorkload(current, desired) ==
    [current EXCEPT
       !.template.tolerations = normalizeTolerationsForEquality(@)]
    = [desired EXCEPT
       !.template.tolerations = normalizeTolerationsForEquality(@),
       !.template.containers =
           normalizePodSpecForEquality(current.template.containers, @)]

normalizeEqualService(current, desired) == current = desired

\* Mutant: an existing service is always updated.
serviceRequiresReCreate_Never(current, desired) == FALSE

\* An address that was assigned cannot be changed.
serviceRequiresReCreate(current, desired) ==
    current.clusterIP # 0 /\ current.clusterIP # desired.clusterIP

Call(verb, key, object) == [verb |-> verb, key |-> key, object |-> object]

computeServicesDiff(key, current, desired) ==
    IF normalizeEqualService(current, desired) THEN {}
    ELSE IF serviceRequiresReCreate(current, desired)
         THEN {Call("delete", key, current), Call("create", key, desired)}
    ELSE {Call("update", key, desired)}

computeWorkloadsDiff(key, current, desired) ==
    IF normalizeEqualWorkload(current, desired) THEN {}
    ELSE {Call("update", key, desired)}

\* Mutant: objects that are no longer wanted stay.
ComputeDiff_NoDelete(current, desired) ==
    {Call("create", k, desired[k]) : k \in DOMAIN desired \ DOMAIN current}
    \cup UNION {IF isService(k) THEN computeServicesDiff(k, current[k], desired[k])
                ELSE computeWorkloadsDiff(k, current[k], desired[k]) :
                k \in DOMAIN current \cap DOMAIN desired}

ComputeDiff(current, desired) ==
    {Call("create", k, desired[k]) : k \in DOMAIN desired \ DOMAIN current}
    \cup {Call("delete", k, current[k]) : k \in DOMAIN current \ DOMAIN desired}
    \cup UNION {IF isService(k) THEN computeServicesDiff(k, current[k], desired[k])
                ELSE computeWorkloadsDiff(k, current[k], desired[k]) :
                k \in DOMAIN current \cap DOMAIN desired}
=============================================================================
