--------------------------- MODULE StackOwnerCache ---------------------------
(***************************************************************************)
(* internal/controller/stackownercache.go: the entry of one stack, which   *)
(* the reconciler fills through getWithRetries and the StackListener marks *)
(* dirty.  The mutex is held across the call to the owner subresource.     *)
(*                                                                         *)
(* Owners are told apart by the version of the stack that recorded them:   *)
(* owner n is the user in the n-th version.  So "the cached owner is       *)
(* outdated" is a comparison of numbers.                                   *)
(***************************************************************************)
EXTENDS Naturals

CONSTANTS
    Steps,          \* attempts of the exponential backoff, 4 in the code
    MaxVersion      \* bound on the versions of the stack

ASSUME StackOwnerCacheAssumption ==
    /\ Steps \in Nat \ {0}
    /\ MaxVersion \in Nat

\* A version that is none: no entry, no answer.
None == 0

VARIABLES
    version,        \* the latest version of the stack in the API server
    exists,         \* it is not a deletion
    seen,           \* the last version the StackListener was notified of
    noticed,        \* the last version onAdd or onUpdate was called for
    deletions,      \* the versions that are deletions
    entry, dirty,   \* the cache entry: the owner's version, or None
    pc,             \* the reconciler's position in getWithRetries
    acceptDirty,    \* the argument of the call
    attempt,        \* the attempt of the backoff
    answer,         \* what the owner subresource answered
    result          \* the owner the last call returned, or None for an error

apiVars == <<version, exists, deletions>>
callVars == <<pc, acceptDirty, attempt, answer, result>>
vars == <<apiVars, seen, noticed, entry, dirty, callVars>>

Init ==
    /\ version = 0 /\ exists = FALSE /\ deletions = {}
    /\ seen = 0 /\ noticed = 0
    /\ entry = None /\ dirty = FALSE
    /\ pc = "idle" /\ acceptDirty = FALSE /\ attempt = 0
    /\ answer = "none" /\ result = None
-----------------------------------------------------------------------------
(* The API server: a stack is created, updated (each records an owner) and *)
(* deleted.                                                                *)

WriteStack ==
    /\ version < MaxVersion
    /\ version' = version + 1 /\ exists' = TRUE
    /\ UNCHANGED <<deletions, seen, noticed, entry, dirty, callVars>>

DeleteStack ==
    /\ version < MaxVersion /\ exists
    /\ version' = version + 1 /\ exists' = FALSE
    /\ deletions' = deletions \cup {version + 1}
    /\ UNCHANGED <<seen, noticed, entry, dirty, callVars>>
-----------------------------------------------------------------------------
(* The mutex is free unless a call to the owner subresource is under way.  *)

Unlocked_DuringGet == TRUE

Unlocked == pc \notin {"get", "answered"}

\* onAdd and onUpdate call setDirty, which marks an entry that is there.
SetDirty ==
    /\ seen < version /\ seen + 1 \notin deletions
    /\ Unlocked
    /\ seen' = seen + 1 /\ noticed' = seen + 1
    /\ dirty' = (entry # None)
    /\ UNCHANGED <<apiVars, entry, callVars>>

\* onDelete leaves the cache alone.
OnDelete ==
    /\ seen < version /\ seen + 1 \in deletions
    /\ seen' = seen + 1
    /\ UNCHANGED <<apiVars, noticed, entry, dirty, callVars>>

\* The informer's resync calls onUpdate for what it has delivered already.
Resync ==
    /\ seen > 0 /\ seen \notin deletions
    /\ Unlocked
    /\ dirty' = (entry # None)
    /\ UNCHANGED <<apiVars, seen, noticed, entry, callVars>>
-----------------------------------------------------------------------------
(* The reconciler.                                                         *)

\* getUpdater calls getWithRetries; the stack may have been deleted meanwhile.
Call(accept) ==
    /\ pc = "idle" /\ version > 0
    /\ pc' = "lock" /\ acceptDirty' = accept /\ attempt' = 1 /\ result' = None
    /\ UNCHANGED <<apiVars, seen, noticed, entry, dirty, answer>>

Hit_IgnoreDirty ==
    /\ pc = "lock"
    /\ entry # None
    /\ pc' = "returned" /\ result' = entry
    /\ UNCHANGED <<apiVars, seen, noticed, entry, dirty, acceptDirty, attempt, answer>>

\* getWithError locks and finds an entry that will do.
Hit ==
    /\ pc = "lock"
    /\ entry # None /\ (~dirty \/ acceptDirty)
    /\ pc' = "returned" /\ result' = entry
    /\ UNCHANGED <<apiVars, seen, noticed, entry, dirty, acceptDirty, attempt, answer>>

\* Or it does not, and asks the owner subresource with the mutex held.
Miss ==
    /\ pc = "lock"
    /\ ~(entry # None /\ (~dirty \/ acceptDirty))
    /\ pc' = "get"
    /\ UNCHANGED <<apiVars, seen, noticed, entry, dirty, acceptDirty, attempt, answer, result>>

\* The API server answers with the owner of that moment, or that the stack is
\* not found, or not at all; the answer takes time to arrive.
Answer ==
    /\ pc = "get"
    /\ pc' = "answered"
    /\ \/ exists /\ answer' = "found" /\ result' = version
       \/ ~exists /\ answer' = "notFound" /\ result' = None
       \/ answer' = "error" /\ result' = None
    /\ UNCHANGED <<apiVars, seen, noticed, entry, dirty, acceptDirty, attempt>>

\* A found owner makes the entry clean.
Store ==
    /\ pc = "answered" /\ answer = "found"
    /\ entry' = result /\ dirty' = FALSE
    /\ pc' = "returned"
    /\ UNCHANGED <<apiVars, seen, noticed, acceptDirty, attempt, answer, result>>

\* The stack is gone: fall back to the dirty entry, or give the error up to
\* the caller at once.
NotFound ==
    /\ pc = "answered" /\ answer = "notFound"
    /\ result' = entry
    /\ pc' = "returned"
    /\ UNCHANGED <<apiVars, seen, noticed, entry, dirty, acceptDirty, attempt, answer>>

Failed_RetryLocked ==
    /\ pc = "answered" /\ answer = "error"
    /\ pc' = "get"
    /\ UNCHANGED <<apiVars, seen, noticed, entry, dirty, acceptDirty, attempt, answer, result>>

\* Another error is retried, with the mutex released while the backoff waits.
Failed ==
    /\ pc = "answered" /\ answer = "error"
    /\ IF attempt < Steps
       THEN pc' = "lock" /\ attempt' = attempt + 1
       ELSE pc' = "returned" /\ UNCHANGED attempt
    /\ UNCHANGED <<apiVars, seen, noticed, entry, dirty, acceptDirty, answer, result>>

\* The caller uses the result, and is back for the next stack.
Return ==
    /\ pc = "returned"
    /\ pc' = "idle" /\ answer' = "none"
    /\ UNCHANGED <<apiVars, seen, noticed, entry, dirty, acceptDirty, attempt, result>>

\* deleteStackChildren ends with remove, after a call that accepted any entry
\* and returned a user.
Remove ==
    /\ pc = "returned" /\ acceptDirty /\ result # None
    /\ entry' = None /\ dirty' = FALSE
    /\ pc' = "idle" /\ answer' = "none"
    /\ UNCHANGED <<apiVars, seen, noticed, acceptDirty, attempt, result>>
-----------------------------------------------------------------------------
Api == WriteStack \/ DeleteStack
Listener == SetDirty \/ OnDelete
Reconciler == Hit \/ Miss \/ Answer \/ Store \/ NotFound \/ Failed \/ Return \/ Remove

Next ==
    \/ Api
    \/ Listener
    \/ Resync
    \/ \E accept \in BOOLEAN : Call(accept)
    \/ Reconciler

Spec == Init /\ [][Next]_vars

\* The informer delivers and the reconciler runs; API calls end.  SetDirty has
\* to find the mutex free: Go's mutex is fair to a waiter that starves.
FairSpec == Spec /\ SF_vars(Listener) /\ WF_vars(Reconciler)
-----------------------------------------------------------------------------
\* The type of every variable.
TypeOK ==
    /\ version \in Nat /\ version <= MaxVersion
    /\ exists \in BOOLEAN /\ deletions \subseteq 1..version
    /\ seen \in 0..version /\ noticed \in 0..seen
    /\ entry \in 0..version /\ dirty \in BOOLEAN
    /\ pc \in {"idle", "lock", "get", "answered", "returned"}
    /\ acceptDirty \in BOOLEAN /\ attempt \in 0..Steps
    /\ answer \in {"none", "found", "notFound", "error"}
    /\ result \in 0..version

\* An entry that is not dirty is at least as recent as the last change the
\* listener was told of: no notification is lost between the read of the owner
\* and the write of the entry, because setDirty waits for the mutex.
CleanIsRecent == entry # None /\ ~dirty => entry >= noticed

\* A call for a stack that is dirty (acceptDirty is false) returns an owner at
\* least as recent as the last change the listener was told of, unless the
\* stack is gone and the dirty entry is all there is.
StrictReadIsRecent ==
    [][pc # "returned" /\ pc' = "returned" /\ ~acceptDirty /\ result' # None
         => result' >= noticed \/ answer = "notFound"]_vars

\* The reconciler holds the mutex over calls to the API server, and still the
\* listener is not blocked forever: every notification is handled.
NotificationsHandled == \A n \in 1..MaxVersion : version >= n ~> seen >= n
=============================================================================
