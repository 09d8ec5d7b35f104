------------------------ MODULE StackOwnerCacheProofs ------------------------
(***************************************************************************)
(* Proofs about StackOwnerCache, for any number of versions and attempts.  *)
(***************************************************************************)
EXTENDS StackOwnerCache, TLAPS

\* While the mutex is held across the call, the answer is as recent as what
\* the listener was told, because setDirty cannot run before the entry is
\* written.
AnswerIsRecent ==
    /\ exists => version >= 1
    /\ pc = "answered" => answer # "none"
    /\ pc = "answered" /\ answer = "found" => result # None /\ result >= noticed
    /\ pc = "answered" /\ answer # "found" => result = None
    /\ pc \in {"lock", "get"} => result = None

IInv == TypeOK /\ CleanIsRecent /\ AnswerIsRecent

\* It holds of the empty cache.
LEMMA InitInv == Init => IInv
<1> SUFFICES ASSUME Init PROVE IInv
  OBVIOUS
<1>1. TypeOK
  <2>1. deletions \subseteq 1..version /\ exists \in BOOLEAN /\ dirty \in BOOLEAN
    BY Zenon DEF Init
  <2>2. acceptDirty \in BOOLEAN
    BY Zenon DEF Init
  <2> QED BY <2>1, <2>2, StackOwnerCacheAssumption DEF Init, TypeOK, None
<1>2. CleanIsRecent /\ AnswerIsRecent
  BY SMTT(30) DEF Init, CleanIsRecent, AnswerIsRecent, None
<1> QED BY <1>1, <1>2 DEF IInv

\* Every step preserves it.
LEMMA StepInv == IInv /\ [Next]_vars => IInv'
<1> SUFFICES ASSUME IInv, [Next]_vars PROVE IInv'
  OBVIOUS
<1> USE StackOwnerCacheAssumption
    DEF IInv, TypeOK, CleanIsRecent, AnswerIsRecent, None, apiVars, callVars
<1>1. CASE WriteStack
  <2>1. version' \in Nat /\ version' <= MaxVersion /\ version' = version + 1
    BY <1>1 DEF WriteStack
  <2>2. deletions' \subseteq 1..version'
    BY <1>1, <2>1 DEF WriteStack
  <2> QED BY <1>1, <2>1, <2>2 DEF WriteStack
<1>2. CASE DeleteStack
  <2>1. version' \in Nat /\ version' <= MaxVersion /\ version' = version + 1
    BY <1>2 DEF DeleteStack
  <2>2. deletions' \subseteq 1..version'
    BY <1>2, <2>1 DEF DeleteStack
  <2>3. exists' \in BOOLEAN /\ ~exists' /\ UNCHANGED <<seen, noticed, entry, dirty, callVars>>
    BY <1>2, Zenon DEF DeleteStack
  <2> QED BY <2>1, <2>2, <2>3
<1>3. CASE SetDirty
  <2>1. dirty' \in BOOLEAN /\ (dirty' <=> entry # None)
    BY <1>3, Zenon DEF SetDirty
  <2>2. /\ seen' = seen + 1 /\ noticed' = seen + 1 /\ seen < version
        /\ pc \notin {"get", "answered"}
        /\ UNCHANGED <<apiVars, entry, callVars>>
    BY <1>3 DEF SetDirty, Unlocked
  <2> QED BY <2>1, <2>2
<1>4. CASE OnDelete
  BY <1>4 DEF OnDelete
<1>5. CASE Resync
  BY <1>5 DEF Resync, Unlocked
<1>6. ASSUME NEW accept \in BOOLEAN, Call(accept) PROVE IInv'
  BY <1>6 DEF Call
<1>7. CASE Hit
  BY <1>7 DEF Hit
<1>8. CASE Miss
  BY <1>8 DEF Miss
<1>9. CASE Answer
  BY <1>9 DEF Answer
<1>10. CASE Store
  BY <1>10, Zenon DEF Store
<1>11. CASE NotFound
  BY <1>11 DEF NotFound
<1>12. CASE Failed
  BY <1>12 DEF Failed
<1>13. CASE Return
  BY <1>13 DEF Return
<1>14. CASE Remove
  <2>1. /\ dirty' \in BOOLEAN /\ entry' = None /\ pc' = "idle" /\ answer' = "none"
        /\ UNCHANGED <<apiVars, seen, noticed, acceptDirty, attempt, result>>
    BY <1>14, Zenon DEF Remove
  <2> QED BY <2>1
<1>15. CASE UNCHANGED vars
  BY <1>15 DEF vars
<1> QED
  BY <1>1, <1>2, <1>3, <1>4, <1>5, <1>6, <1>7, <1>8, <1>9, <1>10, <1>11, <1>12,
     <1>13, <1>14, <1>15, Zenon DEF Next, Api, Listener, Reconciler

\* IInv holds in every reachable state of the cache.
THEOREM Invariance == Spec => []IInv
<1> QED BY InitInv, StepInv, PTL DEF Spec

\* A clean entry is never older than the last add or update notification:
\* holding the mutex over the call to the owner subresource is enough.
THEOREM CleanEntriesAreRecent == Spec => []CleanIsRecent
<1>1. IInv => CleanIsRecent
  BY DEF IInv
<1> QED BY <1>1, Invariance, PTL

\* What a call for a dirty stack returns is never older than the last add or
\* update notification, unless the stack is gone.
THEOREM StrictReadsAreRecent == Spec => StrictReadIsRecent
<1>1. IInv /\ [Next]_vars
        => [pc # "returned" /\ pc' = "returned" /\ ~acceptDirty /\ result' # None
              => result' >= noticed \/ answer = "notFound"]_vars
  <2> SUFFICES ASSUME IInv, Next, pc # "returned", pc' = "returned", ~acceptDirty,
                      result' # None
               PROVE  result' >= noticed \/ answer = "notFound"
    OBVIOUS
  <2>1. Hit \/ Store \/ NotFound \/ Failed
    BY DEF Next, Api, Listener, Reconciler, WriteStack, DeleteStack, SetDirty, OnDelete,
           Resync, Call, Miss, Answer, Return, Remove, callVars
  <2>2. CASE Hit
    BY <2>2 DEF Hit, IInv, CleanIsRecent
  <2>3. CASE Store
    BY <2>3 DEF Store, IInv, AnswerIsRecent
  <2>4. CASE NotFound
    BY <2>4 DEF NotFound
  <2>5. CASE Failed
    BY <2>5 DEF Failed, IInv, AnswerIsRecent
  <2> QED BY <2>1, <2>2, <2>3, <2>4, <2>5
<1> QED BY <1>1, Invariance, PTL DEF Spec, StrictReadIsRecent
=============================================================================
