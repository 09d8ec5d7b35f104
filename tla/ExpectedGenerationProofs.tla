----------------------- MODULE ExpectedGenerationProofs -----------------------
(***************************************************************************)
(* Proofs about ExpectedGeneration: for deployments, and for the other     *)
(* kinds of workload when the conversion leaves no field out, the predicted *)
(* generation is the one the API server assigns, and so a match means that *)
(* nobody else has changed the spec.                                       *)
(***************************************************************************)
EXTENDS ExpectedGeneration, TLAPS

\* Every workload is of a kind whose generation can be predicted.
Predictability == \A w \in Workloads : w.notes \/ ~w.partial

\* The generation never falls behind the prediction, which a change by somebody
\* else therefore overtakes for good.
Overtaken ==
    /\ live # None => live.expected <= live.generation
    /\ ~ours => live.expected < live.generation

IInv == TypeOK /\ (fresh => copy = live) /\ Overtaken

\* The heart of it: what setExpectedGeneration predicts is what the API server
\* does.
LEMMA Prediction ==
    ASSUME Predictability, IInv, Replace
    PROVE  live' \in ObjectSet /\ live'.expected = live'.generation
<1> DEFINE new == [generation |-> copy.generation, expected |-> predict,
                   spec |-> want.spec, labels |-> want.labels, revision |-> FALSE]
           changed == \/ new.spec # live.spec
                      \/ /\ workload.notes
                         /\ new.expected # live.expected \/ new.revision # live.revision
<1>1. copy = live /\ live \in ObjectSet
  BY DEF Replace, IInv, TypeOK
<1>2. /\ workload.notes \in BOOLEAN /\ workload.partial \in BOOLEAN
      /\ workload.notes \/ ~workload.partial
  BY ExpectedGenerationAssumption DEF Predictability, IInv, TypeOK, WorkloadSet
<1>3. /\ live.generation \in Nat \ {0} /\ live.expected \in Nat /\ live.revision \in BOOLEAN
      /\ live.expected <= live.generation /\ live # None
  BY <1>1 DEF ObjectSet, IInv, Overtaken, Replace
<1>4. predict \in Nat
  BY <1>1, <1>3 DEF predict
<1>5. predict = IF changed THEN live.generation + 1 ELSE live.generation
  <2>1. CASE workload.notes
    <3>1. CASE live.revision
      BY <1>1, <1>3, <2>1, <3>1 DEF predict, specsDiffer
    <3>2. CASE ~live.revision
      <4>1. live.revision = FALSE
        BY <1>3, <3>2
      <4>2. changed <=> want.spec # live.spec \/ predict # live.expected
        BY <2>1, <4>1, Zenon
      <4> HIDE DEF changed
      <4>3. CASE specsDiffer
        <5>1. predict = live.generation + 1
          BY <1>1, <1>3, <2>1, <4>3 DEF predict
        <5> QED BY <1>3, <4>2, <5>1
      <4>4. CASE ~specsDiffer
        <5>1. predict = IF live.expected # live.generation
                        THEN live.generation + 1 ELSE live.generation
          BY <1>1, <1>3, <2>1, <3>2, <4>4 DEF predict
        <5>2. want.spec = live.spec
          BY <1>1, <4>4 DEF specsDiffer
        <5> QED BY <1>3, <4>2, <5>1, <5>2
      <4> QED BY <4>3, <4>4
    <3> QED BY <3>1, <3>2, Zenon
  <2>2. CASE ~workload.notes
    BY <1>1, <1>2, <1>3, <2>2, Zenon DEF predict, specsDiffer
  <2> QED BY <2>1, <2>2, Zenon
<1>6. live' = [new EXCEPT !.generation = IF changed THEN live.generation + 1
                                         ELSE live.generation]
  <2>1. live' = Stored(live, new)
    BY DEF Replace
  <2> QED BY <2>1, Zenon DEF Stored
<1>7. /\ want.spec \in Specs /\ want.labels \in Labels
      /\ live.generation + 1 \in Nat \ {0}
  BY <1>3 DEF IInv, TypeOK
<1>8. FALSE \in BOOLEAN
  OBVIOUS
<1>9. ASSUME NEW g \in Nat \ {0}, g = predict,
             live' = [new EXCEPT !.generation = g]
      PROVE  live' \in ObjectSet /\ live'.expected = live'.generation
  BY <1>4, <1>7, <1>8, <1>9, Zenon DEF ObjectSet
<1> HIDE DEF changed, new
<1> QED BY <1>3, <1>5, <1>6, <1>7, <1>9

\* It holds before the first write.
LEMMA InitInv == Init => IInv
<1> SUFFICES ASSUME Init PROVE IInv
  OBVIOUS
<1>1. given \subseteq Specs \cup Edits
  BY DEF Init
<1>2. dirty \in BOOLEAN /\ fresh \in BOOLEAN /\ ours \in BOOLEAN /\ returned \in BOOLEAN
  BY Zenon DEF Init
<1> QED BY <1>1, <1>2, ExpectedGenerationAssumption DEF Init, IInv, TypeOK, Overtaken

\* Every step preserves it, as long as the generation can be predicted.
LEMMA StepInv ==
    ASSUME Predictability, IInv, [Next]_vars
    PROVE  IInv'
<1> USE ExpectedGenerationAssumption
<1>1. ASSUME NEW spec \in Specs, NEW labels \in Labels, UpdateStack(spec, labels)
      PROVE  IInv'
  <2>1. TRUE \in BOOLEAN /\ dirty' = TRUE
    BY <1>1 DEF UpdateStack
  <2> QED BY <1>1, <2>1 DEF UpdateStack, IInv, TypeOK, Overtaken
<1>2. ASSUME NEW spec \in Edits, Edit(spec)
      PROVE  IInv'
  <2>1. /\ live \in ObjectSet /\ ~fresh' /\ ~ours'
        /\ fresh' \in BOOLEAN /\ ours' \in BOOLEAN
        /\ live' = [live EXCEPT !.spec = spec, !.generation = live.generation + 1]
    BY <1>2, Zenon DEF Edit, IInv, TypeOK
  <2>2. live.expected \in Nat /\ live.generation \in Nat /\ live.expected <= live.generation
    BY <1>2, <2>1 DEF Edit, ObjectSet, IInv, Overtaken
  <2>3. /\ live' \in ObjectSet /\ live'.generation = live.generation + 1
        /\ live'.expected = live.expected
    <3>1. ASSUME NEW g \in Nat \ {0},
                 live' = [live EXCEPT !.spec = spec, !.generation = g]
          PROVE  live' \in ObjectSet /\ live'.generation = g /\ live'.expected = live.expected
      BY <2>1, <3>1, Zenon DEF ObjectSet
    <3>2. live.generation + 1 \in Nat \ {0}
      BY <2>2
    <3> QED BY <2>1, <3>1, <3>2, Zenon
  <2>4. TypeOK'
    BY <1>2, <2>1, <2>3 DEF Edit, IInv, TypeOK
  <2>6. Overtaken'
    BY <2>2, <2>3 DEF Overtaken
  <2> QED BY <2>1, <2>4, <2>6 DEF IInv
<1>3. CASE Annotate
  <2>1. /\ live \in ObjectSet /\ ~fresh' /\ fresh' \in BOOLEAN /\ TRUE \in BOOLEAN
        /\ live' = [live EXCEPT !.revision = TRUE]
    BY <1>3, Zenon DEF Annotate, IInv, TypeOK
  <2>2. /\ live' \in ObjectSet /\ live'.generation = live.generation
        /\ live'.expected = live.expected
    BY <2>1, Zenon DEF ObjectSet
  <2>3. TypeOK'
    BY <1>3, <2>1, <2>2 DEF Annotate, IInv, TypeOK
  <2>4. Overtaken'
    BY <1>3, <2>2 DEF Annotate, IInv, Overtaken
  <2> QED BY <2>1, <2>3, <2>4 DEF IInv
<1>4. CASE Sync
  <2>1. fresh' \in BOOLEAN /\ copy' = live'
    BY <1>4 DEF Sync
  <2> QED BY <1>4, <2>1 DEF Sync, IInv, TypeOK, Overtaken
<1>5. CASE Keep
  <2>1. dirty' \in BOOLEAN
    BY <1>5, Zenon DEF Keep
  <2> QED BY <1>5, <2>1 DEF Keep, IInv, TypeOK, Overtaken
<1>6. CASE Create
  <2>1. /\ ~fresh' /\ ours' /\ fresh' \in BOOLEAN /\ ours' \in BOOLEAN /\ dirty' \in BOOLEAN
        /\ FALSE \in BOOLEAN
        /\ live' = [generation |-> 1, expected |-> 1, spec |-> want.spec,
                    labels |-> want.labels, revision |-> FALSE]
    BY <1>6, Zenon DEF Create
  <2>2. live' \in ObjectSet /\ live'.expected <= live'.generation
    BY <2>1 DEF ObjectSet, IInv, TypeOK
  <2>3. TypeOK'
    BY <1>6, <2>1, <2>2 DEF Create, IInv, TypeOK
  <2> QED BY <2>1, <2>2, <2>3 DEF IInv, Overtaken
<1>7. CASE Replace
  <2>1. live' \in ObjectSet /\ live'.expected = live'.generation
    BY <1>7, Prediction
  <2>2. live'.expected <= live'.generation
    BY <2>1 DEF ObjectSet
  <2>3. /\ ours' /\ ours' \in BOOLEAN /\ dirty' \in BOOLEAN /\ fresh' \in BOOLEAN
        /\ fresh' => live' = live
    BY <1>7, Zenon DEF Replace
  <2>4. copy = live /\ copy' = copy
    BY <1>7 DEF Replace, IInv
  <2>5. TypeOK'
    BY <1>7, <2>1, <2>3 DEF Replace, IInv, TypeOK
  <2> QED BY <2>2, <2>3, <2>4, <2>5 DEF IInv, Overtaken
<1>8. CASE Fail
  <2>1. dirty' \in BOOLEAN
    BY <1>8 DEF Fail
  <2>2. conflicts' \in 0..MaxConflicts
    BY <1>8 DEF Fail, IInv, TypeOK
  <2> QED BY <1>8, <2>1, <2>2 DEF Fail, IInv, TypeOK, Overtaken
<1>9. CASE UNCHANGED vars
  BY <1>9 DEF vars, IInv, TypeOK, Overtaken
<1> QED BY <1>1, <1>2, <1>3, <1>4, <1>5, <1>6, <1>7, <1>8, <1>9
        DEF Next, reconcileChildren

\* The types hold, and the generation is at or past the prediction, in every
\* reachable state.
THEOREM Invariance == ASSUME Predictability PROVE Spec => []IInv
<1>1. IInv /\ [Next]_vars => IInv'
  BY StepInv
<1> QED BY <1>1, InitInv, PTL DEF Spec

\* The skip in toStackResources never keeps what somebody else wrote: for any
\* number of updates, edits and conflicts, a workload whose generation is the
\* predicted one has the spec the controller gave it.
THEOREM MatchesAreOurs == ASSUME Predictability PROVE Spec => []MatchIsOurs
<1>1. IInv => MatchIsOurs
  BY DEF IInv, TypeOK, ObjectSet, Overtaken, MatchIsOurs, generationMatchesExpected
<1> QED BY <1>1, Invariance, PTL

\* Whatever the controller writes matches at once: setExpectedGeneration
\* predicts what the API server does.
THEOREM WritesMatch == ASSUME Predictability PROVE Spec => WriteMatches
<1>1. IInv /\ [Next]_vars
        => [Create \/ Replace => generationMatchesExpected(live')]_vars
  BY Prediction DEF Create, generationMatchesExpected
<1> QED BY <1>1, Invariance, PTL DEF Spec, WriteMatches
=============================================================================
