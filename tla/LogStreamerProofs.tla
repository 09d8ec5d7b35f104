------------------------ MODULE LogStreamerProofs -------------------------
(***************************************************************************)
(* For any pods, logs, arguments, failures and any interleaving of         *)
(* registrations, deregistrations and the unprotected iteration:           *)
(*   - when Signal is over every stream that a reader may still wait on is *)
(*     closed.  The invariant says who is responsible for the stream of a  *)
(*     reader that has registered: before the signal its callback is in    *)
(*     the map; during the iteration it is still to be called, or the      *)
(*     stream is closed;                                                   *)
(*   - a channel drained when no reader is left stays empty;               *)
(*   - an answer that ends by itself has all the lines asked for, in       *)
(*     order.  The invariant follows the lines of a pod from its log to    *)
(*     the client.                                                         *)
(***************************************************************************)
EXTENDS LogStreamer, FiniteSetTheorems, SequenceTheorems, TLAPS

\* Most leaves are first-order reasoning on sets, functions and records; the
\* ones that need arithmetic, sequences or long case splits ask for SMT.
USE Zenon

\* A reader between its registration and its deregistration.
Registered == {"reading", "holding", "ended", "waking", "leaving"}

IInv ==
    /\ reader \in [Pods -> Registered \cup {"none", "opened", "done"}]
    /\ triggered <=> handler \in {"signal", "gone"}
    /\ \A p \in Pods : reader[p] \in Registered =>
         /\ ~triggered => p \in callbacks
         /\ handler = "signal" => p \in closed \/ p \in iterating \cap callbacks
         /\ handler = "gone" => p \in closed

\* Nothing of the signal happens before the handler has come to it.
LEMMA InitIInv == Init => IInv
  BY DEF Init, IInv, Registered

\* A step that changes none of what the invariant speaks of.
LEMMA Unrelated ==
    ASSUME IInv, UNCHANGED <<reader, callbacks, triggered, iterating, closed, handler>>
    PROVE  IInv'
  BY DEF IInv

\* A stream that is opened has no registered reader yet.
LEMMA Opening ==
    ASSUME IInv, NEW p \in Pods, streamLogs(p),
           UNCHANGED <<callbacks, triggered, iterating, handler>>
    PROVE  IInv'
  BY DEF IInv, streamLogs, Registered, readers

\* Every step of a reader keeps the invariant.
LEMMA ReaderStep ==
    ASSUME IInv, NEW p \in Pods, Reader(p)
    PROVE  IInv'
  <1>1. CASE Register(p)
    BY <1>1 DEF IInv, Register, Registered
  <1>2. CASE ReadSlice(p)
    BY <1>2 DEF IInv, ReadSlice, Registered, signaler
  <1>3. CASE ReadEnds(p)
    BY <1>3 DEF IInv, ReadEnds, Registered, signaler
  <1>4. CASE Send(p)
    BY <1>4 DEF IInv, Send, Registered, signaler
  <1>5. CASE Decrement(p)
    BY <1>5 DEF IInv, Decrement, Registered, signaler
  <1>6. CASE WakeUp(p)
    BY <1>6 DEF IInv, WakeUp, Registered, signaler
  <1>7. CASE Unregister(p)
    BY <1>7 DEF IInv, Unregister, Registered
  <1> QED
    BY <1>1, <1>2, <1>3, <1>4, <1>5, <1>6, <1>7 DEF Reader

\* Every step of the handler keeps the invariant.
LEMMA HandlerStep ==
    ASSUME IInv, Handler
    PROVE  IInv'
  <1>1. ASSUME NEW p \in Pods, getPods(p) PROVE IInv'
    BY <1>1, Opening DEF getPods, signaler
  <1>2. ASSUME NEW p \in Pods, Callback(p) PROVE IInv'
    BY <1>2 DEF IInv, Callback
  <1>3. CASE ServeHTTP
    BY <1>3 DEF IInv, ServeHTTP, readers, signaler
  <1>4. CASE Receive
    BY <1>4 DEF IInv, Receive, readers, signaler
  <1>5. CASE CheckNWatch
    BY <1>5 DEF IInv, CheckNWatch, readers, signaler
  <1>6. CASE Drain
    BY <1>6 DEF IInv, Drain, readers, signaler
  <1>7. CASE CloseNotify
    BY <1>7 DEF IInv, CloseNotify, readers, signaler
  <1>8. CASE Signal
    BY <1>8 DEF IInv, Signal, readers
  <1>9. CASE SignalEnds
    BY <1>9 DEF IInv, SignalEnds, readers
  <1> QED
    BY <1>1, <1>2, <1>3, <1>4, <1>5, <1>6, <1>7, <1>8, <1>9 DEF Handler

\* Every step of the watcher keeps the invariant.
LEMMA WatcherStep ==
    ASSUME IInv, Watcher
    PROVE  IInv'
  <1>1. CASE Channel
    BY <1>1, Unrelated DEF Channel, readers
  <1>2. CASE StopWatcher
    BY <1>2, Unrelated DEF StopWatcher, readers
  <1>3. ASSUME NEW p \in Pods, watchPods(p) PROVE IInv'
    <2>1. CASE p \in watching
      BY <1>3, <2>1, Unrelated DEF watchPods, readers, signaler
    <2>2. CASE p \notin watching
      BY <1>3, <2>2, Opening DEF watchPods, signaler
    <2> QED
      BY <2>1, <2>2
  <1> QED
    BY <1>1, <1>2, <1>3 DEF Watcher

\* What the invariant says of every stream that has a registered reader holds
\* in every state of the request (Register, Unregister, Signal).
THEOREM Invariance == Spec => []IInv
  <1>1. IInv /\ [Next]_vars => IInv'
    <2> SUFFICES ASSUME IInv, [Next]_vars PROVE IInv'
      OBVIOUS
    <2>1. ASSUME NEW p \in Pods, PodEvent(p) PROVE IInv'
      BY <2>1, Unrelated DEF PodEvent, readers, signaler
    <2>2. CASE ClientLeaves \/ WatchEnds
      BY <2>2, Unrelated DEF ClientLeaves, WatchEnds, readers, signaler
    <2>3. CASE UNCHANGED vars
      BY <2>3, Unrelated DEF vars, readers, signaler
    <2> QED
      BY <2>1, <2>2, <2>3, ReaderStep, HandlerStep, WatcherStep DEF Next
  <1> QED
    BY <1>1, InitIInv, PTL DEF Spec

\* When Signal has returned no reader waits on an open stream, whether it had
\* registered before, registered meanwhile, or registers later (Signaler.Signal,
\* Signaler.Register).
THEOREM SignalReachesAll == Spec => []SignalClosesAll
  <1>1. IInv => SignalClosesAll
    BY DEF IInv, SignalClosesAll, Registered
  <1> QED
    BY <1>1, Invariance, PTL
-----------------------------------------------------------------------------
(* The counter nWatch, the wake-ups and the drain. *)

\* The readers that nWatch counts.
Counting == {"opened", "reading", "holding", "ended"}
Counted == {p \in Pods : reader[p] \in Counting}

CountInv ==
    /\ reader \in [Pods -> Registered \cup {"none", "opened", "done"}]
    /\ nWatch = Cardinality(Counted)
    /\ \A p \in Pods : p \notin watching => reader[p] = "none"
    /\ \A p \in toOpen : p \notin watching
    /\ watcher # "off" => follow
    /\ follow => toOpen = {}
    /\ handler \in {"drain", "drained"} => ~follow /\ nWatch = 0

\* The number of counted readers.
LEMMA CountFacts ==
    ASSUME CountInv
    PROVE  /\ IsFiniteSet(Counted) /\ Cardinality(Counted) \in Nat
           /\ nWatch = 0 => Counted = {}
  <1>1. IsFiniteSet(Counted)
    BY LogStreamerAssumption, FS_Subset DEF Counted
  <1> QED
    BY <1>1, FS_CardinalityType, FS_EmptySet DEF CountInv

\* The counter starts at zero with no reader.
LEMMA InitCount == Init => CountInv
  <1> SUFFICES ASSUME Init PROVE CountInv
    OBVIOUS
  <1>1. Counted = {}
    BY DEF Init, Counted, Counting
  <1>2. nWatch = Cardinality(Counted)
    BY <1>1, FS_EmptySet DEF Init
  <1> QED
    BY <1>2 DEF Init, CountInv, Registered

\* A step that leaves the readers and the counter alone.
LEMMA SameReaders ==
    ASSUME CountInv, UNCHANGED <<reader, nWatch, watching, request>>, toOpen' \subseteq toOpen,
           watcher' # "off" => watcher # "off",
           handler' \in {"drain", "drained"} =>
               handler \in {"drain", "drained"} \/ (~follow /\ nWatch = 0)
    PROVE  CountInv'
  <1>1. Counted' = Counted /\ follow' = follow
    BY DEF Counted, follow, args
  <1> QED
    BY <1>1 DEF CountInv

\* A reader that goes on without leaving the counter or joining it.
LEMMA SameCount ==
    ASSUME CountInv, NEW p \in Pods, NEW r \in Registered \cup {"done"},
           reader' = [reader EXCEPT ![p] = r], reader[p] # "none",
           reader[p] \in Counting <=> r \in Counting,
           UNCHANGED <<nWatch, watching, request, toOpen, watcher, handler>>
    PROVE  CountInv'
  <1>1. reader' \in [Pods -> Registered \cup {"none", "opened", "done"}]
    BY DEF CountInv
  <1>2. \A q \in Pods : reader'[q] = IF q = p THEN r ELSE reader[q]
    BY DEF CountInv
  <1>3. Counted' = Counted /\ follow' = follow
    BY <1>2 DEF Counted, follow, args
  <1> QED
    BY <1>1, <1>2, <1>3 DEF CountInv

\* A reader that is opened is counted.
LEMMA OpeningCount ==
    ASSUME CountInv, NEW p \in Pods, p \notin watching, streamLogs(p),
           toOpen' \subseteq toOpen \ {p}, handler \notin {"drain", "drained"} \/ follow,
           UNCHANGED <<request, watcher, handler>>
    PROVE  CountInv'
  <1>1. CASE UNCHANGED readers
    BY <1>1, SameReaders DEF readers
  <1>2. CASE /\ watching' = watching \cup {p} /\ nWatch' = nWatch + 1
             /\ reader' = [reader EXCEPT ![p] = "opened"]
    <2>1. reader' \in [Pods -> Registered \cup {"none", "opened", "done"}]
      BY <1>2 DEF CountInv
    <2>2. \A q \in Pods : reader'[q] = IF q = p THEN "opened" ELSE reader[q]
      BY <1>2 DEF CountInv
    <2>3. p \notin Counted
      BY DEF CountInv, Counted, Counting
    <2>4. Counted' = Counted \cup {p}
      BY <2>2 DEF Counted, Counting
    <2>5. nWatch' = Cardinality(Counted')
      BY <1>2, <2>3, <2>4, CountFacts, FS_AddElement DEF CountInv
    <2>6. follow' = follow
      BY DEF follow, args
    <2> QED
      BY <1>2, <2>1, <2>2, <2>5, <2>6 DEF CountInv
  <1> QED
    BY <1>1, <1>2 DEF streamLogs

\* A reader that ends takes itself out of the counter.
LEMMA DecrementCount ==
    ASSUME CountInv, NEW p \in Pods, Decrement(p)
    PROVE  CountInv'
  <1>1. reader' \in [Pods -> Registered \cup {"none", "opened", "done"}]
    BY DEF CountInv, Decrement, Registered
  <1>2. \A q \in Pods : reader'[q] = IF q = p THEN "waking" ELSE reader[q]
    BY DEF CountInv, Decrement
  <1>3. p \in Counted
    BY DEF Decrement, Counted, Counting
  <1>4. Counted' = Counted \ {p}
    BY <1>2 DEF Counted, Counting
  <1>5. nWatch' = Cardinality(Counted')
    BY <1>3, <1>4, CountFacts, FS_RemoveElement DEF CountInv, Decrement
  <1>6. follow' = follow
    BY DEF follow, args, Decrement
  <1>7. nWatch # 0
    BY <1>3, CountFacts
  <1>8. reader[p] # "none"
    BY DEF Decrement
  <1> QED
    BY <1>1, <1>2, <1>5, <1>6, <1>7, <1>8 DEF CountInv, Decrement

\* Every step keeps the counter right.
LEMMA CountStep == CountInv /\ [Next]_vars => CountInv'
  <1> SUFFICES ASSUME CountInv, [Next]_vars PROVE CountInv'
    OBVIOUS
  <1>1. ASSUME NEW p \in Pods, PodEvent(p) PROVE CountInv'
    BY <1>1, SameReaders DEF PodEvent, readers
  <1>2. CASE ClientLeaves \/ WatchEnds
    BY <1>2, SameReaders DEF ClientLeaves, WatchEnds, readers
  <1>3. CASE UNCHANGED vars
    BY <1>3, SameReaders DEF vars, readers
  <1>4. ASSUME NEW p \in Pods, Reader(p) PROVE CountInv'
    <2>1. CASE Register(p)
      BY <2>1, SameCount DEF Register, Registered, Counting
    <2>2. CASE ReadSlice(p)
      BY <2>2, SameCount DEF ReadSlice, Registered, Counting
    <2>3. CASE ReadEnds(p)
      BY <2>3, SameCount DEF ReadEnds, Registered, Counting
    <2>4. CASE Send(p)
      BY <2>4, SameCount DEF Send, Registered, Counting
    <2>5. CASE Decrement(p)
      BY <2>5, DecrementCount
    <2>6. CASE WakeUp(p)
      BY <2>6, SameCount DEF WakeUp, Registered, Counting
    <2>7. CASE Unregister(p)
      BY <2>7, SameCount DEF Unregister, Registered, Counting
    <2> QED
      BY <1>4, <2>1, <2>2, <2>3, <2>4, <2>5, <2>6, <2>7 DEF Reader
  <1>5. CASE Watcher
    <2>1. CASE Channel
      BY <2>1, SameReaders DEF Channel, readers
    <2>2. CASE StopWatcher
      BY <2>2, SameReaders DEF StopWatcher, readers
    <2>3. ASSUME NEW p \in Pods, watchPods(p) PROVE CountInv'
      <3>1. CASE p \in watching
        BY <2>3, <3>1, SameReaders DEF watchPods, readers
      <3>2. CASE p \notin watching
        <4>1. follow
          BY <2>3 DEF watchPods, CountInv
        <4>2. toOpen = {}
          BY <4>1 DEF CountInv
        <4> QED
          BY <2>3, <3>2, <4>1, <4>2, OpeningCount DEF watchPods
      <3> QED
        BY <3>1, <3>2
    <2> QED
      BY <1>5, <2>1, <2>2, <2>3 DEF Watcher
  <1>6. CASE Handler
    <2>1. ASSUME NEW p \in Pods, getPods(p) PROVE CountInv'
      BY <2>1, OpeningCount DEF getPods, CountInv
    <2>2. ASSUME NEW p \in Pods, Callback(p) PROVE CountInv'
      BY <2>2, SameReaders DEF Callback
    <2>3. CASE ServeHTTP
      BY <2>3, SameReaders DEF ServeHTTP, readers
    <2>4. CASE Receive
      BY <2>4, SameReaders DEF Receive, readers
    <2>5. CASE CheckNWatch
      BY <2>5, SameReaders DEF CheckNWatch, readers
    <2>6. CASE Drain
      BY <2>6, SameReaders DEF Drain, readers
    <2>7. CASE CloseNotify
      BY <2>7, SameReaders DEF CloseNotify, readers
    <2>8. CASE Signal
      BY <2>8, SameReaders DEF Signal, readers
    <2>9. CASE SignalEnds
      BY <2>9, SameReaders DEF SignalEnds, readers
    <2> QED
      BY <1>6, <2>1, <2>2, <2>3, <2>4, <2>5, <2>6, <2>7, <2>8, <2>9 DEF Handler
  <1> QED
    BY <1>1, <1>2, <1>3, <1>4, <1>5, <1>6 DEF Next
-----------------------------------------------------------------------------
(* What the channel holds. *)

Message == [pod : Pods, line : Nat]

LineInv ==
    /\ request \in Requests /\ produced \in [Pods -> Nat]
    /\ read \in [Pods -> Nat] /\ c \in Seq(Message)
    /\ handler = "getPods" => args # None
    /\ handler = "drained" => \A i \in DOMAIN c : c[i].line = 0

\* The tail of a log begins at a line, or at its start.
LEMMA TailIsNat ==
    ASSUME LineInv, NEW p \in Pods, args # None
    PROVE  TailLines(p) \subseteq Nat
  <1>1. request.tail \in Nat \cup {None, Bad} /\ request.tail # Bad /\ args.tail = request.tail
    BY LogStreamerAssumption DEF LineInv, args, parseArgs
  <1>2. produced[p] \in Nat
    BY DEF LineInv
  <1>3. ASSUME NEW a \in Int PROVE Max({a, 0}) \in Nat
    <2>1. \E x \in {a, 0} : \A y \in {a, 0} : x >= y
      BY SMT
    <2>2. Max({a, 0}) \in {a, 0} /\ Max({a, 0}) >= 0
      BY <2>1 DEF Max
    <2> QED
      BY <2>2, SMT
  <1>4. CASE args.tail = None
    BY <1>4, SMT DEF TailLines
  <1>5. CASE args.tail \in Nat /\ args.tail # None
    <2>1. \A n \in 0..produced[p] : n - args.tail \in Int
      BY <1>2, <1>5, SMT
    <2>2. \A n \in 0..produced[p] : Max({n - args.tail, 0}) \in Nat
      BY <1>3, <2>1
    <2>3. produced[p] \in 0..produced[p]
      BY <1>2, SMT
    <2> QED
      BY <1>5, <2>2, <2>3 DEF TailLines
  <1> QED
    BY <1>1, <1>4, <1>5

\* A step that leaves the lines and the channel alone.
LEMMA SameLines ==
    ASSUME LineInv, UNCHANGED <<request, produced, read, c>>,
           handler' = "getPods" => handler = "getPods",
           handler' = "drained" => handler = "drained"
    PROVE  LineInv'
  BY DEF LineInv, args

\* A stream is opened.
LEMMA OpeningLines ==
    ASSUME LineInv, NEW p \in Pods, args # None, streamLogs(p),
           UNCHANGED <<request, produced, c, handler>>
    PROVE  LineInv'
  <1>1. read' \in [Pods -> Nat]
    <2>1. CASE UNCHANGED readers
      BY <2>1 DEF readers, LineInv
    <2>2. ASSUME NEW n \in TailLines(p), read' = [read EXCEPT ![p] = n] PROVE read' \in [Pods -> Nat]
      BY <2>2, TailIsNat DEF LineInv
    <2> QED
      BY <2>1, <2>2 DEF streamLogs
  <1> QED
    BY <1>1 DEF LineInv, args

\* Every step keeps the lines: a reader that sends one is counted, and then
\* forwardLogs has not drained the channel.
LEMMA LineStep == CountInv /\ LineInv /\ [Next]_vars => LineInv'
  <1> SUFFICES ASSUME CountInv, LineInv, [Next]_vars PROVE LineInv'
    OBVIOUS
  <1>1. ASSUME NEW p \in Pods, PodEvent(p) PROVE LineInv'
    BY <1>1, SameLines DEF PodEvent, readers
  <1>2. CASE ClientLeaves \/ WatchEnds
    BY <1>2, SameLines DEF ClientLeaves, WatchEnds, readers
  <1>3. CASE UNCHANGED vars
    BY <1>3, SameLines DEF vars, readers, podVars
  <1>4. ASSUME NEW p \in Pods, Reader(p) PROVE LineInv'
    <2>1. CASE Register(p)
      BY <2>1, SameLines DEF Register, podVars
    <2>2. CASE ReadSlice(p)
      BY <2>2, SMT DEF ReadSlice, podVars, LineInv, args
    <2>3. CASE ReadEnds(p)
      BY <2>3, SameLines DEF ReadEnds, podVars
    <2>4. CASE Send(p)
      <3>1. p \in Counted
        BY <2>4 DEF Send, Counted, Counting
      <3>2. handler # "drained"
        BY <3>1, CountFacts DEF CountInv
      <3>3. Line(p, read[p]) \in Message
        BY DEF Line, Message, LineInv
      <3>4. c' \in Seq(Message)
        BY <2>4, <3>3, SMT DEF Send, LineInv
      <3> QED
        BY <2>4, <3>2, <3>4 DEF Send, podVars, LineInv, args
    <2>5. CASE Decrement(p)
      BY <2>5, SameLines DEF Decrement, podVars
    <2>6. CASE WakeUp(p)
      <3>1. Nil(p) \in Message /\ Nil(p).line = 0
        BY DEF Nil, Message
      <3>2. c' = Append(c, Nil(p)) /\ c \in Seq(Message)
        BY <2>6 DEF WakeUp, LineInv
      <3>3. c' \in Seq(Message)
        BY <3>1, <3>2, SMT
      <3>4. (\A i \in DOMAIN c : c[i].line = 0) => \A i \in DOMAIN c' : c'[i].line = 0
        BY <3>1, <3>2, SMT
      <3> QED
        BY <2>6, <3>3, <3>4 DEF WakeUp, podVars, LineInv, args
    <2>7. CASE Unregister(p)
      BY <2>7, SameLines DEF Unregister, podVars
    <2> QED
      BY <1>4, <2>1, <2>2, <2>3, <2>4, <2>5, <2>6, <2>7 DEF Reader
  <1>5. CASE Watcher
    <2>1. CASE Channel
      BY <2>1, SameLines DEF Channel, readers, podVars
    <2>2. CASE StopWatcher
      BY <2>2, SameLines DEF StopWatcher, readers, podVars
    <2>3. ASSUME NEW p \in Pods, watchPods(p) PROVE LineInv'
      <3>1. CASE p \in watching
        BY <2>3, <3>1, SameLines DEF watchPods, readers, podVars
      <3>2. CASE p \notin watching
        <4>1. args # None
          BY <2>3 DEF watchPods, CountInv, follow
        <4> QED
          BY <2>3, <3>2, <4>1, OpeningLines DEF watchPods, podVars
      <3> QED
        BY <3>1, <3>2
    <2> QED
      BY <1>5, <2>1, <2>2, <2>3 DEF Watcher
  <1>6. CASE Handler
    <2>1. ASSUME NEW p \in Pods, getPods(p) PROVE LineInv'
      <3>1. args # None
        BY <2>1 DEF getPods, LineInv
      <3> QED
        BY <2>1, <3>1, OpeningLines DEF getPods, podVars
    <2>2. ASSUME NEW p \in Pods, Callback(p) PROVE LineInv'
      BY <2>2, SameLines DEF Callback, podVars
    <2>3. CASE ServeHTTP
      BY <2>3, SameLines DEF ServeHTTP, readers, podVars
    <2>4. CASE Receive
      <3>1. c' \in Seq(Message)
        BY <2>4, SMT DEF Receive, LineInv
      <3> QED
        BY <2>4, <3>1 DEF Receive, readers, podVars, LineInv, args
    <2>5. CASE CheckNWatch
      BY <2>5, SameLines DEF CheckNWatch, readers, podVars
    <2>6. CASE Drain
      <3>1. CASE c = <<>>
        BY <2>6, <3>1, SMT DEF Drain, readers, podVars, LineInv, args
      <3>2. CASE c # <<>>
        <4>1. c' \in Seq(Message)
          <5>1. c' = Tail(c)
            BY <2>6, <3>2 DEF Drain
          <5>2. c \in Seq(Message)
            BY DEF LineInv
          <5> QED
            BY <3>2, <5>1, <5>2, SMT
        <4>2. handler' = "drain"
          BY <2>6, <3>2 DEF Drain
        <4>3. UNCHANGED <<request, produced, read>>
          BY <2>6 DEF Drain, readers, podVars
        <4> QED
          BY <4>1, <4>2, <4>3 DEF LineInv, args
      <3> QED
        BY <3>1, <3>2
    <2>7. CASE CloseNotify
      BY <2>7, SameLines DEF CloseNotify, readers, podVars
    <2>8. CASE Signal
      BY <2>8, SameLines DEF Signal, readers, podVars
    <2>9. CASE SignalEnds
      BY <2>9, SameLines DEF SignalEnds, readers, podVars
    <2> QED
      BY <1>6, <2>1, <2>2, <2>3, <2>4, <2>5, <2>6, <2>7, <2>8, <2>9 DEF Handler
  <1> QED
    BY <1>1, <1>2, <1>3, <1>4, <1>5, <1>6 DEF Next

\* The request starts with an empty channel.
LEMMA InitLines == Init => LineInv
  <1> SUFFICES ASSUME Init PROVE LineInv
    OBVIOUS
  <1>1. produced \in [Pods -> Nat]
    BY LogStreamerAssumption DEF Init
  <1> QED
    BY <1>1, SMT DEF Init, LineInv

\* An answer that ends by itself leaves no line behind, for any number of pods and
\* lines and any capacity of the channel (streamLogs counts itself out before it
\* wakes forwardLogs, which drains the channel once the counter is zero).
THEOREM DrainLeavesNothing == Spec => []NothingLeft
  <1>1. CountInv /\ LineInv => NothingLeft
    <2> SUFFICES ASSUME CountInv, LineInv, handler = "drained",
                        NEW p \in Pods
                 PROVE  reader[p] \in {"none", "waking", "leaving", "done"}
      BY DEF NothingLeft, LineInv
    <2>1. p \notin Counted
      BY CountFacts DEF CountInv
    <2> QED
      BY <2>1 DEF CountInv, Counted, Counting, Registered
  <1> QED
    BY <1>1, InitCount, InitLines, CountStep, LineStep, PTL DEF Spec
-----------------------------------------------------------------------------
(* The way of a line from the log through the channel to the client. *)

\* The lines of a pod in a channel: those after one up to another, in order.
Pending(ch, p, from, to) ==
    /\ \A i \in DOMAIN ch : ch[i].pod = p /\ ch[i].line # 0 => ch[i].line \in (from + 1) .. to
    /\ \A i, j \in DOMAIN ch :
         /\ i < j /\ ch[i].pod = p /\ ch[j].pod = p
         /\ ch[i].line # 0 /\ ch[j].line # 0
         => ch[i].line < ch[j].line
    /\ \A n \in (from + 1) .. to : \E i \in DOMAIN ch : ch[i].pod = p /\ ch[i].line = n

\* What Append does to the entries of a channel.
LEMMA Appended ==
    ASSUME NEW ch \in Seq(Message), NEW m \in Message
    PROVE  LET d == Append(ch, m) IN
           /\ DOMAIN ch = 1 .. Len(ch) /\ DOMAIN d = 1 .. Len(ch) + 1 /\ Len(ch) \in Nat
           /\ \A i \in 1 .. Len(ch) : d[i] = ch[i] /\ ch[i] \in Message
           /\ d[Len(ch) + 1] = m
  BY LenProperties, AppendProperties, ElementOfSeq, SMT

\* A message of another pod, or a wake-up, comes in.
LEMMA PendingOther ==
    ASSUME NEW ch \in Seq(Message), NEW m \in Message, NEW p \in Pods, NEW from \in Nat,
           NEW to \in Int, Pending(ch, p, from, to), m.pod # p \/ m.line = 0
    PROVE  Pending(Append(ch, m), p, from, to)
  <1> DEFINE d == Append(ch, m)
  <1>1. /\ DOMAIN ch = 1 .. Len(ch) /\ DOMAIN d = 1 .. Len(ch) + 1 /\ Len(ch) \in Nat
        /\ \A i \in 1 .. Len(ch) : d[i] = ch[i] /\ ch[i] \in Message
        /\ d[Len(ch) + 1] = m
    BY Appended
  <1> HIDE DEF d
  <1>2. \A i \in DOMAIN d : d[i].pod = p /\ d[i].line # 0 => i \in DOMAIN ch /\ d[i] = ch[i]
    BY <1>1, SMT
  <1>3. \A i \in DOMAIN ch : i \in DOMAIN d /\ d[i] = ch[i]
    BY <1>1, SMT
  <1> QED BY <1>2, <1>3 DEF Pending, d

\* The next line of the pod comes in.
LEMMA PendingNext ==
    ASSUME NEW ch \in Seq(Message), NEW p \in Pods, NEW from \in Nat,
           NEW to \in Nat, from <= to, Pending(ch, p, from, to)
    PROVE  Pending(Append(ch, Line(p, to + 1)), p, from, to + 1)
  <1> DEFINE m == Line(p, to + 1)
             d == Append(ch, m)
  <1>1. m \in Message /\ m.pod = p /\ m.line = to + 1
    BY SMT DEF Line, Message
  <1>2. /\ DOMAIN ch = 1 .. Len(ch) /\ DOMAIN d = 1 .. Len(ch) + 1 /\ Len(ch) \in Nat
        /\ \A i \in 1 .. Len(ch) : d[i] = ch[i] /\ ch[i] \in Message
        /\ d[Len(ch) + 1] = m
    BY <1>1, Appended
  <1> HIDE DEF d, m
  <1>3. \A i \in DOMAIN d : (i \in DOMAIN ch /\ d[i] = ch[i]) \/ (i = Len(ch) + 1 /\ d[i] = m)
    BY <1>2, SMT
  <1>4. ASSUME NEW i \in DOMAIN d, d[i].pod = p, d[i].line # 0
        PROVE  d[i].line \in (from + 1) .. to + 1 /\ (i \in DOMAIN ch => d[i].line <= to)
    <2>1. CASE i \in DOMAIN ch /\ d[i] = ch[i]
      <3>1. ch[i].line \in (from + 1) .. to
        BY <1>4, <2>1 DEF Pending
      <3> QED BY <2>1, <3>1, SMT
    <2>2. CASE i = Len(ch) + 1 /\ d[i] = m
      BY <1>1, <1>2, <2>2, SMT
    <2> QED BY <1>3, <2>1, <2>2
  <1>5. ASSUME NEW i \in DOMAIN d, NEW j \in DOMAIN d, i < j, d[i].pod = p, d[j].pod = p,
               d[i].line # 0, d[j].line # 0
        PROVE  d[i].line < d[j].line
    <2>1. i \in DOMAIN ch /\ d[i] = ch[i]
      BY <1>2, <1>5, SMT
    <2>2. CASE j \in DOMAIN ch /\ d[j] = ch[j]
      BY <1>5, <2>1, <2>2 DEF Pending
    <2>3. CASE d[j] = m
      <3>1. d[i].line \in (from + 1) .. to + 1 /\ d[i].line <= to
        BY <1>4, <1>5, <2>1
      <3> QED BY <1>1, <2>3, <3>1, SMT
    <2> QED BY <1>3, <2>2, <2>3
  <1>6. ASSUME NEW n \in (from + 1) .. to + 1
        PROVE  \E i \in DOMAIN d : d[i].pod = p /\ d[i].line = n
    <2>1. CASE n = to + 1
      BY <1>1, <1>2, <2>1, SMT
    <2>2. CASE n \in (from + 1) .. to
      <3>1. PICK i \in DOMAIN ch : ch[i].pod = p /\ ch[i].line = n
        BY <2>2 DEF Pending
      <3> QED BY <1>2, <3>1, SMT
    <2> QED BY <2>1, <2>2, SMT
  <1> QED BY <1>4, <1>5, <1>6 DEF Pending, d, m

\* The first message goes out: it is the next line of its pod, or no line of it.
LEMMA PendingTail ==
    ASSUME NEW ch \in Seq(Message), ch # <<>>, NEW p \in Pods, NEW from \in Nat,
           NEW to \in Nat, from <= to, Pending(ch, p, from, to)
    PROVE  IF Head(ch).pod = p /\ Head(ch).line # 0
           THEN Head(ch).line = from + 1 /\ from + 1 <= to /\ Pending(Tail(ch), p, from + 1, to)
           ELSE Pending(Tail(ch), p, from, to)
  <1> DEFINE d == Tail(ch)
             h == Head(ch)
  <1>1. /\ DOMAIN ch = 1 .. Len(ch) /\ Len(ch) \in Nat /\ Len(ch) >= 1 /\ h = ch[1]
        /\ \A i \in 1 .. Len(ch) : ch[i] \in Message
    BY LenProperties, EmptySeq, HeadTailProperties, ElementOfSeq, SMT
  <1>2. d \in Seq(Message) /\ Len(d) = Len(ch) - 1 /\ \A i \in 1 .. Len(d) : d[i] = ch[i + 1]
    BY HeadTailProperties
  <1>3. DOMAIN d = 1 .. Len(ch) - 1 /\ \A i \in 1 .. Len(ch) - 1 : d[i] = ch[i + 1]
    BY <1>2, LenProperties
  <1> HIDE DEF d, h
  <1>4. /\ \A i \in DOMAIN d : i + 1 \in DOMAIN ch /\ d[i] = ch[i + 1] /\ 1 < i + 1
        /\ \A i \in DOMAIN ch : i = 1 \/ (i - 1 \in DOMAIN d /\ d[i - 1] = ch[i])
        /\ \A i, j \in DOMAIN d : i < j => i + 1 < j + 1
        /\ 1 \in DOMAIN ch
    BY <1>1, <1>3, SMT
  <1>5. \A i, j \in DOMAIN d :
         /\ i < j /\ d[i].pod = p /\ d[j].pod = p
         /\ d[i].line # 0 /\ d[j].line # 0
         => d[i].line < d[j].line
    BY <1>4, SMT DEF Pending
  <1>6. \A i \in DOMAIN d : d[i].pod = p /\ d[i].line # 0 => d[i].line \in (from + 1) .. to
    BY <1>4, SMT DEF Pending
  <1>7. CASE h.pod = p /\ h.line # 0
    <2>1. h.line \in (from + 1) .. to
      BY <1>1, <1>4, <1>7 DEF Pending
    <2>2. \A i \in DOMAIN d : d[i].pod = p /\ d[i].line # 0 => h.line < d[i].line
      BY <1>1, <1>4, <1>7, SMTT(30) DEF Pending
    <2>3. h.line = from + 1
      <3>1. PICK i \in DOMAIN ch : ch[i].pod = p /\ ch[i].line = from + 1
        <4>1. from + 1 \in (from + 1) .. to
          BY <2>1, SMT
        <4> QED BY <4>1 DEF Pending
      <3>2. CASE i = 1
        BY <1>1, <3>1, <3>2
      <3>3. CASE i - 1 \in DOMAIN d /\ d[i - 1] = ch[i]
        <4>1. h.line < from + 1
          BY <2>2, <3>1, <3>3, SMT
        <4> QED BY <2>1, <4>1, SMT
      <3> QED BY <1>4, <3>2, <3>3
    <2>4. \A i \in DOMAIN d : d[i].pod = p /\ d[i].line # 0 => d[i].line \in (from + 2) .. to
      BY <1>6, <2>2, <2>3, SMT
    <2>5. ASSUME NEW n \in (from + 2) .. to PROVE \E i \in DOMAIN d : d[i].pod = p /\ d[i].line = n
      <3>1. n \in (from + 1) .. to /\ n # from + 1
        BY <2>5, SMT
      <3>2. PICK i \in DOMAIN ch : ch[i].pod = p /\ ch[i].line = n
        BY <3>1 DEF Pending
      <3>3. i # 1
        BY <1>1, <2>3, <3>1, <3>2
      <3> QED BY <1>4, <3>2, <3>3
    <2>6. (from + 1) + 1 = from + 2
      BY SMT
    <2>7. Pending(d, p, from + 1, to)
      BY <1>5, <2>4, <2>5, <2>6 DEF Pending
    <2> QED BY <1>7, <2>1, <2>3, <2>7, SMTT(30) DEF d, h
  <1>8. CASE ~(h.pod = p /\ h.line # 0)
    <2>1. ASSUME NEW n \in (from + 1) .. to PROVE \E i \in DOMAIN d : d[i].pod = p /\ d[i].line = n
      <3>1. PICK i \in DOMAIN ch : ch[i].pod = p /\ ch[i].line = n
        BY <2>1 DEF Pending
      <3>2. i # 1
        BY <1>1, <1>8, <3>1, SMT
      <3> QED BY <1>4, <3>1, <3>2
    <2>2. Pending(d, p, from, to)
      BY <1>5, <1>6, <2>1 DEF Pending
    <2> QED BY <1>8, <2>2 DEF d, h
  <1> QED BY <1>7, <1>8

\* One more line that matches is appended, one that does not is left out.
LEMMA MatchingNext ==
    ASSUME NEW lines \in Seq(Nat), NEW from \in Nat, NEW to \in Nat, from <= to,
           Matching(lines, from, to)
    PROVE  Matching(IF Match(to + 1) THEN Append(lines, to + 1) ELSE lines, from, to + 1)
  <1> DEFINE M(n) == Match(n)
  <1>1. /\ {lines[i] : i \in DOMAIN lines} = {n \in (from + 1) .. to : M(n)}
        /\ \A i, j \in DOMAIN lines : i < j => lines[i] < lines[j]
    BY DEF Matching
  <1>2. SUFFICES LET t == IF M(to + 1) THEN Append(lines, to + 1) ELSE lines IN
                 /\ {t[i] : i \in DOMAIN t} = {n \in (from + 1) .. to + 1 : M(n)}
                 /\ \A i, j \in DOMAIN t : i < j => t[i] < t[j]
    BY DEF Matching
  <1> HIDE DEF M
  <1>3. CASE ~M(to + 1)
    <2>1. {n \in (from + 1) .. to + 1 : M(n)} = {n \in (from + 1) .. to : M(n)}
      BY <1>3, SMT
    <2> QED BY <1>1, <1>3, <2>1
  <1>4. CASE M(to + 1)
    <2> DEFINE t == Append(lines, to + 1)
               k == Len(lines)
    <2>1. /\ DOMAIN lines = 1 .. k /\ DOMAIN t = 1 .. k + 1 /\ k \in Nat
          /\ \A i \in 1 .. k : t[i] = lines[i]
          /\ t[k + 1] = to + 1
      BY LenProperties, AppendProperties, SMT
    <2> HIDE DEF t, k
    <2>2. \A i \in 1 .. k : lines[i] \in (from + 1) .. to /\ M(lines[i])
      BY <1>1, <2>1
    <2>3. {t[i] : i \in DOMAIN t} \subseteq {n \in (from + 1) .. to + 1 : M(n)}
      BY <1>4, <2>1, <2>2, SMTT(30)
    <2>4. ASSUME NEW n \in (from + 1) .. to + 1, M(n) PROVE \E i \in DOMAIN t : t[i] = n
      <3>1. CASE n = to + 1
        BY <2>1, <3>1, SMT
      <3>2. CASE n \in (from + 1) .. to
        <4>1. \E i \in DOMAIN lines : lines[i] = n
          BY <1>1, <2>4, <3>2
        <4> QED BY <2>1, <4>1, SMT
      <3> QED BY <3>1, <3>2, SMT
    <2>5. ASSUME NEW i \in DOMAIN t, NEW j \in DOMAIN t, i < j PROVE t[i] < t[j]
      <3>1. i \in 1 .. k /\ t[i] = lines[i] /\ lines[i] <= to
        BY <2>1, <2>2, <2>5, SMT
      <3>2. CASE j \in 1 .. k
        BY <1>1, <2>1, <2>5, <3>1, <3>2
      <3>3. CASE j = k + 1
        <4>1. lines[i] \in (from + 1) .. to
          BY <2>2, <3>1
        <4> QED BY <2>1, <3>1, <3>3, <4>1, SMT
      <3> QED BY <2>1, <3>2, <3>3, SMT
    <2>6. {t[i] : i \in DOMAIN t} = {n \in (from + 1) .. to + 1 : M(n)}
      BY <2>3, <2>4
    <2> QED BY <1>4, <2>5, <2>6 DEF t
  <1> QED BY <1>3, <1>4

\* The last line of a pod that its reader has sent.
Sent(p) == IF reader[p] = "holding" THEN read[p] - 1 ELSE read[p]

\* Up to one line the client has what it asked for, and the channel has the rest
\* of what was sent.
Flow(p, got) ==
    /\ first[p] <= got /\ got <= Sent(p)
    /\ Matching(written[p], first[p], got)
    /\ Pending(c, p, got, Sent(p))

Over == {"ended", "waking", "leaving", "done"}
FlowInv ==
    /\ first \in [Pods -> Nat] /\ written \in [Pods -> Seq(Nat)] /\ failures \in Nat
    /\ \A p \in Pods : reader[p] = "none" => first[p] = read[p]
    /\ ~follow /\ failures = 0 => \A p \in Pods : reader[p] = "none" => p \in toOpen
    /\ ~follow /\ handler \notin {"getPods", "refused"} => toOpen = {}
    /\ ~clientGone =>
         /\ ~triggered /\ closed = {} /\ handler \notin {"closing", "signal", "gone"}
         /\ failures = 0 => \A p \in Pods : reader[p] \in Over => read[p] = produced[p]
         /\ \A p \in Pods : \E got \in Nat : Flow(p, got)

\* Sent is a number of lines.
LEMMA SentIsNat ==
    ASSUME NEW p \in Pods, NEW got \in Nat, LineInv, Flow(p, got)
    PROVE  Sent(p) \in Nat
  BY SMT DEF Flow, Sent, LineInv

\* A step that concerns neither the lines of a pod nor what was sent of them.
LEMMA SameFlow ==
    ASSUME NEW p \in Pods, NEW got \in Nat, Flow(p, got), UNCHANGED <<request, c>>,
           first'[p] = first[p], Sent(p)' = Sent(p), written'[p] = written[p]
    PROVE  Flow(p, got)'
  BY SMT DEF Flow, Matching, Match, args, Pending

\* A step that concerns no line on its way.
LEMMA FlowUnmoved ==
    ASSUME FlowInv, UNCHANGED <<request, produced, c, first, written, toOpen>>,
           failures' \in Nat, failures' = 0 => failures = 0, clientGone => clientGone',
           \A p \in Pods : /\ Sent(p)' = Sent(p)
                           /\ reader'[p] = "none" => reader[p] = "none" /\ read'[p] = read[p],
           handler' \in {"getPods", "refused"} \/ handler \notin {"getPods", "refused"} \/ toOpen = {},
           ~clientGone' => /\ ~triggered' /\ closed' = {}
                           /\ handler' \notin {"closing", "signal", "gone"},
           failures' = 0 /\ ~clientGone' =>
               \A p \in Pods : reader'[p] \in Over => read'[p] = produced[p]
    PROVE  FlowInv'
  <1>1. follow' = follow
    BY DEF follow, args
  <1>2. ASSUME ~clientGone', NEW p \in Pods PROVE \E got \in Nat : Flow(p, got)'
    <2>1. PICK got \in Nat : Flow(p, got)
      BY <1>2 DEF FlowInv
    <2> QED BY <2>1, SameFlow
  <1>3. (\A p \in Pods : reader[p] = "none" => first[p] = read[p])'
    BY DEF FlowInv
  <1>4. (~follow /\ failures = 0 => \A p \in Pods : reader[p] = "none" => p \in toOpen)'
    BY <1>1 DEF FlowInv
  <1>5. (~follow /\ handler \notin {"getPods", "refused"} => toOpen = {})'
    BY <1>1 DEF FlowInv
  <1>6. first' \in [Pods -> Nat] /\ written' \in [Pods -> Seq(Nat)]
    BY DEF FlowInv
  <1> QED BY <1>2, <1>3, <1>4, <1>5, <1>6 DEF FlowInv

\* A reader goes on, all but its sending to the channel.
LEMMA ReaderFlow ==
    ASSUME CountInv, LineInv, FlowInv, NEW p \in Pods,
           \/ Register(p) \/ ReadSlice(p) \/ ReadEnds(p) \/ Decrement(p) \/ Unregister(p)
    PROVE  FlowInv'
  <1>1. /\ reader \in [Pods -> Registered \cup {"none", "opened", "done"}]
        /\ read \in [Pods -> Nat] /\ failures \in Nat
    BY DEF CountInv, LineInv, FlowInv
  <1>2. CASE Register(p)
    BY <1>1, <1>2, FlowUnmoved DEF Register, podVars, Sent, Over, FlowInv
  <1>3. CASE ReadSlice(p)
    <2>1. /\ \A q \in Pods : q # p => reader'[q] = reader[q] /\ read'[q] = read[q]
          /\ reader'[p] = "holding" /\ read'[p] = read[p] + 1 /\ reader[p] = "reading"
      BY <1>1, <1>3 DEF ReadSlice
    <2>2. \A q \in Pods : Sent(q)' = Sent(q)
      BY <1>1, <2>1, SMT DEF Sent
    <2> QED BY <1>3, <2>1, <2>2, FlowUnmoved DEF ReadSlice, podVars, signaler, Over, FlowInv
  <1>4. CASE ReadEnds(p)
    <2>1. /\ \A q \in Pods : q # p => reader'[q] = reader[q]
          /\ reader'[p] = "ended" /\ read' = read /\ reader[p] = "reading"
      BY <1>1, <1>4 DEF ReadEnds
    <2>2. \A q \in Pods : Sent(q)' = Sent(q)
      BY <2>1 DEF Sent
    <2>3. failures' \in Nat /\ (failures' = 0 => failures = 0 /\ failures' = failures)
      BY <1>1, <1>4, SMT DEF ReadEnds, Failing
    <2>4. failures' = 0 /\ ~clientGone => read[p] = produced[p]
      <3>1. Failing => failures' # 0
        BY <1>1, SMT DEF Failing
      <3> QED BY <1>4, <3>1 DEF ReadEnds, FlowInv
    <2>5. UNCHANGED <<request, produced, c, first, written, toOpen, clientGone, handler, triggered, closed>>
      BY <1>4 DEF ReadEnds, podVars, signaler
    <2>6. failures' = 0 /\ ~clientGone =>
             \A q \in Pods : reader'[q] \in Over => read'[q] = produced[q]
      BY <2>1, <2>3, <2>4 DEF FlowInv
    <2>7. ~clientGone => ~triggered /\ closed = {} /\ handler \notin {"closing", "signal", "gone"}
      BY DEF FlowInv
    <2> QED BY <2>1, <2>2, <2>3, <2>5, <2>6, <2>7, FlowUnmoved
  <1>5. CASE Decrement(p)
    BY <1>1, <1>5, FlowUnmoved DEF Decrement, podVars, signaler, Sent, Over, FlowInv
  <1>6. CASE Unregister(p)
    BY <1>1, <1>6, FlowUnmoved DEF Unregister, podVars, Sent, Over, FlowInv
  <1> QED BY <1>2, <1>3, <1>4, <1>5, <1>6

\* A stream begins where its first line is the next one.
LEMMA OpeningFlow ==
    ASSUME CountInv, LineInv, FlowInv, NEW p \in Pods, p \notin watching, args # None, streamLogs(p),
           UNCHANGED <<request, podVars, handler, c, signaler, written>>,
           toOpen' = toOpen \/ (toOpen' = toOpen \ {p} /\ ~follow),
           handler = "getPods" \/ follow
    PROVE  FlowInv'
  <1>1. reader[p] = "none" /\ read[p] \in Nat /\ first[p] = read[p]
    BY DEF CountInv, LineInv, FlowInv
  <1>2. follow' = follow
    BY DEF follow, args
  <1>3. CASE Failing /\ UNCHANGED readers
    <2>1. failures' \in Nat /\ failures' # 0
      BY <1>3, SMT DEF Failing, FlowInv
    <2>2. ASSUME ~clientGone', NEW q \in Pods PROVE \E got \in Nat : Flow(q, got)'
      <3>1. PICK got \in Nat : Flow(q, got)
        BY <2>2 DEF FlowInv, podVars
      <3>2. UNCHANGED <<request, c, first, written>> /\ Sent(q)' = Sent(q)
        BY <1>3 DEF readers, Sent
      <3> QED BY <3>1, <3>2, SameFlow
    <2>3. (\A q \in Pods : reader[q] = "none" => first[q] = read[q])'
      BY <1>3 DEF FlowInv, readers
    <2>4. first' \in [Pods -> Nat] /\ written' \in [Pods -> Seq(Nat)]
      BY <1>3 DEF FlowInv, readers
    <2>5. (~clientGone => /\ ~triggered /\ closed = {}
                          /\ handler \notin {"closing", "signal", "gone"})'
      BY <1>3 DEF FlowInv, readers, signaler, podVars
    <2>6. (~follow /\ handler \notin {"getPods", "refused"} => toOpen = {})'
      BY <1>2
    <2> QED BY <2>1, <2>2, <2>3, <2>4, <2>5, <2>6, ZenonT(30) DEF FlowInv
  <1>4. ASSUME NEW n \in TailLines(p), reader' = [reader EXCEPT ![p] = "opened"],
               first' = [first EXCEPT ![p] = n], read' = [read EXCEPT ![p] = n],
               UNCHANGED <<closed, failures>>
        PROVE  FlowInv'
    <2>1. n \in Nat
      BY <1>4, TailIsNat
    <2>2. /\ \A q \in Pods : q # p => /\ reader'[q] = reader[q] /\ first'[q] = first[q]
                                      /\ read'[q] = read[q]
          /\ reader'[p] = "opened" /\ first'[p] = n /\ read'[p] = n /\ first' \in [Pods -> Nat]
      BY <1>4, <2>1, ZenonT(30) DEF CountInv, LineInv, FlowInv
    <2>3. ASSUME ~clientGone', NEW q \in Pods PROVE \E got \in Nat : Flow(q, got)'
      <3>1. PICK got \in Nat : Flow(q, got)
        BY <2>3 DEF FlowInv, podVars
      <3>2. CASE q # p
        <4>1. Sent(q)' = Sent(q)
          BY <2>2, <3>2 DEF Sent
        <4> QED BY <2>2, <3>1, <3>2, <4>1, SameFlow
      <3>3. CASE q = p
        <4>1. Sent(p) = read[p] /\ got = read[p] /\ Sent(p)' = n
          <5>1. Sent(p) = read[p] /\ Sent(p)' = n
            BY <1>1, <2>2 DEF Sent
          <5>2. read[p] <= got /\ got <= read[p]
            BY <1>1, <3>1, <3>3, <5>1 DEF Flow
          <5> QED BY ONLY <1>1, <3>1, <5>1, <5>2, SMT
        <4>2. Matching(written[p], n, n)'
          <5>1. Matching(written[p], got, got)
            BY <1>1, <3>1, <3>3, <4>1 DEF Flow
          <5>2. DOMAIN written[p] = {}
            <6>1. (got + 1) .. got = {}
              BY SMT
            <6> QED BY <5>1, <6>1, ZenonT(30) DEF Matching
          <5>3. (n + 1) .. n = {}
            BY <2>1, SMT
          <5> QED BY <5>2, <5>3 DEF Matching
        <4>3. Pending(c, p, n, n)'
          <5>1. Pending(c, p, got, got)
            BY <1>1, <3>1, <3>3, <4>1 DEF Flow
          <5>2. \A i \in DOMAIN c : ~(c[i].pod = p /\ c[i].line # 0)
            <6>1. (got + 1) .. got = {}
              BY SMT
            <6> QED BY <5>1, <6>1 DEF Pending
          <5>3. (n + 1) .. n = {}
            BY <2>1, SMTT(30)
          <5> QED BY <5>2, <5>3 DEF Pending
        <4>4. Flow(p, n)'
          BY <2>1, <2>2, <4>1, <4>2, <4>3, SMTT(30) DEF Flow
        <4> QED BY <2>1, <3>3, <4>4, ZenonT(30)
      <3> QED BY <3>2, <3>3
    <2>4. (\A q \in Pods : reader[q] = "none" => first[q] = read[q])'
      BY <2>2 DEF FlowInv
    <2>5. (~follow /\ failures = 0 => \A q \in Pods : reader[q] = "none" => q \in toOpen)'
      BY <1>2, <1>4, <2>2 DEF FlowInv
    <2>6. (~follow /\ handler \notin {"getPods", "refused"} => toOpen = {})'
      BY <1>2
    <2>7. written' \in [Pods -> Seq(Nat)] /\ failures' \in Nat
      BY <1>4 DEF FlowInv
    <2>8. (~clientGone => /\ ~triggered /\ closed = {}
                          /\ handler \notin {"closing", "signal", "gone"})'
      BY <1>4 DEF FlowInv, signaler, podVars
    <2>9. (~clientGone /\ failures = 0 => \A q \in Pods : reader[q] \in Over => read[q] = produced[q])'
      BY <1>4, <2>2 DEF FlowInv, Over, podVars
    <2> QED BY <2>2, <2>3, <2>4, <2>5, <2>6, <2>7, <2>8, <2>9, ZenonT(30) DEF FlowInv
  <1> QED BY <1>3, <1>4 DEF streamLogs

\* A step that only moves lines between a reader, the channel and the client.
LEMMA FlowMoved ==
    ASSUME FlowInv,
           UNCHANGED <<request, produced, first, read, toOpen, clientGone, triggered, closed, failures>>,
           written' \in [Pods -> Seq(Nat)],
           \A p \in Pods : /\ reader'[p] = "none" => reader[p] = "none"
                           /\ reader'[p] \in Over => reader[p] \in Over,
           handler' \in {"getPods", "refused"} => handler \in {"getPods", "refused"},
           handler \in {"getPods", "refused"} => handler' = handler,
           ~clientGone => handler' \notin {"closing", "signal", "gone"},
           ~clientGone => \A p \in Pods : \E got \in Nat : Flow(p, got)'
    PROVE  FlowInv'
  <1>1. follow' = follow
    BY DEF follow, args
  <1>2. (~follow /\ failures = 0 => \A p \in Pods : reader[p] = "none" => p \in toOpen)'
    BY <1>1 DEF FlowInv
  <1>3. (~follow /\ handler \notin {"getPods", "refused"} => toOpen = {})'
    BY <1>1 DEF FlowInv
  <1> QED BY <1>2, <1>3 DEF FlowInv

\* A line, or a wake-up, comes into the channel.
LEMMA SendFlow ==
    ASSUME CountInv, LineInv, FlowInv, NEW p \in Pods, Send(p) \/ WakeUp(p)
    PROVE  FlowInv'
  <1>1. /\ reader \in [Pods -> Registered \cup {"none", "opened", "done"}]
        /\ read \in [Pods -> Nat] /\ c \in Seq(Message) /\ first \in [Pods -> Nat]
    BY DEF CountInv, LineInv, FlowInv
  <1>2. /\ UNCHANGED <<request, produced, first, read, toOpen, clientGone, triggered, closed, failures,
                       written, handler>>
        /\ \A q \in Pods : q # p => reader'[q] = reader[q]
    BY <1>1 DEF Send, WakeUp, podVars, signaler
  <1>3. reader'[p] # "none" /\ (reader'[p] \in Over => reader[p] \in Over)
    BY <1>1 DEF Send, WakeUp, Over
  <1>4. PICK m \in Message :
             /\ c' = Append(c, m) /\ m.pod = p
             /\ \/ m.line = 0 /\ Sent(p)' = Sent(p)
                \/ m = Line(p, Sent(p) + 1) /\ Sent(p)' = Sent(p) + 1
    <2>1. CASE Send(p)
      <3>1. Sent(p) + 1 = read[p] /\ Sent(p)' = read[p]
        BY <1>1, <2>1, SMT DEF Send, Sent
      <3>2. Line(p, read[p]) \in Message /\ Line(p, read[p]).pod = p
        BY <1>1 DEF Line, Message
      <3> QED BY <2>1, <3>1, <3>2 DEF Send
    <2>2. CASE WakeUp(p)
      <3>1. Nil(p) \in Message /\ Nil(p).pod = p /\ Nil(p).line = 0
        BY DEF Nil, Message
      <3>2. Sent(p)' = Sent(p)
        BY <1>1, <2>2 DEF WakeUp, Sent
      <3> QED BY <2>2, <3>1, <3>2 DEF WakeUp
    <2> QED BY <2>1, <2>2
  <1>5. ASSUME ~clientGone, NEW q \in Pods PROVE \E got \in Nat : Flow(q, got)'
    <2>1. PICK got \in Nat : Flow(q, got)
      BY <1>5 DEF FlowInv
    <2>2. Sent(q) \in Nat /\ first[q] <= got /\ got <= Sent(q) /\ first[q] \in Nat
      BY <1>1, <2>1, SentIsNat DEF Flow
    <2>3. Matching(written[q], first[q], got)'
      BY <1>2, <2>1 DEF Flow, Matching, Match, args
    <2>4. Pending(c, q, got, Sent(q))
      BY <2>1 DEF Flow
    <2>5. CASE q = p /\ m.line # 0
      <3>1. Pending(c', q, got, Sent(q) + 1)
        BY <1>1, <1>4, <2>2, <2>4, <2>5, PendingNext
      <3>2. Sent(q)' = Sent(q) + 1
        BY <1>4, <2>5
      <3>3. first'[q] <= got /\ got <= Sent(q)'
        BY <1>2, <2>2, <3>2, SMTT(30)
      <3> QED BY <2>3, <3>1, <3>2, <3>3 DEF Flow
    <2>6. CASE q # p \/ m.line = 0
      <3>1. Pending(c', q, got, Sent(q))
        BY <1>1, <1>4, <2>2, <2>4, <2>6, PendingOther, SMTT(30)
      <3>2. Sent(q)' = Sent(q)
        <4>1. CASE q = p
          <5>1. Line(p, Sent(p) + 1).line = Sent(p) + 1
            BY DEF Line
          <5> QED BY <1>4, <2>2, <2>6, <4>1, <5>1, SMTT(30)
        <4>2. CASE q # p
          BY <1>2, <4>2 DEF Sent
        <4> QED BY <4>1, <4>2
      <3> QED BY <1>2, <2>2, <2>3, <3>1, <3>2 DEF Flow
    <2> QED BY <2>5, <2>6
  <1>6. ~clientGone => handler' \notin {"closing", "signal", "gone"}
    BY <1>2 DEF FlowInv
  <1>7. written' \in [Pods -> Seq(Nat)]
    BY <1>2 DEF FlowInv
  <1> QED BY <1>2, <1>3, <1>5, <1>6, <1>7, FlowMoved

\* The handler takes a line from the channel and writes it.
LEMMA WroteFlow ==
    ASSUME LineInv, FlowInv, c # <<>>, c' = Tail(c), ~clientGone => Wrote(Head(c)),
           Wrote(Head(c)) \/ written' = written, handler \in {"forward", "drain"},
           handler' \notin {"getPods", "refused"},
           ~clientGone => handler' \notin {"closing", "signal", "gone"},
           UNCHANGED <<request, podVars, toOpen, readers, signaler, failures>>
    PROVE  FlowInv'
  <1>1. /\ c \in Seq(Message) /\ first \in [Pods -> Nat] /\ written \in [Pods -> Seq(Nat)]
    BY DEF LineInv, FlowInv
  <1>2. Head(c) \in Message
    BY <1>1, HeadTailProperties
  <1> DEFINE l == Head(c)
  <1>3. l.pod \in Pods /\ l.line \in Nat
    BY <1>2 DEF Message
  <1>4. /\ UNCHANGED <<request, produced, first, read, reader, toOpen, clientGone, triggered, closed, failures>>
        /\ \A q \in Pods : Sent(q)' = Sent(q)
    BY DEF readers, podVars, signaler, Sent
  <1> HIDE DEF l
  <1>5. written' \in [Pods -> Seq(Nat)]
    <2>1. CASE written' = written
      BY <1>1, <2>1
    <2>2. CASE Wrote(l)
      <3>1. Append(written[l.pod], l.line) \in Seq(Nat)
        BY <1>1, <1>3, AppendProperties
      <3> QED BY <1>1, <1>3, <2>2, <3>1 DEF Wrote
    <2> QED BY <2>1, <2>2 DEF l
  <1>6. ASSUME ~clientGone, NEW q \in Pods PROVE \E got \in Nat : Flow(q, got)'
    <2>1. PICK got \in Nat : Flow(q, got)
      BY <1>6 DEF FlowInv
    <2>2. Sent(q) \in Nat /\ first[q] <= got /\ got <= Sent(q) /\ first[q] \in Nat
      BY <1>1, <2>1, SentIsNat DEF Flow
    <2>3. written[q] \in Seq(Nat) /\ Matching(written[q], first[q], got)
      BY <1>1, <2>1 DEF Flow
    <2>4. Wrote(l)
      BY <1>6 DEF l
    <2>5. IF l.pod = q /\ l.line # 0
          THEN l.line = got + 1 /\ got + 1 <= Sent(q) /\ Pending(c', q, got + 1, Sent(q))
          ELSE Pending(c', q, got, Sent(q))
      BY <1>1, <2>1, <2>2, PendingTail DEF Flow, l
    <2>6. ASSUME NEW s, NEW a, NEW b, Matching(s, a, b), s = written'[q] PROVE Matching(written[q], a, b)'
      BY <1>4, <2>6 DEF Matching, Match, args
    <2>7. CASE l.pod = q /\ l.line # 0
      <3>1. l.line = got + 1 /\ got + 1 <= Sent(q) /\ Pending(c', q, got + 1, Sent(q))
        BY <2>5, <2>7
      <3>2. Matching(IF Match(got + 1) THEN Append(written[q], got + 1) ELSE written[q], first[q], got + 1)
        BY <2>2, <2>3, MatchingNext
      <3>3. written'[q] = IF Match(got + 1) THEN Append(written[q], got + 1) ELSE written[q]
        BY <1>1, <2>4, <2>7, <3>1 DEF Wrote, Shown
      <3>4. Matching(written[q], first[q], got + 1)'
        BY <1>4, <2>6, <3>2, <3>3
      <3>5. first'[q] <= got + 1 /\ got + 1 <= Sent(q)' /\ Pending(c', q, got + 1, Sent(q)')
        BY <1>4, <2>2, <3>1, SMTT(30)
      <3>6. Flow(q, got + 1)'
        BY <3>4, <3>5 DEF Flow
      <3> QED BY <3>6, SMT
    <2>8. CASE ~(l.pod = q /\ l.line # 0)
      <3>1. written'[q] = written[q]
        BY <1>1, <1>3, <2>4, <2>8 DEF Wrote, Shown
      <3>2. Matching(written[q], first[q], got)'
        BY <1>4, <2>3, <2>6, <3>1
      <3>3. first'[q] <= got /\ got <= Sent(q)' /\ Pending(c', q, got, Sent(q)')
        BY <1>4, <2>2, <2>5, <2>8
      <3>4. Flow(q, got)'
        BY <3>2, <3>3 DEF Flow
      <3> QED BY <3>4
    <2> QED BY <2>7, <2>8
  <1> QED BY <1>4, <1>5, <1>6, FlowMoved

\* Every step keeps the lines on their way.
LEMMA FlowStep == CountInv /\ LineInv /\ FlowInv /\ [Next]_vars => FlowInv'
  <1> SUFFICES ASSUME CountInv, LineInv, FlowInv, [Next]_vars PROVE FlowInv'
    OBVIOUS
  <1>1. ASSUME UNCHANGED <<request, produced, c, first, read, reader, written, toOpen, failures,
                           clientGone, triggered, closed>>,
               handler \in {"getPods", "refused"} /\ handler' # handler => toOpen = {},
               handler' # handler /\ ~clientGone => handler' \notin {"closing", "signal", "gone"}
        PROVE  FlowInv'
    BY <1>1, FlowUnmoved DEF FlowInv, Sent
  <1>2. ASSUME UNCHANGED <<request, produced, c, first, read, reader, written, toOpen, failures>>,
               handler \notin {"getPods", "refused"} \/ handler' = handler, clientGone'
        PROVE  FlowInv'
    BY <1>2, FlowUnmoved DEF FlowInv, Sent
  <1>3. ASSUME NEW p \in Pods, PodEvent(p) PROVE FlowInv'
    BY <1>1, <1>3 DEF PodEvent, readers, signaler
  <1>4. CASE ClientLeaves
    BY <1>2, <1>4 DEF ClientLeaves, readers, signaler
  <1>5. CASE UNCHANGED vars
    BY <1>1, <1>5 DEF vars, readers, signaler, podVars
  <1>6. ASSUME NEW p \in Pods, Reader(p) PROVE FlowInv'
    BY <1>6, ReaderFlow, SendFlow DEF Reader
  <1>7. CASE Watcher
    <2>1. CASE Channel
      BY <1>1, <2>1 DEF Channel, readers, podVars
    <2>2. CASE StopWatcher
      BY <1>1, <2>2 DEF StopWatcher, readers, podVars
    <2>3. ASSUME NEW p \in Pods, watchPods(p) PROVE FlowInv'
      <3>1. CASE p \in watching
        BY <1>1, <2>3, <3>1 DEF watchPods, readers, podVars, signaler
      <3>2. CASE p \notin watching
        <4>1. follow /\ args # None
          BY <2>3 DEF watchPods, CountInv, follow
        <4> QED BY <2>3, <3>2, <4>1, OpeningFlow DEF watchPods
      <3> QED BY <3>1, <3>2
    <2> QED BY <1>7, <2>1, <2>2, <2>3 DEF Watcher
  <1>8. CASE WatchEnds
    BY <1>1, <1>8 DEF WatchEnds, readers, signaler
  <1>9. CASE Handler
    <2>1. ASSUME NEW p \in Pods, getPods(p) PROVE FlowInv'
      <3>1. args # None /\ p \notin watching /\ ~follow
        BY <2>1 DEF getPods, LineInv, CountInv
      <3> QED BY <2>1, <3>1, OpeningFlow DEF getPods
    <2>2. ASSUME NEW p \in Pods, Callback(p) PROVE FlowInv'
      <3>1. clientGone'
        BY <2>2 DEF Callback, FlowInv, podVars
      <3> QED BY <1>2, <2>2, <3>1 DEF Callback, podVars
    <2>3. CASE ServeHTTP
      BY <1>1, <2>3 DEF ServeHTTP, readers, podVars, signaler
    <2>4. CASE Receive
      BY <2>4, WroteFlow DEF Receive
    <2>5. CASE CheckNWatch
      BY <1>1, <2>5 DEF CheckNWatch, readers, podVars, signaler
    <2>6. CASE Drain
      <3>1. CASE c = <<>>
        BY <1>1, <2>6, <3>1 DEF Drain, readers, podVars, signaler
      <3>2. CASE c # <<>>
        BY <2>6, <3>2, WroteFlow DEF Drain
      <3> QED BY <3>1, <3>2
    <2>7. CASE CloseNotify
      BY <1>1, <2>7 DEF CloseNotify, readers, podVars, signaler
    <2>8. CASE Signal
      <3>1. clientGone'
        BY <2>8 DEF Signal, FlowInv, podVars
      <3> QED BY <1>2, <2>8, <3>1 DEF Signal, readers, podVars
    <2>9. CASE SignalEnds
      <3>1. clientGone'
        BY <2>9 DEF SignalEnds, FlowInv, podVars
      <3> QED BY <1>2, <2>9, <3>1 DEF SignalEnds, readers, podVars
    <2> QED
      BY <1>9, <2>1, <2>2, <2>3, <2>4, <2>5, <2>6, <2>7, <2>8, <2>9, ZenonT(30) DEF Handler
  <1> QED
    BY <1>3, <1>4, <1>5, <1>6, <1>7, <1>8, <1>9 DEF Next

\* Nothing has been read, sent or written.
LEMMA InitFlow == Init => FlowInv
  <1> SUFFICES ASSUME Init PROVE FlowInv
    OBVIOUS
  <1>1. /\ first = [p \in Pods |-> 0] /\ written = [p \in Pods |-> <<>>] /\ failures = 0
        /\ reader = [p \in Pods |-> "none"] /\ read = first /\ c = <<>>
        /\ ~triggered /\ closed = {} /\ handler \in {"refused", "forward", "getPods"}
    BY DEF Init
  <1>2. ASSUME NEW p \in Pods PROVE Flow(p, 0)
    <2>1. (0 + 1) .. 0 = {}
      BY SMT
    <2>2. first[p] = 0 /\ Sent(p) = 0 /\ written[p] = <<>>
      BY <1>1 DEF Sent
    <2>3. DOMAIN written[p] = {} /\ DOMAIN c = {}
      BY <1>1, <2>2, EmptySeq, SMT
    <2>4. Matching(written[p], first[p], 0)
      BY <2>1, <2>2, <2>3 DEF Matching
    <2>5. Pending(c, p, 0, Sent(p))
      BY <2>1, <2>2, <2>3 DEF Pending
    <2> QED BY <2>2, <2>4, <2>5, SMT DEF Flow
  <1>3. ~follow => toOpen = Pods
    BY DEF Init
  <1>4. ~follow /\ handler \notin {"getPods", "refused"} => toOpen = {}
    BY DEF Init
  <1>5. /\ first \in [Pods -> Nat] /\ written \in [Pods -> Seq(Nat)] /\ failures \in Nat
        /\ \A p \in Pods : reader[p] = "none" /\ first[p] = read[p]
    BY <1>1, SMT
  <1> QED BY <1>1, <1>2, <1>3, <1>4, <1>5 DEF FlowInv, Over

\* An answer that ends by itself while the client listens is complete: of every pod
\* the client has the lines that were read and that match, each once and in order,
\* and, if nothing failed, to the end of the log; for any pods, logs, arguments and
\* any capacity of the channel (streamLogs, forwardLogs).
THEOREM AnswersAreComplete == Spec => []DrainedIsComplete
  <1>1. CountInv /\ LineInv /\ FlowInv => DrainedIsComplete
    <2> SUFFICES ASSUME CountInv, LineInv, FlowInv, handler = "drained", ~clientGone, NEW p \in Pods
                 PROVE  /\ Matching(written[p], first[p], read[p])
                        /\ failures = 0 => read[p] = produced[p]
      BY DEF DrainedIsComplete
    <2>1. p \notin Counted /\ ~follow
      BY CountFacts DEF CountInv
    <2>2. reader[p] \in {"none", "waking", "leaving", "done"}
      BY <2>1 DEF CountInv, Counted, Counting, Registered
    <2>3. PICK got \in Nat : Flow(p, got)
      BY DEF FlowInv
    <2>4. Sent(p) = read[p] /\ read[p] \in Nat
      BY <2>2 DEF Sent, LineInv
    <2>5. got = read[p]
      <3>1. \A i \in DOMAIN c : c[i].line = 0
        BY DEF LineInv
      <3>2. ~(got + 1 \in (got + 1) .. read[p])
        BY <2>3, <2>4, <3>1, SMTT(30) DEF Flow, Pending
      <3>3. got <= read[p]
        BY <2>3, <2>4 DEF Flow
      <3> QED BY <2>4, <3>2, <3>3, SMTT(30)
    <2>6. failures = 0 => read[p] = produced[p]
      BY <2>1, <2>2 DEF FlowInv, Over
    <2> QED BY <2>3, <2>5, <2>6 DEF Flow
  <1> QED
    BY <1>1, InitCount, InitLines, InitFlow, CountStep, LineStep, FlowStep, PTL DEF Spec
=============================================================================
