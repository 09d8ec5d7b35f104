--------------------------- MODULE StringChanProofs ---------------------------
(***************************************************************************)
(* Proofs about StringChan for any set of strings and any buffer size: the *)
(* inductive invariant, no lost wake-up, draining on Close, and the        *)
(* refinement of CoalescingQueue.                                          *)
(***************************************************************************)
EXTENDS StringChan, SequenceTheorems, TLAPS

\* A marked string is in one place only, and a goroutine that has ended left
\* nothing behind it.
OnePlace ==
    /\ inPc = "send" => inVal \notin Range(ch)
    /\ outPc = "delete" => outVal \notin Range(ch)
    /\ inPc = "send" /\ outPc = "delete" => inVal # outVal
    /\ inPc = "done" => closed
    /\ outPc = "done" => inPc = "done" /\ ch = <<>>

IInv == TypeOK /\ BufferDeduplicated /\ OnePlace /\ NoLostValue

-----------------------------------------------------------------------------
(* Facts about the buffer.                                                 *)

\* Append adds its element to the range; an element that was absent leaves
\* the sequence without duplicates.
LEMMA AppendFacts ==
  ASSUME NEW S, NEW s \in Seq(S), NEW e \in S
  PROVE  /\ Range(Append(s, e)) = Range(s) \cup {e}
         /\ (\A i, j \in DOMAIN s : s[i] = s[j] => i = j) /\ e \notin Range(s)
            => \A i, j \in DOMAIN Append(s, e) :
                  Append(s, e)[i] = Append(s, e)[j] => i = j
<1>1. /\ Append(s, e) \in Seq(S)
      /\ Len(Append(s, e)) = Len(s) + 1
      /\ \A i \in 1..Len(s) : Append(s, e)[i] = s[i]
      /\ Append(s, e)[Len(s) + 1] = e
  BY AppendProperties
<1>2. /\ DOMAIN s = 1..Len(s) /\ Len(s) \in Nat
      /\ DOMAIN Append(s, e) = 1..(Len(s) + 1)
  BY <1>1, LenProperties
<1>3. Range(Append(s, e)) = Range(s) \cup {e}
  <2>1. Range(Append(s, e)) \subseteq Range(s) \cup {e}
    BY <1>1, <1>2 DEF Range
  <2>2. Range(s) \cup {e} \subseteq Range(Append(s, e))
    BY <1>1, <1>2 DEF Range
  <2> QED BY <2>1, <2>2
<1>4. ASSUME \A i, j \in DOMAIN s : s[i] = s[j] => i = j, e \notin Range(s),
             NEW i \in DOMAIN Append(s, e), NEW j \in DOMAIN Append(s, e),
             Append(s, e)[i] = Append(s, e)[j]
      PROVE  i = j
  <2>1. \A k \in 1..Len(s) : s[k] # e
    BY <1>2, <1>4 DEF Range
  <2> QED BY <1>1, <1>2, <1>4, <2>1
<1> QED BY <1>3, <1>4

\* Taking the head of a sequence without duplicates removes exactly the head
\* from its range.
LEMMA TailFacts ==
  ASSUME NEW S, NEW s \in Seq(S), s # <<>>,
         \A i, j \in DOMAIN s : s[i] = s[j] => i = j
  PROVE  /\ Range(Tail(s)) = Range(s) \ {Head(s)}
         /\ Head(s) \in Range(s)
         /\ \A i, j \in DOMAIN Tail(s) : Tail(s)[i] = Tail(s)[j] => i = j
<1>1. /\ Tail(s) \in Seq(S)
      /\ Len(Tail(s)) = Len(s) - 1
      /\ \A i \in 1..Len(Tail(s)) : Tail(s)[i] = s[i + 1]
  BY HeadTailProperties
<1>2. /\ DOMAIN s = 1..Len(s) /\ Len(s) \in Nat \ {0}
      /\ DOMAIN Tail(s) = 1..(Len(s) - 1)
  BY <1>1, LenProperties, EmptySeq
<1>3. Head(s) = s[1]
  OBVIOUS
<1>4. Range(Tail(s)) = Range(s) \ {Head(s)}
  <2>1. Range(Tail(s)) \subseteq Range(s) \ {Head(s)}
    <3>1. \A i \in 1..(Len(s) - 1) :
             /\ Tail(s)[i] = s[i + 1]
             /\ i + 1 \in 1..Len(s) /\ i + 1 # 1 /\ 1 \in 1..Len(s)
      BY <1>1, <1>2
    <3> QED BY <1>2, <1>3, <3>1 DEF Range
  <2>2. Range(s) \ {Head(s)} \subseteq Range(Tail(s))
    <3> SUFFICES ASSUME NEW x \in Range(s), x # Head(s)
                 PROVE  x \in Range(Tail(s))
      OBVIOUS
    <3>1. PICK k \in 1..Len(s) : s[k] = x
      BY <1>2 DEF Range
    <3>2. k - 1 \in DOMAIN Tail(s) /\ Tail(s)[k - 1] = x
      BY <1>1, <1>2, <1>3, <3>1
    <3> QED BY <3>2, Zenon DEF Range
  <2> QED BY <2>1, <2>2
<1>5. Head(s) \in Range(s)
  BY <1>2, <1>3 DEF Range
<1>6. ASSUME NEW i \in DOMAIN Tail(s), NEW j \in DOMAIN Tail(s),
             Tail(s)[i] = Tail(s)[j]
      PROVE  i = j
  <2>1. s[i + 1] = s[j + 1] /\ i + 1 \in DOMAIN s /\ j + 1 \in DOMAIN s
    BY <1>1, <1>2, <1>6
  <2> QED BY <1>2, <2>1
<1> QED BY <1>4, <1>5, <1>6

-----------------------------------------------------------------------------
\* It holds of the empty channel.
LEMMA InitInv == Init => IInv
<1> SUFFICES ASSUME Init PROVE IInv
  OBVIOUS
<1>1. Range(ch) = {} /\ ch \in Seq(Values) /\ Len(ch) = 0 /\ DOMAIN ch = {}
  BY EmptySeq DEF Init, Range
<1>2. TypeOK
  BY <1>1, StringChanAssumption, Zenon DEF Init, TypeOK
<1>3. BufferDeduplicated
  BY <1>1, StringChanAssumption DEF Init, BufferDeduplicated
<1>4. OnePlace /\ NoLostValue
  BY <1>1 DEF Init, OnePlace, NoLostValue, InHand, OutHand
<1> QED BY <1>2, <1>3, <1>4 DEF IInv

\* Every step of either goroutine, of a producer and of Close preserves IInv.
LEMMA StepInv == IInv /\ [Next]_vars => IInv'
<1> SUFFICES ASSUME IInv, [Next]_vars PROVE IInv'
  OBVIOUS
<1> USE StringChanAssumption DEF IInv, TypeOK, BufferDeduplicated, OnePlace
<1>1. ASSUME NEW v \in Values, Send(v) PROVE IInv'
  BY <1>1 DEF Send, NoLostValue, InHand, OutHand
<1>2. CASE PushDrop
  BY <1>2 DEF PushDrop, NoLostValue, InHand, OutHand
<1>3. CASE PushMark
  BY <1>3, SMTT(30) DEF PushMark, NoLostValue, InHand, OutHand
<1>4. CASE PushSend
  <2>1. /\ inVal \in Values /\ inVal \notin Range(ch)
        /\ ch' = Append(ch, inVal)
    BY <1>4 DEF PushSend
  <2>2. /\ Range(ch') = Range(ch) \cup {inVal}
        /\ \A i, j \in DOMAIN ch' : ch'[i] = ch'[j] => i = j
    BY <2>1, AppendFacts, SMTT(30)
  <2>3. ch' \in Seq(Values) /\ Len(ch') = Len(ch) + 1 /\ Len(ch') <= BufferSize
    BY <1>4, <2>1, AppendProperties, LenProperties DEF PushSend
  <2>4. TypeOK'
    BY <1>4, <2>3 DEF PushSend
  <2>5. BufferDeduplicated'
    BY <1>4, <2>2, <2>3 DEF PushSend
  <2>6. OnePlace'
    BY <1>4, <2>2 DEF PushSend
  <2>7. NoLostValue'
    BY <1>4, <2>2 DEF PushSend, NoLostValue, InHand, OutHand
  <2> QED BY <2>4, <2>5, <2>6, <2>7
<1>5. CASE Close
  BY <1>5, SMTT(30) DEF Close, NoLostValue, InHand, OutHand
<1>6. CASE InputDone
  BY <1>6, SMTT(30) DEF InputDone, NoLostValue, InHand, OutHand
<1>7. CASE PullReceive
  <2>1. ch # <<>> /\ ch' = Tail(ch) /\ outVal' = Head(ch)
    BY <1>7 DEF PullReceive
  <2>2. /\ Range(ch') = Range(ch) \ {outVal'}
        /\ outVal' \in Range(ch)
        /\ \A i, j \in DOMAIN ch' : ch'[i] = ch'[j] => i = j
    BY <2>1, TailFacts
  <2>3. /\ ch' \in Seq(Values) /\ outVal' \in Values
        /\ Len(ch') <= BufferSize
    BY <2>1, HeadTailProperties, LenProperties, EmptySeq
  <2>4. TypeOK'
    BY <1>7, <2>3 DEF PullReceive
  <2>5. BufferDeduplicated'
    BY <1>7, <2>2, <2>3 DEF PullReceive
  <2>6. OnePlace'
    BY <1>7, <2>2 DEF PullReceive
  <2>7. NoLostValue'
    BY <1>7, <2>2, <2>3 DEF PullReceive, NoLostValue, InHand, OutHand
  <2> QED BY <2>4, <2>5, <2>6, <2>7
<1>8. CASE PullDelete
  BY <1>8, SMTT(30) DEF PullDelete, NoLostValue, InHand, OutHand
<1>9. CASE Output
  BY <1>9 DEF Output, NoLostValue, InHand, OutHand
<1>10. CASE PullClosed
  BY <1>10 DEF PullClosed, NoLostValue, InHand, OutHand
<1>11. CASE UNCHANGED vars
  BY <1>11 DEF vars, NoLostValue, InHand, OutHand
<1> QED
  BY <1>1, <1>2, <1>3, <1>4, <1>5, <1>6, <1>7, <1>8, <1>9, <1>10, <1>11, Zenon
     DEF Next, InputGoroutine, OutputGoroutine

\* IInv holds in every reachable state of the channel.
THEOREM Invariance == Spec => []IInv
<1> QED BY InitInv, StepInv, PTL DEF Spec

\* The type invariant of the two goroutines and their shared map.
THEOREM TypeCorrect == Spec => []TypeOK
<1>1. IInv => TypeOK
  BY DEF IInv
<1> QED BY <1>1, Invariance, PTL

\* No wake-up is lost: what a producer sent and the consumer has not received
\* since is still in the channel, whenever push() drops and whenever pull()
\* deletes.
THEOREM NoLostWakeup == Spec => []NoLostValue
<1>1. IInv => NoLostValue
  BY DEF IInv
<1> QED BY <1>1, Invariance, PTL

\* The buffer holds no string twice and stays within its size, and the map
\* holds exactly the strings in flight.
THEOREM Deduplicates == Spec => []BufferDeduplicated
<1>1. IInv => BufferDeduplicated
  BY DEF IInv
<1> QED BY <1>1, Invariance, PTL

\* Out() is closed only after everything that was sent has been received.
THEOREM DrainsOnClose == Spec => []ClosesDrained
<1>1. IInv => ClosesDrained
  BY StringChanAssumption
     DEF IInv, ClosesDrained, OnePlace, NoLostValue, InHand, OutHand, TypeOK, Range
<1> QED BY <1>1, Invariance, PTL
-----------------------------------------------------------------------------
(* The refinement of CoalescingQueue.                                      *)

\* The empty channel is the empty set.
LEMMA InitRefines == Init => Abs!Init
<1> SUFFICES ASSUME Init PROVE Abs!Init
  OBVIOUS
<1>1. Range(ch) = {}
  BY EmptySeq DEF Init, Range
<1> QED BY <1>1, StringChanAssumption DEF Init, Abs!Init, Copies, One

\* Send accepts, PushDrop merges, Output delivers, PullClosed ends; the moves
\* from a hand to the buffer and back change no count.
LEMMA StepRefines == IInv /\ [Next]_vars => [Abs!Next]_(Abs!queueVars)
<1> SUFFICES ASSUME IInv, [Next]_vars PROVE [Abs!Next]_(Abs!queueVars)
  OBVIOUS
<1> USE StringChanAssumption DEF IInv, TypeOK, OnePlace
<1>a. \A v \in Values :
        Copies[v] = One(v = inVal) + One(v \in Range(ch)) + One(v = outVal)
  BY DEF Copies
<1>b. \A v \in Values :
        Copies'[v] = One(v = inVal') + One(v \in Range(ch')) + One(v = outVal')
  BY DEF Copies
<1>c. /\ Copies = [v \in Values |-> Copies[v]]
      /\ Copies' = [v \in Values |-> Copies'[v]]
  BY DEF Copies
<1>1. ASSUME NEW v \in Values, Send(v) PROVE Abs!Accept(v)
  <2>1. Copies' = [Copies EXCEPT ![v] = @ + 1]
    <3>1. \A w \in Values :
            Copies'[w] = IF w = v THEN Copies[w] + 1 ELSE Copies[w]
      <4>1. inVal = NoValue /\ inVal' = v /\ UNCHANGED <<ch, outVal>>
        BY <1>1 DEF Send
      <4>2. /\ \A w \in Values : One(w = inVal) = 0
            /\ \A w \in Values : One(w = inVal') = IF w = v THEN 1 ELSE 0
            /\ \A w \in Values : One(w \in Range(ch)) \in Nat /\ One(w = outVal) \in Nat
        BY <4>1 DEF One
      <4>3. ASSUME NEW w \in Values
            PROVE  Copies'[w] = IF w = v THEN Copies[w] + 1 ELSE Copies[w]
        <5>1. /\ Copies[w] = One(w = inVal) + One(w \in Range(ch)) + One(w = outVal)
              /\ Copies'[w] = One(w = inVal') + One(w \in Range(ch)) + One(w = outVal)
          BY <1>a, <1>b, <4>1, Zenon
        <5>2. /\ One(w = inVal) = 0 /\ One(w = inVal') = IF w = v THEN 1 ELSE 0
              /\ One(w \in Range(ch)) \in Nat /\ One(w = outVal) \in Nat
          BY <4>2, Zenon
        <5> QED BY ONLY <5>1, <5>2, SMT
      <4> QED BY <4>3
    <3> QED BY <1>c, <3>1
  <2> QED BY <1>1, <2>1 DEF Send, Abs!Accept
<1>2. ASSUME PushDrop PROVE Abs!Merge(inVal) /\ inVal \in Values
  <2>1. inVal \in Values /\ (inVal \in Range(ch) \/ inVal = outVal)
    BY <1>2 DEF PushDrop, BufferDeduplicated
  <2>2. Copies[inVal] > 1
    BY <1>a, <2>1 DEF One
  <2>3. Copies' = [Copies EXCEPT ![inVal] = @ - 1]
    <3>1. \A w \in Values :
            Copies'[w] = IF w = inVal THEN Copies[w] - 1 ELSE Copies[w]
      BY <1>2, <2>1, <1>a, <1>b DEF PushDrop, One
    <3> QED BY <1>c, <3>1
  <2> QED BY <1>2, <2>1, <2>2, <2>3 DEF PushDrop, Abs!Merge
<1>3. ASSUME PushMark PROVE UNCHANGED Abs!queueVars
  BY <1>3 DEF PushMark, Abs!queueVars, Copies, One
<1>4. ASSUME PushSend PROVE UNCHANGED Abs!queueVars
  <2>1. inVal \in Values /\ Range(ch') = Range(ch) \cup {inVal}
    BY <1>4, AppendFacts DEF PushSend, BufferDeduplicated
  <2>2. Copies' = Copies
    BY <1>4, <2>1 DEF PushSend, Copies, One
  <2> QED BY <1>4, <2>2 DEF PushSend, Abs!queueVars
<1>5. ASSUME Close PROVE Abs!CloseInput
  BY <1>5 DEF Close, Abs!CloseInput, Copies, One
<1>6. ASSUME InputDone PROVE UNCHANGED Abs!queueVars
  BY <1>6 DEF InputDone, Abs!queueVars, Copies, One
<1>7. ASSUME PullReceive PROVE UNCHANGED Abs!queueVars
  <2>1. /\ Range(ch') = Range(ch) \ {outVal'}
        /\ outVal' \in Range(ch) /\ outVal = NoValue
    BY <1>7, TailFacts DEF PullReceive, BufferDeduplicated
  <2>2. Copies' = Copies
    BY <1>7, <2>1 DEF PullReceive, Copies, One
  <2> QED BY <1>7, <2>2 DEF PullReceive, Abs!queueVars
<1>8. ASSUME PullDelete PROVE UNCHANGED Abs!queueVars
  BY <1>8 DEF PullDelete, Abs!queueVars, Copies, One
<1>9. ASSUME Output PROVE Abs!Deliver(outVal) /\ outVal \in Values
  <2>1. outVal \in Values /\ Copies[outVal] > 0
    BY <1>9, <1>a DEF Output, One
  <2>2. Copies' = [Copies EXCEPT ![outVal] = @ - 1]
    <3>1. \A w \in Values :
            Copies'[w] = IF w = outVal THEN Copies[w] - 1 ELSE Copies[w]
      BY <1>9, <2>1, <1>a, <1>b, SMTT(30) DEF Output, One
    <3> QED BY <1>c, <3>1
  <2> QED BY <1>9, <2>1, <2>2 DEF Output, Abs!Deliver
<1>10. ASSUME PullClosed PROVE Abs!End
  <2>1. Range(ch) = {}
    BY <1>10, EmptySeq DEF PullClosed, Range
  <2>2. \A v \in Values : Copies[v] = 0
    BY <1>10, <1>a, <2>1 DEF PullClosed, One
  <2>3. Copies' = Copies
    BY <1>10 DEF PullClosed, Copies, One
  <2> QED BY <1>10, <2>2, <2>3 DEF PullClosed, Abs!End
<1>11. ASSUME UNCHANGED vars PROVE UNCHANGED Abs!queueVars
  BY <1>11 DEF vars, Abs!queueVars, Copies, One
<1> QED
  BY <1>1, <1>2, <1>3, <1>4, <1>5, <1>6, <1>7, <1>8, <1>9, <1>10, <1>11
     DEF Next, InputGoroutine, OutputGoroutine, Abs!Next

\* The deduplicating channel implements the coalescing queue, for any set of
\* strings and any buffer size: push() drops only a string of which another
\* copy is still to be output.
THEOREM Refinement == Spec => ImplementsCoalescingQueue
<1> QED BY InitRefines, StepRefines, Invariance, PTL
        DEF Spec, ImplementsCoalescingQueue, Abs!Spec
=============================================================================
