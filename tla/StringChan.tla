------------------------------ MODULE StringChan ------------------------------
(***************************************************************************)
(* internal/deduplication/stringchannel.go: the deduplicating channel that *)
(* carries stack keys from the informer callbacks to the reconciler.       *)
(*                                                                         *)
(* Two goroutines share the map `content` (under a mutex) and the buffered *)
(* channel `ch`.  Neither holds the mutex while it sends to or receives    *)
(* from a channel, so a push can fall between the receive and the delete   *)
(* of a pull; each of these is a step of its own here.  The producers and  *)
(* the consumer meet the goroutines on the unbuffered channels input and   *)
(* output: a rendezvous is one step.                                       *)
(***************************************************************************)
EXTENDS Naturals, Sequences, Functions

CONSTANTS
    Values,         \* the strings that are sent
    NoValue,        \* a goroutine holds no string
    BufferSize      \* bufferSize, 200 and 20 in the controller

ASSUME StringChanAssumption ==
    /\ NoValue \notin Values
    /\ BufferSize \in Nat \ {0}

VARIABLES
    content,        \* the strings marked as being in the buffer
    ch,             \* the buffered channel
    inPc, inVal,    \* the input goroutine and the string it holds
    outPc, outVal,  \* the output goroutine and the string it holds
    closed,         \* input is closed
    owed            \* history: strings sent and not received since

vars == <<content, ch, inPc, inVal, outPc, outVal, closed, owed>>

Init ==
    /\ content = {}
    /\ ch = <<>>
    /\ inPc = "receive" /\ inVal = NoValue
    /\ outPc = "pull" /\ outVal = NoValue
    /\ closed = FALSE
    /\ owed = {}
-----------------------------------------------------------------------------
(* The input goroutine.                                                    *)

\* A producer's `In() <- v` meets the input goroutine's range loop.
Send(v) ==
    /\ ~closed
    /\ inPc = "receive"
    /\ inPc' = "push" /\ inVal' = v
    /\ owed' = owed \cup {v}
    /\ UNCHANGED <<content, ch, outPc, outVal, closed>>

\* push() finds the string in content and drops it.
PushDrop ==
    /\ inPc = "push"
    /\ inVal \in content
    /\ inPc' = "receive" /\ inVal' = NoValue
    /\ UNCHANGED <<content, ch, outPc, outVal, closed, owed>>

\* push() marks the string, and unlocks.
PushMark ==
    /\ inPc = "push"
    /\ inVal \notin content
    /\ content' = content \cup {inVal}
    /\ inPc' = "send"
    /\ UNCHANGED <<ch, inVal, outPc, outVal, closed, owed>>

\* push() sends to ch; it blocks while the buffer is full.
PushSend ==
    /\ inPc = "send"
    /\ Len(ch) < BufferSize
    /\ ch' = Append(ch, inVal)
    /\ inPc' = "receive" /\ inVal' = NoValue
    /\ UNCHANGED <<content, outPc, outVal, closed, owed>>

Close ==
    /\ ~closed
    /\ closed' = TRUE
    /\ UNCHANGED <<content, ch, inPc, inVal, outPc, outVal, owed>>

\* The range loop ends; the deferred close(ch) runs.
InputDone ==
    /\ closed
    /\ inPc = "receive"
    /\ inPc' = "done"
    /\ UNCHANGED <<content, ch, inVal, outPc, outVal, closed, owed>>
-----------------------------------------------------------------------------
(* The output goroutine.                                                   *)

\* pull() receives from ch, before it takes the mutex.
PullReceive ==
    /\ outPc = "pull"
    /\ ch # <<>>
    /\ outVal' = Head(ch) /\ ch' = Tail(ch)
    /\ outPc' = "delete"
    /\ UNCHANGED <<content, inPc, inVal, closed, owed>>

PullDelete_NoDelete ==
    /\ outPc = "delete"
    /\ outPc' = "output"
    /\ UNCHANGED <<content, ch, inPc, inVal, outVal, closed, owed>>

\* pull() removes the mark under the mutex.
PullDelete ==
    /\ outPc = "delete"
    /\ content' = content \ {outVal}
    /\ outPc' = "output"
    /\ UNCHANGED <<ch, inPc, inVal, outVal, closed, owed>>

\* `output <- v` meets the consumer's receive from Out().
Output ==
    /\ outPc = "output"
    /\ owed' = owed \ {outVal}
    /\ outPc' = "pull" /\ outVal' = NoValue
    /\ UNCHANGED <<content, ch, inPc, inVal, closed>>

PullClosed_IgnoreBuffer ==
    /\ outPc = "pull"
    /\ inPc = "done"
    /\ outPc' = "done"
    /\ UNCHANGED <<content, ch, inPc, inVal, outVal, closed, owed>>

\* pull() finds ch closed and drained: the goroutine returns and the deferred
\* close(output) runs.
PullClosed ==
    /\ outPc = "pull"
    /\ ch = <<>>
    /\ inPc = "done"
    /\ outPc' = "done"
    /\ UNCHANGED <<content, ch, inPc, inVal, outVal, closed, owed>>
-----------------------------------------------------------------------------
InputGoroutine == PushDrop \/ PushMark \/ PushSend \/ InputDone

OutputGoroutine == PullReceive \/ PullDelete \/ Output \/ PullClosed

Next ==
    \/ \E v \in Values : Send(v)
    \/ Close
    \/ InputGoroutine
    \/ OutputGoroutine

Spec == Init /\ [][Next]_vars

\* The Go scheduler runs both goroutines; the consumer keeps receiving.
\* Producers need not send and nobody need call Close.
FairSpec ==
    /\ Spec
    /\ WF_vars(InputGoroutine)
    /\ WF_vars(OutputGoroutine)
-----------------------------------------------------------------------------
InHand == IF inVal = NoValue THEN {} ELSE {inVal}
OutHand == IF outVal = NoValue THEN {} ELSE {outVal}

\* The type of every variable, and which strings a goroutine holds where.
TypeOK ==
    /\ content \subseteq Values
    /\ ch \in Seq(Values)
    /\ inPc \in {"receive", "push", "send", "done"}
    /\ inVal \in Values \cup {NoValue}
    /\ inPc \in {"push", "send"} <=> inVal # NoValue
    /\ outPc \in {"pull", "delete", "output", "done"}
    /\ outVal \in Values \cup {NoValue}
    /\ outPc \in {"delete", "output"} <=> outVal # NoValue
    /\ closed \in BOOLEAN
    /\ owed \subseteq Values

\* No wake-up is lost: a string that a producer has sent and the consumer has
\* not received since is still somewhere in the channel.  The drop in push()
\* relies on it (the copy that made push() drop is yet to be output), although
\* the drop can happen after pull() took that copy out of the buffer.
NoLostValue == owed \subseteq InHand \cup Range(ch) \cup OutHand

\* push() keeps the buffer free of duplicates, and the marks are exactly the
\* strings between the marking in push() and the delete in pull(): the map
\* holds at most two strings more than the buffer.
BufferDeduplicated ==
    /\ \A i, j \in DOMAIN ch : ch[i] = ch[j] => i = j
    /\ content = Range(ch) \cup (IF inPc = "send" THEN {inVal} ELSE {})
                           \cup (IF outPc = "delete" THEN {outVal} ELSE {})
    /\ Len(ch) <= BufferSize

\* Close() drains: when Out() is closed nothing that was sent is still owed.
ClosesDrained == outPc = "done" => owed = {}

\* Every string sent is received afterwards, also when Close() follows.
EveryValueOutput == \A v \in Values : v \in owed ~> v \notin owed

-----------------------------------------------------------------------------
(* Refinement: the copies of v held anywhere in the channel.               *)

One(b) == IF b THEN 1 ELSE 0

Copies == [v \in Values |->
    One(v = inVal) + One(v \in Range(ch)) + One(v = outVal)]

Abs == INSTANCE CoalescingQueue
    WITH pending <- Copies, closed <- closed, ended <- (outPc = "done")

\* The channel implements the coalescing queue: what push() drops is always a
\* second copy, and Out() is closed only when the queue is empty.
ImplementsCoalescingQueue == Abs!Spec
=============================================================================
