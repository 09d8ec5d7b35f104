---------------------------- MODULE LogStreamer ----------------------------
(***************************************************************************)
(* One request for the logs of a stack: the handler's goroutine (ServeHTTP *)
(* and forwardLogs), the watcher of pods when the client follows, one      *)
(* reader per pod, the buffered channel they share, and the single-shot    *)
(* signaler by which the handler tells the others that the client is gone. *)
(*                                                                         *)
(* A line is its pod and its number.  Pods, their logs and the client are  *)
(* the environment.  The client's tail is None, a number or Bad, a text    *)
(* that is not one; its filter is None, Bad or the numbers of the lines    *)
(* that match it.                                                          *)
(***************************************************************************)
EXTENDS Naturals, Sequences, FiniteSets, FiniteSetsExt

CONSTANTS
    Pods,
    Logs,           \* the numbers of lines the pods' logs may have
    Requests,       \* the arguments a client may give
    None, Bad,
    Cap,            \* capacity of the channel
    MaxEvents,      \* bound on the events of the watch, its end included
    MaxFailures     \* bound on failing calls and reads

\* 100 slots are more than the pods of a stack.
ASSUME LogStreamerAssumption ==
    /\ IsFiniteSet(Pods) /\ Cap \in Nat /\ Cap >= Cardinality(Pods)
    /\ Logs \subseteq [Pods -> Nat]
    /\ Requests \subseteq [follow : {"", "0", "false", "1"}, tail : Nat \cup {None, Bad},
                            filter : (SUBSET Nat) \cup {None, Bad}]
    /\ {MaxEvents, MaxFailures} \subseteq Nat

VARIABLES
    request,        \* the client's arguments
    started,        \* the pods that run, or have been running
    produced,       \* the lines of each pod's log
    ended,          \* the pods that end after them
    clientGone,
    events,         \* pods with an event on the watch that has not been received
    eventsLeft,
    toOpen,         \* pods of the list that getPods has not come to
    handler,        \* where the handler's goroutine is
    watcher,        \* where the watcher's goroutine is
    abort,          \* the watcher's channel: not there, empty or with a token
    reader,         \* where each pod's reader is
    first,          \* the lines of each log before those the stream gives
    read,           \* the last line each reader has read
    closed,         \* the log streams that have been closed
    c,              \* the shared channel; 0 is the line of a wake-up
    watching, nWatch,
    callbacks, triggered,   \* the signaler
    iterating,      \* the callbacks Signal has not yet come to
    thrown,         \* the runtime has found the map in use twice, and stopped
    written,        \* the lines of each pod the client has been sent
    failures

podVars == <<started, produced, ended, clientGone, eventsLeft>>
signaler == <<callbacks, triggered, iterating, thrown, abort>>
readers == <<reader, first, read, closed, watching, nWatch>>
vars == <<request, podVars, events, toOpen, handler, watcher, readers, c, signaler, written, failures>>

\* None if the arguments do not parse.
parseArgs(r) ==
    IF Bad \in {r.tail, r.filter} THEN None
    ELSE [follow |-> r.follow \notin {"", "0", "false"}, tail |-> r.tail, filter |-> r.filter]

args == parseArgs(request)
follow == args # None /\ args.follow

\* filter == nil || filter.Match(line)
Match(n) == args.filter # None => n \in args.filter

Returned == handler \in {"refused", "noPods", "drained", "gone"}
Line(p, n) == [pod |-> p, line |-> n]
Nil(p) == [pod |-> p, line |-> 0]

\* The handler up to its loops: the arguments that do not parse and the list or
\* the watch that fails end the request at once.
Init ==
    /\ request \in Requests
    /\ produced \in Logs
    /\ IF follow
       THEN started = {} /\ ended \in SUBSET Pods /\ toOpen = {}
       ELSE started = Pods /\ ended = Pods /\ toOpen = Pods
    /\ \/ handler = "refused" /\ watcher = "off"
       \/ args # None /\ follow /\ handler = "forward" /\ watcher = "start"
       \/ args # None /\ ~follow /\ handler = "getPods" /\ watcher = "off"
    /\ clientGone = FALSE /\ events = {} /\ eventsLeft = MaxEvents /\ abort = "none"
    /\ reader = [p \in Pods |-> "none"] /\ first = [p \in Pods |-> 0]
    /\ read = first /\ closed = {} /\ watching = {} /\ nWatch = 0 /\ c = <<>>
    /\ callbacks = {} /\ triggered = FALSE /\ iterating = {} /\ thrown = FALSE
    /\ written = [p \in Pods |-> <<>>] /\ failures = 0

-----------------------------------------------------------------------------
(* Pods and the client. *)

\* A pod that starts to run gives an event, and may give more; when the watch has
\* ended nobody hears of it.
PodEvent(p) ==
    /\ eventsLeft > 0 /\ eventsLeft' = eventsLeft - 1
    /\ \/ /\ watcher \in {"start", "watch"} /\ p \notin events
          /\ events' = events \cup {p}
       \/ watcher = "spinning" /\ p \notin started /\ UNCHANGED events
    /\ started' = started \cup {p}
    /\ UNCHANGED <<request, produced, ended, clientGone, toOpen, handler, watcher, readers, c,
                   signaler, written, failures>>

ClientLeaves ==
    /\ ~clientGone /\ ~Returned
    /\ clientGone' = TRUE
    /\ UNCHANGED <<request, started, produced, ended, eventsLeft, events, toOpen, handler, watcher, readers,
                   c, signaler, written, failures>>

Failing == failures < MaxFailures /\ failures' = failures + 1

-----------------------------------------------------------------------------
(* Opening the streams: from the list of pods, or as the watch tells. *)

\* The lines a stream leaves out: all but the tail of what there is of the log.
TailLines(p) ==
    IF args.tail = None THEN {0}
    ELSE {Max({n - args.tail, 0}) : n \in IF follow THEN 0..produced[p] ELSE {produced[p]}}

\* The rest runs in a goroutine of its own.
streamLogs(p) ==
    \/ /\ watching' = watching \cup {p} /\ nWatch' = nWatch + 1
       /\ reader' = [reader EXCEPT ![p] = "opened"]
       /\ \E n \in TailLines(p) :
            first' = [first EXCEPT ![p] = n] /\ read' = [read EXCEPT ![p] = n]
       /\ UNCHANGED <<closed, failures>>
    \/ Failing /\ UNCHANGED readers

getPods(p) ==
    /\ ~thrown /\ handler = "getPods" /\ p \in toOpen
    /\ toOpen' = toOpen \ {p}
    /\ streamLogs(p)
    /\ UNCHANGED <<request, podVars, events, handler, watcher, c, signaler, written>>

\* The end of getPods, and the test of nWatch in ServeHTTP.
ServeHTTP ==
    /\ ~thrown /\ handler = "getPods" /\ toOpen = {}
    /\ handler' = IF nWatch = 0 THEN "noPods" ELSE "forward"
    /\ UNCHANGED <<request, podVars, events, toOpen, watcher, readers, c, signaler, written, failures>>

Channel_Token ==
    /\ ~thrown /\ watcher = "start"
    /\ watcher' = "watch"
    /\ abort' = "token"
    /\ UNCHANGED <<request, podVars, events, toOpen, handler, readers, c, callbacks, triggered,
                   iterating, thrown, written, failures>>

\* closer.Channel(), the first thing watchPods does.
Channel ==
    /\ ~thrown /\ watcher = "start"
    /\ watcher' = "watch"
    /\ abort' = IF triggered THEN "token" ELSE "empty"
    /\ UNCHANGED <<request, podVars, events, toOpen, handler, readers, c, callbacks, triggered,
                   iterating, thrown, written, failures>>

\* The cases of the select.  Events of pods that do not run are skipped.
watchPods(p) ==
    /\ ~thrown /\ watcher = "watch" /\ p \in events
    /\ events' = events \ {p}
    /\ IF p \in watching THEN UNCHANGED <<readers, failures>> ELSE streamLogs(p)
    /\ UNCHANGED <<request, podVars, toOpen, handler, watcher, c, signaler, written>>

\* The API server ends the watch, as it does with every watch in time, and the
\* events on their way are lost.  The closed channel goes on giving the select an
\* event without a type, which the loop skips: the watcher neither stops nor
\* watches again.
WatchEnds ==
    /\ ~thrown /\ watcher = "watch" /\ eventsLeft > 0
    /\ eventsLeft' = eventsLeft - 1
    /\ watcher' = "spinning" /\ events' = {}
    /\ UNCHANGED <<request, started, produced, ended, clientGone, toOpen, handler, readers, c,
                   signaler, written, failures>>

StopWatcher ==
    /\ ~thrown /\ watcher \in {"watch", "spinning"} /\ abort = "token"
    /\ watcher' = "stopped" /\ abort' = "empty" /\ events' = {}
    /\ UNCHANGED <<request, podVars, toOpen, handler, readers, c, callbacks, triggered,
                   iterating, thrown, written, failures>>

-----------------------------------------------------------------------------
(* A pod's reader. *)

Register_Late(p) ==
    /\ ~thrown /\ reader[p] = "opened"
    /\ reader' = [reader EXCEPT ![p] = "reading"]
    /\ callbacks' = callbacks \cup {p}
    /\ UNCHANGED <<request, podVars, events, toOpen, handler, watcher, first, read, closed, watching, nWatch, c,
                   triggered, iterating, thrown, abort, written, failures>>

\* A callback registered after the signal is called at once.
Register(p) ==
    /\ ~thrown /\ reader[p] = "opened"
    /\ reader' = [reader EXCEPT ![p] = "reading"]
    /\ IF triggered THEN closed' = closed \cup {p} /\ UNCHANGED callbacks
       ELSE callbacks' = callbacks \cup {p} /\ UNCHANGED closed
    /\ UNCHANGED <<request, podVars, events, toOpen, handler, watcher, first, read, watching, nWatch, c,
                   triggered, iterating, thrown, abort, written, failures>>

\* ReadSlice has a whole line; the buffer may hold some after the stream is closed.
ReadSlice(p) ==
    /\ ~thrown /\ reader[p] = "reading" /\ read[p] < produced[p]
    /\ read' = [read EXCEPT ![p] = @ + 1]
    /\ reader' = [reader EXCEPT ![p] = "holding"]
    /\ UNCHANGED <<request, podVars, events, toOpen, handler, watcher, first, closed, watching, nWatch, c,
                   signaler, written, failures>>

\* ReadSlice has an error: the end of the log, a closed stream, a lost
\* connection or a line longer than the buffer.
ReadEnds(p) ==
    /\ ~thrown /\ reader[p] = "reading"
    /\ \/ p \in closed /\ UNCHANGED failures
       \/ p \in ended /\ read[p] = produced[p] /\ UNCHANGED failures
       \/ Failing
    /\ reader' = [reader EXCEPT ![p] = "ended"]
    /\ UNCHANGED <<request, podVars, events, toOpen, handler, watcher, first, read, closed, watching, nWatch,
                   c, signaler, written>>

Send(p) ==
    /\ ~thrown /\ reader[p] = "holding" /\ Len(c) < Cap
    /\ c' = Append(c, Line(p, read[p]))
    /\ reader' = [reader EXCEPT ![p] = "reading"]
    /\ UNCHANGED <<request, podVars, events, toOpen, handler, watcher, first, read, closed, watching, nWatch,
                   signaler, written, failures>>

Decrement(p) ==
    /\ ~thrown /\ reader[p] = "ended"
    /\ nWatch' = nWatch - 1
    /\ reader' = [reader EXCEPT ![p] = "waking"]
    /\ UNCHANGED <<request, podVars, events, toOpen, handler, watcher, first, read, closed, watching, c,
                   signaler, written, failures>>

WakeUp_Missing(p) ==
    /\ ~thrown /\ reader[p] = "waking"
    /\ UNCHANGED c
    /\ reader' = [reader EXCEPT ![p] = "leaving"]
    /\ UNCHANGED <<request, podVars, events, toOpen, handler, watcher, first, read, closed, watching, nWatch,
                   signaler, written, failures>>

\* cs.c <- nil
WakeUp(p) ==
    /\ ~thrown /\ reader[p] = "waking" /\ Len(c) < Cap
    /\ c' = Append(c, Nil(p))
    /\ reader' = [reader EXCEPT ![p] = "leaving"]
    /\ UNCHANGED <<request, podVars, events, toOpen, handler, watcher, first, read, closed, watching, nWatch,
                   signaler, written, failures>>

\* The lock does not keep Signal from its iteration over the same map: the
\* runtime may find both at work and end the process.
Unregister(p) ==
    /\ ~thrown /\ reader[p] = "leaving"
    /\ callbacks' = callbacks \ {p}
    /\ thrown' \in (IF handler = "signal" THEN BOOLEAN ELSE {FALSE})
    /\ reader' = [reader EXCEPT ![p] = "done"]
    /\ UNCHANGED <<request, podVars, events, toOpen, handler, watcher, first, read, closed, watching, nWatch,
                   c, triggered, iterating, abort, written, failures>>

-----------------------------------------------------------------------------
(* forwardLogs, and Signal in it. *)

Shown(l) == l.line # 0 /\ Match(l.line)
Wrote(l) ==
    written' = IF Shown(l) THEN [written EXCEPT ![l.pod] = Append(@, l.line)] ELSE written

\* A line from the channel; the write fails when the client is gone.
Receive ==
    /\ ~thrown /\ handler = "forward" /\ c # <<>>
    /\ c' = Tail(c)
    /\ \/ handler' = "check" /\ Wrote(Head(c))
       \/ Shown(Head(c)) /\ clientGone /\ handler' = "closing" /\ UNCHANGED written
    /\ UNCHANGED <<request, podVars, events, toOpen, watcher, readers, signaler, failures>>

CheckNWatch_NoDrain ==
    /\ ~thrown /\ handler = "check"
    /\ handler' = IF ~follow /\ nWatch = 0 THEN "drained" ELSE "forward"
    /\ UNCHANGED <<request, podVars, events, toOpen, watcher, readers, c, signaler, written, failures>>

CheckNWatch ==
    /\ ~thrown /\ handler = "check"
    /\ handler' = IF ~follow /\ nWatch = 0 THEN "drain" ELSE "forward"
    /\ UNCHANGED <<request, podVars, events, toOpen, watcher, readers, c, signaler, written, failures>>

\* "drain before exiting"
Drain ==
    /\ ~thrown /\ handler = "drain"
    /\ IF c = <<>> THEN handler' = "drained" /\ UNCHANGED <<c, written>>
       ELSE /\ c' = Tail(c)
            /\ IF clientGone THEN UNCHANGED written ELSE Wrote(Head(c))
            /\ UNCHANGED handler
    /\ UNCHANGED <<request, podVars, events, toOpen, watcher, readers, signaler, failures>>

CloseNotify ==
    /\ ~thrown /\ handler = "forward" /\ clientGone
    /\ handler' = "closing"
    /\ UNCHANGED <<request, podVars, events, toOpen, watcher, readers, c, signaler, written, failures>>

Signal_CallbacksOnly ==
    /\ ~thrown /\ handler = "closing"
    /\ handler' = "signal"
    /\ triggered' = TRUE /\ iterating' = callbacks
    /\ UNCHANGED <<request, podVars, events, toOpen, watcher, readers, c, callbacks, thrown, abort,
                   written, failures>>

\* The part of Signal under the lock, and the loop over the callbacks.
Signal ==
    /\ ~thrown /\ handler = "closing"
    /\ handler' = "signal"
    /\ triggered' = TRUE /\ iterating' = callbacks
    /\ abort' = IF abort = "empty" THEN "token" ELSE abort
    /\ UNCHANGED <<request, podVars, events, toOpen, watcher, readers, c, callbacks, thrown,
                   written, failures>>

Callback(p) ==
    /\ ~thrown /\ handler = "signal" /\ p \in iterating \cap callbacks
    /\ iterating' = iterating \ {p} /\ closed' = closed \cup {p}
    /\ UNCHANGED <<request, podVars, events, toOpen, handler, watcher, reader, first, read, watching, nWatch,
                   c, callbacks, triggered, thrown, abort, written, failures>>

SignalEnds ==
    /\ ~thrown /\ handler = "signal" /\ iterating \cap callbacks = {}
    /\ handler' = "gone" /\ iterating' = {}
    /\ UNCHANGED <<request, podVars, events, toOpen, watcher, readers, c, callbacks, triggered,
                   thrown, abort, written, failures>>

-----------------------------------------------------------------------------
Handler ==
    \/ \E p \in Pods : getPods(p) \/ Callback(p)
    \/ ServeHTTP \/ Receive \/ CheckNWatch \/ Drain \/ CloseNotify \/ Signal \/ SignalEnds

Reader(p) ==
    \/ Register(p) \/ ReadSlice(p) \/ ReadEnds(p) \/ Send(p)
    \/ Decrement(p) \/ WakeUp(p) \/ Unregister(p)

Watcher == Channel \/ StopWatcher \/ \E p \in Pods : watchPods(p)

Next ==
    \/ \E p \in Pods : PodEvent(p) \/ Reader(p)
    \/ ClientLeaves
    \/ WatchEnds
    \/ Watcher
    \/ Handler

Spec == Init /\ [][Next]_vars

\* Goroutines go on: the handler, the watcher and the readers.
FairSpec ==
    Spec /\ WF_vars(Handler) /\ WF_vars(Watcher) /\ WF_vars(\E p \in Pods : Reader(p))

-----------------------------------------------------------------------------
\* The lines after one up to another that match, each once and in order.
Matching(lines, from, to) ==
    /\ {lines[i] : i \in DOMAIN lines} = {n \in (from + 1) .. to : Match(n)}
    /\ \A i, j \in DOMAIN lines : i < j => lines[i] < lines[j]

\* forwardLogs returns on its own only when every line that was read and that
\* the filter lets through has been written, once and in the order of its log;
\* if nothing failed the readers have read the logs of all the pods to the end.
DrainedIsComplete ==
    handler = "drained" /\ ~clientGone =>
        \A p \in Pods : /\ Matching(written[p], first[p], read[p])
                        /\ failures = 0 => read[p] = produced[p]

\* When forwardLogs has returned on its own it leaves no line behind: none is in
\* the channel, and no reader holds one or can still read one.  The counter is taken
\* down before the wake-up that makes forwardLogs look at it.
NothingLeft ==
    handler = "drained" =>
        /\ \A i \in DOMAIN c : c[i].line = 0
        /\ \A p \in Pods : reader[p] \in {"none", "waking", "leaving", "done"}

\* When Signal is over no reader is left with an open stream: it had
\* registered, or it registers later and closes its stream itself.
SignalClosesAll ==
    handler = "gone" =>
        \A p \in Pods : reader[p] \in {"reading", "holding"} => p \in closed

\* A request that does not follow is answered (the wake-up after the counter).
Answers == ~follow ~> Returned \/ thrown

\* A client that follows gets every line it asked for of every pod that runs,
\* or leaves.  Left out are the pods watchPods had not come to when its watch
\* ended: it never hears of them.
Follows ==
    \A p \in Pods :
        (follow /\ p \in started) ~>
            \/ reader[p] # "none" /\ Matching(written[p], first[p], produced[p])
            \/ reader[p] = "none" /\ watcher = "spinning"
            \/ clientGone \/ failures > 0

\* Once the client is gone, or the answer complete, all goroutines end;
\* but a reader stays blocked for good in a channel that is full and that
\* nobody reads any more.
GoroutinesEnd ==
    (clientGone \/ Returned) ~>
        \/ thrown
        \/ Returned /\ watcher \in {"off", "stopped"} /\ \A p \in Pods : reader[p] \in {"none", "done"}
        \/ handler \in {"noPods", "gone"} /\ Len(c) = Cap
=============================================================================
