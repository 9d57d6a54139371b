------------------------------- MODULE Stream -------------------------------
(***************************************************************************)
(* The Go-to-Dart stream channel: bridge.Emitter, DispatchStream and its   *)
(* drain goroutine (pkg/bridge/stream.go), the port transport              *)
(* (pkg/bridge/dartpost), and the openStream that the generated Dart code  *)
(* runs (internal/codegen/codegen.go).                                     *)
(*                                                                         *)
(* Four parties act on each stream: the producer goroutine (user code      *)
(* under the rules of docs/STREAMING.md: Sends, then one Close or Fail),   *)
(* the drain goroutine, the Dart isolate (one thread for all streams), and *)
(* the subscriber, whose unsubscribing the isolate carries out.  A stream  *)
(* stands for its id: ids are never reused.                                *)
(*                                                                         *)
(* Kinds of items: "plain"; "undecodable", whose decode() throws in the    *)
(* port handler; "unmarshalable", for which json.Marshal returns an error; *)
(* "panicking", whose MarshalJSON panics.                                  *)
(***************************************************************************)
EXTENDS Integers, Sequences

CONSTANTS
    Streams,       \* the streams of one isolate
    streamBuffer,  \* capacity of an emitter's channel (32 in the code)
    MaxItems,      \* bound of the model: items a producer sends
    Kinds          \* the kinds of items producers send

ASSUME BufferAssumption == streamBuffer \in Nat \ {0}
ASSUME ItemsAssumption == MaxItems \in Nat
ASSUME KindsAssumption ==
    Kinds \subseteq {"plain", "undecodable", "unmarshalable", "panicking"}

VARIABLES
    \* The producer and its Emitter
    kind,       \* the kind of each item of each stream
    prod,       \* where the producer is
    sent,       \* how many of its Sends returned nil
    ch,         \* Emitter.ch: the items buffered
    res,        \* Emitter.res: how the producer ended, until the drainer reads it
    cancelled,  \* Emitter.cancelled is closed
    \* The runtime
    streams,    \* the registry: streams CancelStream finds
    drain,      \* where the drain goroutine is
    hand,       \* the item it is about to post
    verdict,    \* what it has read from res
    \* Dart
    port,       \* the messages posted and not handled yet
    portOpen,   \* the RawReceivePort is open
    streamId,   \* what openStream knows of its stream id
    turn,       \* what the isolate is in the middle of, for this stream
    dartAlive,  \* the isolate is running
    finished,   \* openStream's finished flag
    shown,      \* the items given to the StreamController
    ending      \* the ending given to it

prodVars == <<kind, prod, sent>>
emitterVars == <<ch, res, cancelled>>
runtimeVars == <<streams, drain, hand, verdict>>
portVars == <<port, portOpen>>
dartVars == <<streamId, turn, dartAlive, finished, shown, ending>>
vars == <<prodVars, emitterVars, runtimeVars, portVars, dartVars>>

NoItem == 0
Items == 1..MaxItems
Endings == {"done", "failed", "broken"}

\* The envelope posted to the port: an item, or how the stream ends.  "failed"
\* is the producer's Fail, "broken" an error of the runtime; both are ev "err".
Data(n) == [ev |-> "data", item |-> n]
Terminal(how) == [ev |-> how, item |-> NoItem]
Messages == {Data(n) : n \in Items} \cup {Terminal(how) : how \in Endings}

\* Every variable has its shape: the channel keeps to its capacity, messages
\* are items or endings, and an item in the drainer's hand was sent.
TypeOK ==
    /\ kind \in [Streams -> [Items -> Kinds]]
    /\ prod \in [Streams -> {"off", "ready", "sending", "ended"}]
    /\ sent \in [Streams -> 0..MaxItems]
    /\ ch \in [Streams -> Seq(Items)]
    /\ \A s \in Streams : Len(ch[s]) <= streamBuffer
    /\ res \in [Streams -> {"none", "done", "failed"}]
    /\ cancelled \in [Streams -> BOOLEAN]
    /\ streams \subseteq Streams
    /\ drain \in [Streams -> {"off", "select", "emit", "flush", "emitFlush", "stop",
                              "terminal", "unregister", "exited"}]
    /\ hand \in [Streams -> 0..MaxItems]
    /\ verdict \in [Streams -> {"none", "done", "failed"}]
    /\ port \in [Streams -> Seq(Messages)]
    /\ portOpen \in [Streams -> BOOLEAN]
    /\ streamId \in [Streams -> {"unopened", "zero", "given"}]
    /\ turn \in [Streams -> {"none", "registering", "cancelling", "signalling", "closing"}]
    /\ dartAlive \in BOOLEAN
    /\ finished \in [Streams -> BOOLEAN]
    /\ shown \in [Streams -> Seq(Items)]
    /\ ending \in [Streams -> Endings \cup {"none"}]

Init ==
    /\ kind \in [Streams -> [Items -> Kinds]]
    /\ prod = [s \in Streams |-> "off"]
    /\ sent = [s \in Streams |-> 0]
    /\ ch = [s \in Streams |-> << >>]
    /\ res = [s \in Streams |-> "none"]
    /\ cancelled = [s \in Streams |-> FALSE]
    /\ streams = {}
    /\ drain = [s \in Streams |-> "off"]
    /\ hand = [s \in Streams |-> NoItem]
    /\ verdict = [s \in Streams |-> "none"]
    /\ port = [s \in Streams |-> << >>]
    /\ portOpen = [s \in Streams |-> FALSE]
    /\ streamId = [s \in Streams |-> "unopened"]
    /\ turn = [s \in Streams |-> "none"]
    /\ dartAlive = TRUE
    /\ finished = [s \in Streams |-> FALSE]
    /\ shown = [s \in Streams |-> << >>]
    /\ ending = [s \in Streams |-> "none"]

Goto(pc, s, place) == [pc EXCEPT ![s] = place]

\* dartpost.PostString: the message is in the port's queue, or the port is gone.
\* Nothing bounds the queue and nothing waits for the reader.
Posted(s, m) == IF portOpen[s] THEN [port EXCEPT ![s] = Append(@, m)] ELSE port

\* The isolate runs one turn at a time and cannot be interrupted in it.
DartIdle == dartAlive /\ \A s \in Streams : turn[s] = "none"

(***************************************************************************)
(* openStream: a port is created and FlugoOpenStream runs on the isolate's *)
(* thread.                                                                 *)
(***************************************************************************)
Opens(s) ==
    /\ DartIdle
    /\ streamId[s] = "unopened"

\* The stream ends at once, with stream id 0: on an error (unknown method, bad
\* params, a panic or an error from the method, no emitter) or, for a nil
\* emitter, cleanly.
OpenEndsAtOnce(s) ==
    /\ Opens(s)
    /\ \E how \in {"broken", "done"} :
        port' = [port EXCEPT ![s] = <<Terminal(how)>>]
    /\ portOpen' = [portOpen EXCEPT ![s] = TRUE]
    /\ streamId' = [streamId EXCEPT ![s] = "zero"]
    /\ UNCHANGED <<prodVars, emitterVars, runtimeVars, turn, dartAlive, finished,
                   shown, ending>>

\* callMethod has returned an emitter; its producer goroutine is running.
OpenCalls(s) ==
    /\ Opens(s)
    /\ prod' = Goto(prod, s, "ready")
    /\ portOpen' = [portOpen EXCEPT ![s] = TRUE]
    /\ turn' = Goto(turn, s, "registering")
    /\ UNCHANGED <<kind, sent, emitterVars, runtimeVars, port, streamId, dartAlive,
                   finished, shown, ending>>

\* registerStream, the start of the drain goroutine, and the return to Dart.
Register(s) ==
    /\ turn[s] = "registering"
    /\ streams' = streams \cup {s}
    /\ drain' = Goto(drain, s, "select")
    /\ streamId' = [streamId EXCEPT ![s] = "given"]
    /\ turn' = Goto(turn, s, "none")
    /\ UNCHANGED <<prodVars, emitterVars, hand, verdict, portVars, dartAlive, finished,
                   shown, ending>>

(***************************************************************************)
(* The producer goroutine.  A Send that returns an error changes nothing,  *)
(* so the first select's refusal is not a step.  closeOnce makes a second  *)
(* Close or Fail a no-op, so "ended" is final.                             *)
(***************************************************************************)

\* Send, first select: cancellation has priority.
SendBegin(s) ==
    /\ prod[s] = "ready"
    /\ sent[s] < MaxItems
    /\ ~cancelled[s]
    /\ prod' = Goto(prod, s, "sending")
    /\ UNCHANGED <<kind, sent, emitterVars, runtimeVars, portVars, dartVars>>

\* Mutant: a full buffer drops the item instead of blocking.
SendDropsWhenFull(s) ==
    /\ prod[s] = "sending"
    /\ ch' = IF Len(ch[s]) < streamBuffer THEN [ch EXCEPT ![s] = Append(@, sent[s] + 1)]
             ELSE ch
    /\ sent' = [sent EXCEPT ![s] = @ + 1]
    /\ prod' = Goto(prod, s, "ready")
    /\ UNCHANGED <<kind, res, cancelled, runtimeVars, portVars, dartVars>>

\* Send, second select, channel case: there is room in the buffer.
SendItem(s) ==
    /\ prod[s] = "sending"
    /\ Len(ch[s]) < streamBuffer
    /\ ch' = [ch EXCEPT ![s] = Append(@, sent[s] + 1)]
    /\ sent' = [sent EXCEPT ![s] = @ + 1]
    /\ prod' = Goto(prod, s, "ready")
    /\ UNCHANGED <<kind, res, cancelled, runtimeVars, portVars, dartVars>>

\* Send, second select, cancelled case: the error is returned.
SendCancelled(s) ==
    /\ prod[s] = "sending"
    /\ cancelled[s]
    /\ prod' = Goto(prod, s, "ready")
    /\ UNCHANGED <<kind, sent, emitterVars, runtimeVars, portVars, dartVars>>

\* Close or Fail.
EndEmitter(s) ==
    /\ prod[s] = "ready"
    /\ prod' = Goto(prod, s, "ended")
    /\ \E how \in {"done", "failed"} : res' = [res EXCEPT ![s] = how]
    /\ UNCHANGED <<kind, sent, ch, cancelled, runtimeVars, portVars, dartVars>>

(***************************************************************************)
(* The drain goroutine.  Where several cases of the select in drain are    *)
(* ready, Go picks any of them.                                            *)
(***************************************************************************)
TakeItem(s, from, to) ==
    /\ drain[s] = from
    /\ ch[s] # << >>
    /\ hand' = [hand EXCEPT ![s] = Head(ch[s])]
    /\ ch' = [ch EXCEPT ![s] = Tail(@)]
    /\ drain' = Goto(drain, s, to)
    /\ UNCHANGED <<prodVars, res, cancelled, streams, verdict, portVars, dartVars>>

DrainItem(s) == TakeItem(s, "select", "emit")

FlushItem(s) == TakeItem(s, "flush", "emitFlush")

\* Mutant: the producer's result is acted on without flushing the buffer.
DrainResultNoFlush(s) ==
    /\ drain[s] = "select"
    /\ res[s] # "none"
    /\ verdict' = [verdict EXCEPT ![s] = res[s]]
    /\ res' = [res EXCEPT ![s] = "none"]
    /\ drain' = Goto(drain, s, "terminal")
    /\ UNCHANGED <<prodVars, ch, cancelled, streams, hand, portVars, dartVars>>

DrainResult(s) ==
    /\ drain[s] = "select"
    /\ res[s] # "none"
    /\ verdict' = [verdict EXCEPT ![s] = res[s]]
    /\ res' = [res EXCEPT ![s] = "none"]
    /\ drain' = Goto(drain, s, "flush")
    /\ UNCHANGED <<prodVars, ch, cancelled, streams, hand, portVars, dartVars>>

\* Mutant: the end of the flush is taken for a cancelled stream.
FlushEndSilent(s) ==
    /\ drain[s] = "flush"
    /\ ch[s] = << >>
    /\ drain' = Goto(drain, s, "unregister")
    /\ UNCHANGED <<prodVars, emitterVars, streams, hand, verdict, portVars, dartVars>>

FlushEnd(s) ==
    /\ drain[s] = "flush"
    /\ ch[s] = << >>
    /\ drain' = Goto(drain, s, "terminal")
    /\ UNCHANGED <<prodVars, emitterVars, streams, hand, verdict, portVars, dartVars>>

DrainCancelled(s) ==
    /\ drain[s] = "select"
    /\ cancelled[s]
    /\ drain' = Goto(drain, s, "stop")
    /\ UNCHANGED <<prodVars, emitterVars, streams, hand, verdict, portVars, dartVars>>

Emitting(s) == drain[s] \in {"emit", "emitFlush"}

BackToLoop(s) == IF drain[s] = "emit" THEN "select" ELSE "flush"

\* postMsg of an item that marshals: on with the loop, or stop if the port is gone.
EmitItem(s) ==
    /\ Emitting(s)
    /\ kind[s][hand[s]] \in {"plain", "undecodable"}
    /\ port' = Posted(s, Data(hand[s]))
    /\ drain' = Goto(drain, s, IF portOpen[s] THEN BackToLoop(s) ELSE "stop")
    /\ hand' = [hand EXCEPT ![s] = NoItem]
    /\ UNCHANGED <<prodVars, emitterVars, streams, verdict, portOpen, dartVars>>

\* Mutant: the item is reported and the loop goes on.
EmitUnmarshalableGoesOn(s) ==
    /\ Emitting(s)
    /\ kind[s][hand[s]] = "unmarshalable"
    /\ port' = Posted(s, Terminal("broken"))
    /\ drain' = Goto(drain, s, BackToLoop(s))
    /\ hand' = [hand EXCEPT ![s] = NoItem]
    /\ UNCHANGED <<prodVars, emitterVars, streams, verdict, portOpen, dartVars>>

\* Mutant: the stream is left without cancelling its producer.
EmitUnmarshalableLeaves(s) ==
    /\ Emitting(s)
    /\ kind[s][hand[s]] = "unmarshalable"
    /\ port' = Posted(s, Terminal("broken"))
    /\ drain' = Goto(drain, s, "unregister")
    /\ hand' = [hand EXCEPT ![s] = NoItem]
    /\ UNCHANGED <<prodVars, emitterVars, streams, verdict, portOpen, dartVars>>

\* postMsg of an item that does not: an error is posted and emit returns false.
EmitUnmarshalable(s) ==
    /\ Emitting(s)
    /\ kind[s][hand[s]] = "unmarshalable"
    /\ port' = Posted(s, Terminal("broken"))
    /\ drain' = Goto(drain, s, "stop")
    /\ hand' = [hand EXCEPT ![s] = NoItem]
    /\ UNCHANGED <<prodVars, emitterVars, streams, verdict, portOpen, dartVars>>

\* postMsg panics: the deferred recover posts an error, then unregisterStream
\* runs.  src.cancel() is not on this path.
EmitPanics(s) ==
    /\ Emitting(s)
    /\ kind[s][hand[s]] = "panicking"
    /\ port' = Posted(s, Terminal("broken"))
    /\ drain' = Goto(drain, s, "unregister")
    /\ hand' = [hand EXCEPT ![s] = NoItem]
    /\ UNCHANGED <<prodVars, emitterVars, streams, verdict, portOpen, dartVars>>

\* drain returned done=false: make sure the producer stops.
StopProducer(s) ==
    /\ drain[s] = "stop"
    /\ cancelled' = [cancelled EXCEPT ![s] = TRUE]
    /\ drain' = Goto(drain, s, "unregister")
    /\ UNCHANGED <<prodVars, ch, res, streams, hand, verdict, portVars, dartVars>>

\* drain returned done=true: the producer's ending is posted.
PostEnding(s) ==
    /\ drain[s] = "terminal"
    /\ port' = Posted(s, Terminal(verdict[s]))
    /\ drain' = Goto(drain, s, "unregister")
    /\ UNCHANGED <<prodVars, emitterVars, streams, hand, verdict, portOpen, dartVars>>

Unregister(s) ==
    /\ drain[s] = "unregister"
    /\ streams' = streams \ {s}
    /\ drain' = Goto(drain, s, "exited")
    /\ UNCHANGED <<prodVars, emitterVars, hand, verdict, portVars, dartVars>>

(***************************************************************************)
(* The Dart isolate.                                                       *)
(***************************************************************************)

\* finish(): with an id FlugoStreamCancel is called, then the port is closed.
\* The flag makes a second finish (onCancel after an ending) a no-op.
BeginFinish(s) ==
    /\ finished' = [finished EXCEPT ![s] = TRUE]
    /\ turn' = Goto(turn, s, IF streamId[s] = "given" THEN "cancelling" ELSE "closing")

HasMessage(s) == DartIdle /\ portOpen[s] /\ port[s] # << >>

\* The handler gets an item.  decode() may throw: the item is not shown, and the
\* error goes to the zone, not to the stream.
HandleItem(s) ==
    /\ HasMessage(s)
    /\ Head(port[s]).ev = "data"
    /\ LET n == Head(port[s]).item
       IN  shown' = IF kind[s][n] = "plain" THEN [shown EXCEPT ![s] = Append(@, n)]
                    ELSE shown
    /\ port' = [port EXCEPT ![s] = Tail(@)]
    /\ UNCHANGED <<prodVars, emitterVars, runtimeVars, portOpen, streamId, turn,
                   dartAlive, finished, ending>>

\* The handler gets an ending: finish(), and the controller is closed.
HandleEnding(s) ==
    /\ HasMessage(s)
    /\ Head(port[s]).ev \in Endings
    /\ ending' = [ending EXCEPT ![s] = Head(port[s]).ev]
    /\ port' = [port EXCEPT ![s] = Tail(@)]
    /\ BeginFinish(s)
    /\ UNCHANGED <<prodVars, emitterVars, runtimeVars, portOpen, streamId, dartAlive,
                   shown>>

\* The subscriber cancels its subscription: onCancel is finish.
Unsubscribe(s) ==
    /\ DartIdle
    /\ streamId[s] # "unopened"
    /\ ~finished[s]
    /\ BeginFinish(s)
    /\ UNCHANGED <<prodVars, emitterVars, runtimeVars, portVars, streamId, dartAlive,
                   shown, ending>>

\* Mutant: the id is looked up the wrong way and the emitter is never found.
CancelFindsNothing(s) ==
    /\ turn[s] = "cancelling"
    /\ turn' = Goto(turn, s, "closing")
    /\ UNCHANGED <<prodVars, emitterVars, runtimeVars, portVars, streamId, dartAlive,
                   finished, shown, ending>>

\* CancelStream looks the emitter up under the lock...
CancelLookup(s) ==
    /\ turn[s] = "cancelling"
    /\ turn' = Goto(turn, s, IF s \in streams THEN "signalling" ELSE "closing")
    /\ UNCHANGED <<prodVars, emitterVars, runtimeVars, portVars, streamId, dartAlive,
                   finished, shown, ending>>

\* ... and cancels it after the unlock, whatever has become of the stream.
CancelSignal(s) ==
    /\ turn[s] = "signalling"
    /\ cancelled' = [cancelled EXCEPT ![s] = TRUE]
    /\ turn' = Goto(turn, s, "closing")
    /\ UNCHANGED <<prodVars, ch, res, runtimeVars, portVars, streamId, dartAlive,
                   finished, shown, ending>>

\* port.close(): what is still queued is never handled.
ClosePort(s) ==
    /\ turn[s] = "closing"
    /\ portOpen' = [portOpen EXCEPT ![s] = FALSE]
    /\ port' = [port EXCEPT ![s] = << >>]
    /\ turn' = Goto(turn, s, "none")
    /\ UNCHANGED <<prodVars, emitterVars, runtimeVars, streamId, dartAlive, finished,
                   shown, ending>>

\* The isolate goes away between two turns (app closed, hot restart): its ports
\* close and nobody calls finish.
IsolateGone ==
    /\ DartIdle
    /\ dartAlive' = FALSE
    /\ portOpen' = [s \in Streams |-> FALSE]
    /\ port' = [s \in Streams |-> << >>]
    /\ UNCHANGED <<prodVars, emitterVars, runtimeVars, streamId, turn, finished, shown,
                   ending>>

-----------------------------------------------------------------------------
SendReturns(s) == SendItem(s) \/ SendCancelled(s)

Producer(s) == SendBegin(s) \/ SendReturns(s) \/ EndEmitter(s)

Drainer(s) ==
    \/ DrainItem(s) \/ DrainResult(s) \/ DrainCancelled(s)
    \/ FlushItem(s) \/ FlushEnd(s)
    \/ EmitItem(s) \/ EmitUnmarshalable(s) \/ EmitPanics(s)
    \/ StopProducer(s) \/ PostEnding(s) \/ Unregister(s)

Handler(s) == HandleItem(s) \/ HandleEnding(s)

RestOfTurn(s) == Register(s) \/ CancelLookup(s) \/ CancelSignal(s) \/ ClosePort(s)

Application(s) == OpenEndsAtOnce(s) \/ OpenCalls(s) \/ Unsubscribe(s)

\* No item of the stream panics when it is marshalled: on that path the code
\* leaves the producer running: the stream is unregistered uncancelled.
PanicFree(s) == \A n \in Items : kind[s][n] # "panicking"

\* Everything that can come to rest has: nothing is left but to open more
\* streams.  Only behind a panic may a Send stay blocked.
AllQuiet ==
    /\ \A s \in Streams :
        /\ prod[s] \in {"off", "ended"} \/ (prod[s] = "sending" /\ ~PanicFree(s))
        /\ drain[s] \in {"off", "exited"}
        /\ turn[s] = "none"
        /\ dartAlive => finished[s]
    /\ UNCHANGED vars

Next ==
    \/ \E s \in Streams : Producer(s) \/ Drainer(s) \/ Handler(s) \/ RestOfTurn(s)
                          \/ Application(s)
    \/ IsolateGone
    \/ AllQuiet

\* Goroutines that can run do, a Send that can return does, and the isolate
\* finishes its turns and handles what is posted.  Nothing makes a producer
\* send or end, an application open or cancel, or an isolate die.
Fairness ==
    \A s \in Streams :
        /\ WF_vars(SendReturns(s))
        /\ WF_vars(Drainer(s))
        /\ WF_vars(Handler(s))
        /\ WF_vars(RestOfTurn(s))

Spec == Init /\ [][Next]_vars /\ Fairness

(***************************************************************************)
(* Properties.                                                             *)
(***************************************************************************)

\* How a stream stands towards its subscriber.
Phase(s) ==
    IF ending[s] # "none" THEN ending[s]
    ELSE IF finished[s] \/ ~dartAlive THEN "gone" ELSE "live"

\* The channel, the drain goroutine and the port deliver what StreamContract
\* promises: items in order and without gaps, one ending, the producer's ending
\* only after everything it sent although select may see res before ch, and
\* nothing after the subscriber has left.
Contract == INSTANCE StreamContract WITH phase <- [s \in Streams |-> Phase(s)]
KeepsContract == Contract!Spec

\* How many items have left the emitter's buffer, and how many of them are no
\* longer in the drainer's hand or in the port's queue.
Drained(s) == sent[s] - Len(ch[s])
Handled(s) == Drained(s) - (IF hand[s] = NoItem THEN 0 ELSE 1) - Len(port[s])

\* As long as the drainer has broken nothing off, what is between producer and
\* handler is exactly the last items sent, in the order they were sent: the ones
\* in the emitter's buffer, before them the one in the drainer's hand, before it
\* the ones in the port.
InOrder(s) ==
    /\ \A i \in 1..Len(ch[s]) : ch[s][i] = Drained(s) + i
    /\ hand[s] # NoItem => hand[s] = Drained(s)
    /\ \A i \in 1..Len(port[s]) : port[s][i].item = Handled(s) + i

\* Send, drain and postMsg neither lose nor overtake.
Pipeline ==
    \A s \in Streams :
        drain[s] \notin {"stop", "unregister", "exited"} /\ streamId[s] # "zero"
            => InOrder(s)

\* An ending is the last message of its stream: the error posted for an item
\* that does not marshal is not followed by items or by a second ending.
NothingAfterEnding ==
    \A s \in Streams : \A i \in 1..Len(port[s]) - 1 : port[s][i].ev = "data"

\* A producer that has not ended and has not been cancelled can still be
\* stopped: its stream is registered, or is being registered, so that
\* CancelStream finds it.
NoOrphanProducer ==
    \A s \in Streams :
        PanicFree(s) /\ prod[s] \in {"ready", "sending"} /\ ~cancelled[s]
            => s \in streams \/ turn[s] = "registering"

\* docs/STREAMING.md, "Cancellation": once openStream has finished, by the
\* subscriber's cancel or by an ending, the producer sees Done() closed unless
\* it has ended by itself, however the cancel races with the drain goroutine.
CancelReachesProducer ==
    \A s \in Streams :
        PanicFree(s) /\ finished[s] /\ prod[s] # "off"
            ~> cancelled[s] \/ prod[s] = "ended"

\* A Close or Fail reaches Dart: openStream finishes, unless the isolate is gone.
EndedStreamFinishes ==
    \A s \in Streams : prod[s] = "ended" ~> finished[s] \/ ~dartAlive

\* docs/STREAMING.md, "Backpressure": a slow subscriber slows the producer
\* through Send rather than growing memory without bound.  The messages waiting
\* at the Dart side would then be bounded like the emitter's own queue.
BacklogBounded == \A s \in Streams : Len(port[s]) <= streamBuffer
=============================================================================
