---------------------------- MODULE StreamProofs ----------------------------
(***************************************************************************)
(* Theorems about Stream, for any number of streams, any capacity of the   *)
(* emitter's buffer and any number of items.                               *)
(*                                                                         *)
(* None of the safety properties is inductive by itself: each depends on   *)
(* where the drain goroutine is.  Stages says, for one stream, what every  *)
(* place of the drain goroutine and of the isolate's turn implies about    *)
(* the other parties; it is preserved together with TypeOK.                *)
(*                                                                         *)
(* That Stream implements StreamContract needs more: ContractInv adds what *)
(* holds around the end of a stream (Ends), and where between producer and *)
(* subscriber each item is while the subscriber still listens (Delivered). *)
(***************************************************************************)
EXTENDS Stream, SequenceTheorems, TLAPS

\* The drain goroutine has the stream and has posted no ending.
Draining(s) == drain[s] \in {"select", "emit", "flush", "emitFlush", "terminal"}

OnlyData(s) == \A i \in 1..Len(port[s]) : port[s][i].ev = "data"

Stages(s) ==
    /\ prod[s] = "sending" => sent[s] < MaxItems
    /\ IF Emitting(s) THEN hand[s] \in Items ELSE hand[s] = NoItem
    /\ res[s] # "none" => prod[s] = "ended"
    /\ drain[s] \in {"flush", "emitFlush", "terminal"}
           => prod[s] = "ended" /\ verdict[s] # "none"
    /\ turn[s] = "registering" => drain[s] = "off" /\ streamId[s] = "unopened"
    /\ streamId[s] = "unopened" => drain[s] = "off"
    /\ streamId[s] = "unopened" /\ turn[s] # "registering" => prod[s] = "off"
    /\ streamId[s] = "zero" => drain[s] = "off" /\ prod[s] = "off"
    /\ streamId[s] = "given" => drain[s] # "off"
    /\ drain[s] \notin {"off", "exited"} => s \in streams
    /\ PanicFree(s) /\ drain[s] \in {"unregister", "exited"}
           => cancelled[s] \/ prod[s] = "ended"
    /\ Draining(s) => OnlyData(s)
    /\ streamId[s] = "unopened" => port[s] = << >>

IInv == TypeOK /\ \A s \in Streams : Stages(s)

-----------------------------------------------------------------------------
USE BufferAssumption, ItemsAssumption, KindsAssumption

\* The empty queue is a queue.
LEMMA NoMessages == << >> \in Seq(Messages)
OBVIOUS

\* What the port handler takes from the queue is an item or an ending, and what
\* stays is a queue.
LEMMA QueuedMessages ==
    ASSUME NEW q \in Seq(Messages), q # << >>
    PROVE  /\ Tail(q) \in Seq(Messages)
           /\ Head(q).ev = "data" => Head(q).item \in Items
           /\ Head(q).ev = "data" \/ Head(q).ev \in Endings
<1>1. Head(q) \in Messages /\ Tail(q) \in Seq(Messages)
    OBVIOUS
<1> QED
    BY <1>1 DEF Messages, Data, Terminal, Endings

\* What the drain goroutine takes from the emitter's buffer is an item, and what
\* stays is a shorter buffer.
LEMMA Taken ==
    ASSUME NEW q \in Seq(Items), q # << >>
    PROVE  Tail(q) \in Seq(Items) /\ Len(Tail(q)) < Len(q) /\ Head(q) \in 0..MaxItems
<1>1. Head(q) \in Items /\ Tail(q) \in Seq(Items) /\ Len(Tail(q)) < Len(q)
    OBVIOUS
<1> QED
    BY <1>1 DEF Items

\* Every step keeps the shape of the variables.
LEMMA TypeStep ==
    ASSUME IInv, [Next]_vars
    PROVE  TypeOK'
<1> USE DEF Goto, prodVars, emitterVars, runtimeVars, portVars, dartVars
<1>0. CASE UNCHANGED vars
    BY <1>0 DEF IInv, TypeOK, vars
<1>1. ASSUME NEW s \in Streams, SendBegin(s) PROVE TypeOK'
    BY <1>1 DEF IInv, TypeOK, SendBegin
<1>2. ASSUME NEW s \in Streams, SendItem(s) PROVE TypeOK'
    <2>1. sent[s] + 1 \in 0..MaxItems /\ sent[s] + 1 \in Items
        BY <1>2 DEF IInv, TypeOK, Stages, SendItem, Items
    <2>2. ch[s] \in Seq(Items) /\ Append(ch[s], sent[s] + 1) \in Seq(Items)
        BY <2>1 DEF IInv, TypeOK
    <2>3. Len(Append(ch[s], sent[s] + 1)) = Len(ch[s]) + 1 /\ Len(ch[s]) \in Nat
        BY <2>1, <2>2, AppendProperties
    <2>4. ch' \in [Streams -> Seq(Items)] /\ \A u \in Streams : Len(ch'[u]) <= streamBuffer
        BY <1>2, <2>2, <2>3 DEF IInv, TypeOK, SendItem
    <2> QED
        BY <1>2, <2>1, <2>4 DEF IInv, TypeOK, SendItem
<1>3. ASSUME NEW s \in Streams, SendCancelled(s) PROVE TypeOK'
    BY <1>3 DEF IInv, TypeOK, SendCancelled
<1>4. ASSUME NEW s \in Streams, EndEmitter(s) PROVE TypeOK'
    <2>1. PICK how \in {"done", "failed"} : res' = [res EXCEPT ![s] = how]
        BY <1>4 DEF EndEmitter
    <2> QED
        BY <1>4, <2>1 DEF IInv, TypeOK, EndEmitter
<1>5. ASSUME NEW s \in Streams, DrainItem(s) \/ FlushItem(s) PROVE TypeOK'
    <2>1. PICK from \in {"select", "flush"}, to \in {"emit", "emitFlush"} : TakeItem(s, from, to)
        BY <1>5 DEF DrainItem, FlushItem
    <2>2. ch[s] \in Seq(Items) /\ ch[s] # << >>
        BY <2>1 DEF IInv, TypeOK, TakeItem
    <2>3. Tail(ch[s]) \in Seq(Items) /\ Len(Tail(ch[s])) < Len(ch[s]) /\ Head(ch[s]) \in 0..MaxItems
        BY <2>2, Taken
    <2>4. Len(Tail(ch[s])) <= streamBuffer
        BY <2>2, <2>3, LenProperties DEF IInv, TypeOK
    <2>5. ch' \in [Streams -> Seq(Items)] /\ \A u \in Streams : Len(ch'[u]) <= streamBuffer
        BY <2>1, <2>3, <2>4 DEF IInv, TypeOK, TakeItem
    <2> QED
        BY <2>1, <2>3, <2>5 DEF IInv, TypeOK, TakeItem
<1>6. ASSUME NEW s \in Streams, DrainResult(s) PROVE TypeOK'
    BY <1>6 DEF IInv, TypeOK, DrainResult
<1>7. ASSUME NEW s \in Streams, DrainCancelled(s) PROVE TypeOK'
    BY <1>7 DEF IInv, TypeOK, DrainCancelled
<1>8. ASSUME NEW s \in Streams, NEW m \in Messages, port' = Posted(s, m)
      PROVE  port' \in [Streams -> Seq(Messages)]
    BY <1>8 DEF IInv, TypeOK, Posted
<1>9. ASSUME NEW s \in Streams, FlushEnd(s) PROVE TypeOK'
    BY <1>9 DEF IInv, TypeOK, FlushEnd
<1>10. ASSUME NEW s \in Streams, EmitItem(s) PROVE TypeOK'
    <2>1. Data(hand[s]) \in Messages
        BY <1>10 DEF IInv, Stages, EmitItem, Messages
    <2>2. port' \in [Streams -> Seq(Messages)]
        BY <1>8, <1>10, <2>1 DEF EmitItem
    <2>3. PICK place \in {"select", "flush", "stop"} : drain' = Goto(drain, s, place)
        BY <1>10 DEF EmitItem, BackToLoop
    <2>4. /\ hand' = [hand EXCEPT ![s] = 0]
          /\ UNCHANGED <<prodVars, emitterVars, streams, verdict, portOpen, dartVars>>
        BY <1>10 DEF EmitItem, NoItem
    <2> QED
        BY <2>2, <2>3, <2>4 DEF IInv, TypeOK
<1>11. ASSUME NEW s \in Streams, EmitUnmarshalable(s) PROVE TypeOK'
    <2>1. Terminal("broken") \in Messages
        BY DEF Messages, Endings
    <2>2. port' \in [Streams -> Seq(Messages)]
        BY <1>8, <1>11, <2>1 DEF EmitUnmarshalable
    <2> QED
        BY <1>11, <2>2 DEF IInv, TypeOK, EmitUnmarshalable, NoItem
<1>12. ASSUME NEW s \in Streams, EmitPanics(s) PROVE TypeOK'
    <2>1. Terminal("broken") \in Messages
        BY DEF Messages, Endings
    <2>2. port' \in [Streams -> Seq(Messages)]
        BY <1>8, <1>12, <2>1 DEF EmitPanics
    <2> QED
        BY <1>12, <2>2 DEF IInv, TypeOK, EmitPanics, NoItem
<1>13. ASSUME NEW s \in Streams, StopProducer(s) PROVE TypeOK'
    BY <1>13 DEF IInv, TypeOK, StopProducer
<1>14. ASSUME NEW s \in Streams, PostEnding(s) PROVE TypeOK'
    <2>1. Terminal(verdict[s]) \in Messages
        <3>1. drain[s] = "terminal" /\ Stages(s)
            BY <1>14 DEF IInv, PostEnding
        <3>2. verdict[s] \in Endings
            BY <3>1 DEF IInv, TypeOK, Stages, Endings
        <3> QED
            BY <3>2 DEF Messages
    <2>2. port' \in [Streams -> Seq(Messages)]
        BY <1>8, <1>14, <2>1 DEF PostEnding
    <2> QED
        BY <1>14, <2>2 DEF IInv, TypeOK, PostEnding
<1>15. ASSUME NEW s \in Streams, Unregister(s) PROVE TypeOK'
    BY <1>15 DEF IInv, TypeOK, Unregister
<1>16. ASSUME NEW s \in Streams, HandleItem(s) PROVE TypeOK'
    <2>1. port[s] \in Seq(Messages) /\ port[s] # << >> /\ Head(port[s]).ev = "data"
        BY <1>16 DEF IInv, TypeOK, HandleItem, HasMessage
    <2>2. Head(port[s]).item \in Items /\ Tail(port[s]) \in Seq(Messages)
        BY <2>1, QueuedMessages
    <2>3. Append(shown[s], Head(port[s]).item) \in Seq(Items)
        BY <2>2 DEF IInv, TypeOK
    <2>4. shown' \in [Streams -> Seq(Items)]
        BY <1>16, <2>3 DEF IInv, TypeOK, HandleItem
    <2>5. port' \in [Streams -> Seq(Messages)]
        BY <1>16, <2>2 DEF IInv, TypeOK, HandleItem
    <2> QED
        BY <1>16, <2>4, <2>5 DEF IInv, TypeOK, HandleItem
<1>17. ASSUME NEW s \in Streams, HandleEnding(s) PROVE TypeOK'
    <2>1. port[s] \in Seq(Messages) /\ port[s] # << >>
        BY <1>17 DEF IInv, TypeOK, HandleEnding, HasMessage
    <2>2. Tail(port[s]) \in Seq(Messages)
        BY <2>1, QueuedMessages
    <2>3. port' \in [Streams -> Seq(Messages)]
        BY <1>17, <2>2 DEF IInv, TypeOK, HandleEnding
    <2> QED
        BY <1>17, <2>3 DEF IInv, TypeOK, HandleEnding, BeginFinish, Endings
<1>18. ASSUME NEW s \in Streams, Register(s) PROVE TypeOK'
    BY <1>18 DEF IInv, TypeOK, Register
<1>19. ASSUME NEW s \in Streams, CancelLookup(s) PROVE TypeOK'
    BY <1>19 DEF IInv, TypeOK, CancelLookup
<1>20. ASSUME NEW s \in Streams, CancelSignal(s) PROVE TypeOK'
    BY <1>20 DEF IInv, TypeOK, CancelSignal
<1>21. ASSUME NEW s \in Streams, ClosePort(s) PROVE TypeOK'
    <2>1. port' \in [Streams -> Seq(Messages)]
        BY <1>21, NoMessages DEF IInv, TypeOK, ClosePort
    <2> QED
        BY <1>21, <2>1 DEF IInv, TypeOK, ClosePort
<1>22. ASSUME NEW s \in Streams, OpenEndsAtOnce(s) PROVE TypeOK'
    <2>1. \A how \in Endings : <<Terminal(how)>> \in Seq(Messages)
        BY DEF Messages
    <2>2. port' \in [Streams -> Seq(Messages)]
        BY <1>22, <2>1 DEF IInv, TypeOK, OpenEndsAtOnce, Endings
    <2> QED
        BY <1>22, <2>2 DEF IInv, TypeOK, OpenEndsAtOnce
<1>23. ASSUME NEW s \in Streams, OpenCalls(s) PROVE TypeOK'
    BY <1>23 DEF IInv, TypeOK, OpenCalls
<1>24. ASSUME NEW s \in Streams, Unsubscribe(s) PROVE TypeOK'
    BY <1>24 DEF IInv, TypeOK, Unsubscribe, BeginFinish
<1>25. CASE IsolateGone
    <2>1. port' \in [Streams -> Seq(Messages)]
        BY <1>25, NoMessages DEF IsolateGone
    <2> QED
        BY <1>25, <2>1 DEF IInv, TypeOK, IsolateGone
<1>26. CASE AllQuiet
    BY <1>26 DEF IInv, TypeOK, AllQuiet, vars
<1> QED
    BY <1>0, <1>1, <1>2, <1>3, <1>4, <1>5, <1>6, <1>7, <1>8, <1>9, <1>10, <1>11, <1>12, <1>13,
       <1>14, <1>15, <1>16, <1>17, <1>18, <1>19, <1>20, <1>21, <1>22, <1>23, <1>24, <1>25,
       <1>26
       DEF Next, Producer, SendReturns, Drainer, Handler, RestOfTurn, Application

\* Every step keeps what is known of a stream at its place.
LEMMA StagesStep ==
    ASSUME IInv, [Next]_vars, NEW u \in Streams
    PROVE  Stages(u)'
<1> USE DEF Items, Endings, Messages, Data, Terminal, NoItem, Goto, prodVars, emitterVars,
        runtimeVars, portVars, dartVars
<1>0. CASE UNCHANGED vars
    BY <1>0 DEF IInv, TypeOK, vars, Stages, Emitting, Draining, OnlyData, PanicFree
<1>1. ASSUME NEW s \in Streams, SendBegin(s) PROVE Stages(u)'
    BY <1>1 DEF IInv, TypeOK, Stages, Emitting, Draining, OnlyData, PanicFree, SendBegin
<1>2. ASSUME NEW s \in Streams, SendItem(s) PROVE Stages(u)'
    BY <1>2 DEF IInv, TypeOK, Stages, Emitting, Draining, OnlyData, PanicFree, SendItem
<1>3. ASSUME NEW s \in Streams, SendCancelled(s) PROVE Stages(u)'
    BY <1>3 DEF IInv, TypeOK, Stages, Emitting, Draining, OnlyData, PanicFree, SendCancelled
<1>4. ASSUME NEW s \in Streams, EndEmitter(s) PROVE Stages(u)'
    BY <1>4 DEF IInv, TypeOK, Stages, Emitting, Draining, OnlyData, PanicFree, EndEmitter
<1>5. ASSUME NEW s \in Streams, DrainItem(s) PROVE Stages(u)'
    BY <1>5
       DEF IInv, TypeOK, Stages, Emitting, Draining, OnlyData, PanicFree, DrainItem, TakeItem
<1>6. ASSUME NEW s \in Streams, DrainResult(s) PROVE Stages(u)'
    BY <1>6 DEF IInv, TypeOK, Stages, Emitting, Draining, OnlyData, PanicFree, DrainResult
<1>7. ASSUME NEW s \in Streams, DrainCancelled(s) PROVE Stages(u)'
    BY <1>7 DEF IInv, TypeOK, Stages, Emitting, Draining, OnlyData, PanicFree, DrainCancelled
<1>8. ASSUME NEW s \in Streams, FlushItem(s) PROVE Stages(u)'
    BY <1>8
       DEF IInv, TypeOK, Stages, Emitting, Draining, OnlyData, PanicFree, FlushItem, TakeItem
<1>9. ASSUME NEW s \in Streams, FlushEnd(s) PROVE Stages(u)'
    BY <1>9 DEF IInv, TypeOK, Stages, Emitting, Draining, OnlyData, PanicFree, FlushEnd
<1>10. ASSUME NEW s \in Streams, EmitItem(s) PROVE Stages(u)'
    BY <1>10
       DEF IInv, TypeOK, Stages, Emitting, Draining, OnlyData, PanicFree, EmitItem, Posted,
           BackToLoop
<1>11. ASSUME NEW s \in Streams, EmitUnmarshalable(s) PROVE Stages(u)'
    BY <1>11
       DEF IInv, TypeOK, Stages, Emitting, Draining, OnlyData, PanicFree, EmitUnmarshalable,
           Posted
<1>12. ASSUME NEW s \in Streams, EmitPanics(s) PROVE Stages(u)'
    BY <1>12
       DEF IInv, TypeOK, Stages, Emitting, Draining, OnlyData, PanicFree, EmitPanics, Posted
<1>13. ASSUME NEW s \in Streams, StopProducer(s) PROVE Stages(u)'
    BY <1>13 DEF IInv, TypeOK, Stages, Emitting, Draining, OnlyData, PanicFree, StopProducer
<1>14. ASSUME NEW s \in Streams, PostEnding(s) PROVE Stages(u)'
    BY <1>14
       DEF IInv, TypeOK, Stages, Emitting, Draining, OnlyData, PanicFree, PostEnding, Posted
<1>15. ASSUME NEW s \in Streams, Unregister(s) PROVE Stages(u)'
    BY <1>15 DEF IInv, TypeOK, Stages, Emitting, Draining, OnlyData, PanicFree, Unregister
<1>16. ASSUME NEW s \in Streams, HandleItem(s) PROVE Stages(u)'
    BY <1>16
       DEF IInv, TypeOK, Stages, Emitting, Draining, OnlyData, PanicFree, HandleItem,
           HasMessage, DartIdle
<1>17. ASSUME NEW s \in Streams, HandleEnding(s) PROVE Stages(u)'
    BY <1>17
       DEF IInv, TypeOK, Stages, Emitting, Draining, OnlyData, PanicFree, HandleEnding,
           HasMessage, DartIdle, BeginFinish
<1>18. ASSUME NEW s \in Streams, Register(s) PROVE Stages(u)'
    BY <1>18 DEF IInv, TypeOK, Stages, Emitting, Draining, OnlyData, PanicFree, Register
<1>19. ASSUME NEW s \in Streams, CancelLookup(s) PROVE Stages(u)'
    BY <1>19 DEF IInv, TypeOK, Stages, Emitting, Draining, OnlyData, PanicFree, CancelLookup
<1>20. ASSUME NEW s \in Streams, CancelSignal(s) PROVE Stages(u)'
    BY <1>20 DEF IInv, TypeOK, Stages, Emitting, Draining, OnlyData, PanicFree, CancelSignal
<1>21. ASSUME NEW s \in Streams, ClosePort(s) PROVE Stages(u)'
    BY <1>21 DEF IInv, TypeOK, Stages, Emitting, Draining, OnlyData, PanicFree, ClosePort
<1>22. ASSUME NEW s \in Streams, OpenEndsAtOnce(s) PROVE Stages(u)'
    BY <1>22
       DEF IInv, TypeOK, Stages, Emitting, Draining, OnlyData, PanicFree, OpenEndsAtOnce,
           Opens, DartIdle
<1>23. ASSUME NEW s \in Streams, OpenCalls(s) PROVE Stages(u)'
    BY <1>23
       DEF IInv, TypeOK, Stages, Emitting, Draining, OnlyData, PanicFree, OpenCalls, Opens,
           DartIdle
<1>24. ASSUME NEW s \in Streams, Unsubscribe(s) PROVE Stages(u)'
    BY <1>24
       DEF IInv, TypeOK, Stages, Emitting, Draining, OnlyData, PanicFree, Unsubscribe,
           DartIdle, BeginFinish
<1>25. CASE IsolateGone
    BY <1>25 DEF IInv, TypeOK, IsolateGone, Stages, Emitting, Draining, OnlyData, PanicFree
<1>26. CASE AllQuiet
    BY <1>26, <1>0 DEF AllQuiet
<1> QED
    BY <1>0, <1>1, <1>2, <1>3, <1>4, <1>5, <1>6, <1>7, <1>8, <1>9, <1>10, <1>11, <1>12, <1>13,
       <1>14, <1>15, <1>16, <1>17, <1>18, <1>19, <1>20, <1>21, <1>22, <1>23, <1>24, <1>25,
       <1>26
       DEF Next, Producer, SendReturns, Drainer, Handler, RestOfTurn, Application

EndingLast(s) == \A i \in 1..Len(port[s]) - 1 : port[s][i].ev = "data"

\* Nothing is posted behind an ending.
LEMMA EndingStep ==
    ASSUME IInv, NothingAfterEnding, [Next]_vars
    PROVE  NothingAfterEnding'
<1> SUFFICES ASSUME NEW u \in Streams PROVE EndingLast(u)'
    BY DEF NothingAfterEnding, EndingLast
<1> USE DEF Items, Endings, Messages, Data, Terminal, NoItem, Goto, prodVars, emitterVars,
        runtimeVars, portVars, dartVars
<1>0. CASE UNCHANGED vars
    BY <1>0 DEF vars, NothingAfterEnding, EndingLast
<1>1. ASSUME NEW s \in Streams, SendBegin(s) PROVE EndingLast(u)'
    BY <1>1
       DEF IInv, TypeOK, Stages, Emitting, Draining, OnlyData, NothingAfterEnding, EndingLast,
           SendBegin
<1>2. ASSUME NEW s \in Streams, SendItem(s) PROVE EndingLast(u)'
    BY <1>2
       DEF IInv, TypeOK, Stages, Emitting, Draining, OnlyData, NothingAfterEnding, EndingLast,
           SendItem
<1>3. ASSUME NEW s \in Streams, SendCancelled(s) PROVE EndingLast(u)'
    BY <1>3
       DEF IInv, TypeOK, Stages, Emitting, Draining, OnlyData, NothingAfterEnding, EndingLast,
           SendCancelled
<1>4. ASSUME NEW s \in Streams, EndEmitter(s) PROVE EndingLast(u)'
    BY <1>4
       DEF IInv, TypeOK, Stages, Emitting, Draining, OnlyData, NothingAfterEnding, EndingLast,
           EndEmitter
<1>5. ASSUME NEW s \in Streams, DrainItem(s) PROVE EndingLast(u)'
    BY <1>5
       DEF IInv, TypeOK, Stages, Emitting, Draining, OnlyData, NothingAfterEnding, EndingLast,
           DrainItem, TakeItem
<1>6. ASSUME NEW s \in Streams, DrainResult(s) PROVE EndingLast(u)'
    BY <1>6
       DEF IInv, TypeOK, Stages, Emitting, Draining, OnlyData, NothingAfterEnding, EndingLast,
           DrainResult
<1>7. ASSUME NEW s \in Streams, DrainCancelled(s) PROVE EndingLast(u)'
    BY <1>7
       DEF IInv, TypeOK, Stages, Emitting, Draining, OnlyData, NothingAfterEnding, EndingLast,
           DrainCancelled
<1>8. ASSUME NEW s \in Streams, FlushItem(s) PROVE EndingLast(u)'
    BY <1>8
       DEF IInv, TypeOK, Stages, Emitting, Draining, OnlyData, NothingAfterEnding, EndingLast,
           FlushItem, TakeItem
<1>9. ASSUME NEW s \in Streams, FlushEnd(s) PROVE EndingLast(u)'
    BY <1>9
       DEF IInv, TypeOK, Stages, Emitting, Draining, OnlyData, NothingAfterEnding, EndingLast,
           FlushEnd
<1>10. ASSUME NEW s \in Streams, EmitItem(s) PROVE EndingLast(u)'
    BY <1>10
       DEF IInv, TypeOK, Stages, Emitting, Draining, OnlyData, NothingAfterEnding, EndingLast,
           EmitItem, Posted, BackToLoop
<1>11. ASSUME NEW s \in Streams, EmitUnmarshalable(s) PROVE EndingLast(u)'
    BY <1>11
       DEF IInv, TypeOK, Stages, Emitting, Draining, OnlyData, NothingAfterEnding, EndingLast,
           EmitUnmarshalable, Posted
<1>12. ASSUME NEW s \in Streams, EmitPanics(s) PROVE EndingLast(u)'
    BY <1>12
       DEF IInv, TypeOK, Stages, Emitting, Draining, OnlyData, NothingAfterEnding, EndingLast,
           EmitPanics, Posted
<1>13. ASSUME NEW s \in Streams, StopProducer(s) PROVE EndingLast(u)'
    BY <1>13
       DEF IInv, TypeOK, Stages, Emitting, Draining, OnlyData, NothingAfterEnding, EndingLast,
           StopProducer
<1>14. ASSUME NEW s \in Streams, PostEnding(s) PROVE EndingLast(u)'
    BY <1>14
       DEF IInv, TypeOK, Stages, Emitting, Draining, OnlyData, NothingAfterEnding, EndingLast,
           PostEnding, Posted
<1>15. ASSUME NEW s \in Streams, Unregister(s) PROVE EndingLast(u)'
    BY <1>15
       DEF IInv, TypeOK, Stages, Emitting, Draining, OnlyData, NothingAfterEnding, EndingLast,
           Unregister
<1>16. ASSUME NEW s \in Streams, HandleItem(s) PROVE EndingLast(u)'
    BY <1>16
       DEF IInv, TypeOK, Stages, Emitting, Draining, OnlyData, NothingAfterEnding, EndingLast,
           HandleItem, HasMessage, DartIdle
<1>17. ASSUME NEW s \in Streams, HandleEnding(s) PROVE EndingLast(u)'
    BY <1>17
       DEF IInv, TypeOK, Stages, Emitting, Draining, OnlyData, NothingAfterEnding, EndingLast,
           HandleEnding, HasMessage, DartIdle, BeginFinish
<1>18. ASSUME NEW s \in Streams, Register(s) PROVE EndingLast(u)'
    BY <1>18
       DEF IInv, TypeOK, Stages, Emitting, Draining, OnlyData, NothingAfterEnding, EndingLast,
           Register
<1>19. ASSUME NEW s \in Streams, CancelLookup(s) PROVE EndingLast(u)'
    BY <1>19
       DEF IInv, TypeOK, Stages, Emitting, Draining, OnlyData, NothingAfterEnding, EndingLast,
           CancelLookup
<1>20. ASSUME NEW s \in Streams, CancelSignal(s) PROVE EndingLast(u)'
    BY <1>20
       DEF IInv, TypeOK, Stages, Emitting, Draining, OnlyData, NothingAfterEnding, EndingLast,
           CancelSignal
<1>21. ASSUME NEW s \in Streams, ClosePort(s) PROVE EndingLast(u)'
    BY <1>21
       DEF IInv, TypeOK, Stages, Emitting, Draining, OnlyData, NothingAfterEnding, EndingLast,
           ClosePort
<1>22. ASSUME NEW s \in Streams, OpenEndsAtOnce(s) PROVE EndingLast(u)'
    BY <1>22
       DEF IInv, TypeOK, Stages, Emitting, Draining, OnlyData, NothingAfterEnding, EndingLast,
           OpenEndsAtOnce, Opens, DartIdle
<1>23. ASSUME NEW s \in Streams, OpenCalls(s) PROVE EndingLast(u)'
    BY <1>23
       DEF IInv, TypeOK, Stages, Emitting, Draining, OnlyData, NothingAfterEnding, EndingLast,
           OpenCalls, Opens, DartIdle
<1>24. ASSUME NEW s \in Streams, Unsubscribe(s) PROVE EndingLast(u)'
    BY <1>24
       DEF IInv, TypeOK, Stages, Emitting, Draining, OnlyData, NothingAfterEnding, EndingLast,
           Unsubscribe, DartIdle, BeginFinish
<1>25. CASE IsolateGone
    BY <1>25 DEF IInv, TypeOK, Stages, IsolateGone, NothingAfterEnding, EndingLast
<1>26. CASE AllQuiet
    BY <1>26, <1>0 DEF AllQuiet
<1> QED
    BY <1>0, <1>1, <1>2, <1>3, <1>4, <1>5, <1>6, <1>7, <1>8, <1>9, <1>10, <1>11, <1>12, <1>13,
       <1>14, <1>15, <1>16, <1>17, <1>18, <1>19, <1>20, <1>21, <1>22, <1>23, <1>24, <1>25,
       <1>26
       DEF Next, Producer, SendReturns, Drainer, Handler, RestOfTurn, Application

\* Where Pipeline speaks of a stream.
Flowing(s) == drain[s] \notin {"stop", "unregister", "exited"} /\ streamId[s] # "zero"

\* Appending leaves the items before in their positions.
LEMMA AppendedItem ==
    ASSUME NEW S, NEW q \in Seq(S), NEW e \in S
    PROVE  /\ Len(Append(q, e)) = Len(q) + 1
           /\ \A i \in 1..Len(q) : Append(q, e)[i] = q[i]
           /\ Append(q, e)[Len(q) + 1] = e
BY AppendProperties

\* Taking the head moves every other item up by one.
LEMMA TailShifts ==
    ASSUME NEW S, NEW q \in Seq(S), q # << >>
    PROVE  /\ Len(q) \in Nat /\ Len(Tail(q)) + 1 = Len(q) /\ 1 \in 1..Len(q)
           /\ Head(q) = q[1] /\ Head(q) \in S /\ Len(Tail(q)) \in Nat
           /\ \A i \in 1..Len(Tail(q)) : Tail(q)[i] = q[i + 1]
BY HeadTailProperties, LenProperties, EmptySeq

\* A stream whose queues are left alone stays in order.
LEMMA OrderUnmoved ==
    ASSUME UNCHANGED <<sent, ch, hand, port>>, NEW s \in Streams, InOrder(s)
    PROVE  InOrder(s)'
BY DEF InOrder, Drained, Handled

\* Taking the oldest item from the buffer into the hand keeps the order.
LEMMA TakeKeepsOrder ==
    ASSUME IInv, Pipeline, NEW s \in Streams, NEW from \in {"select", "flush"}, NEW to,
           TakeItem(s, from, to), Flowing(s)'
    PROVE  InOrder(s)'
<1> USE DEF Items, NoItem
<1>1. Flowing(s) /\ InOrder(s) /\ hand[s] = NoItem
    BY DEF IInv, TypeOK, Stages, Emitting, Flowing, TakeItem, Pipeline
<1>2. ch[s] \in Seq(Items) /\ ch[s] # << >> /\ sent[s] \in Nat /\ Len(port[s]) \in Nat
    BY LenProperties DEF IInv, TypeOK, TakeItem
<1>3. /\ ch'[s] = Tail(ch[s]) /\ hand'[s] = Head(ch[s])
      /\ sent'[s] = sent[s] /\ port'[s] = port[s]
    BY DEF IInv, TypeOK, TakeItem, prodVars, portVars
<1>4. /\ Len(ch[s]) \in Nat /\ Len(ch'[s]) \in Nat
      /\ Len(ch'[s]) + 1 = Len(ch[s]) /\ 1 \in 1..Len(ch[s])
      /\ hand'[s] = ch[s][1] /\ hand'[s] \in Items
      /\ \A i \in 1..Len(ch'[s]) : ch'[s][i] = ch[s][i + 1]
    BY <1>2, <1>3, TailShifts
<1>5. Drained(s)' = Drained(s) + 1 /\ Drained(s) \in Int
    BY <1>2, <1>3, <1>4 DEF Drained
<1>6. hand'[s] = Drained(s)' /\ hand'[s] # NoItem
    BY <1>1, <1>4, <1>5 DEF InOrder
<1>7. Handled(s)' = Handled(s)
    BY <1>1, <1>2, <1>3, <1>5, <1>6 DEF Handled
<1>8. \A i \in 1..Len(ch'[s]) : i + 1 \in 1..Len(ch[s])
    BY <1>4
<1>9. \A i \in 1..Len(ch'[s]) : ch'[s][i] = Drained(s) + (i + 1)
    BY <1>1, <1>4, <1>8 DEF InOrder
<1>10. \A i \in 1..Len(ch'[s]) : ch'[s][i] = Drained(s)' + i
    BY <1>5, <1>9
<1> QED
    BY <1>1, <1>3, <1>6, <1>7, <1>10 DEF InOrder

\* Every step keeps the items between producer and handler in order and without gaps.
LEMMA PipelineStep ==
    ASSUME IInv, Pipeline, [Next]_vars
    PROVE  Pipeline'
<1> SUFFICES ASSUME NEW u \in Streams, Flowing(u)' PROVE InOrder(u)'
    BY DEF Pipeline, Flowing
<1> USE DEF Items, Endings, Messages, Data, Terminal, NoItem, Goto, prodVars, emitterVars,
        runtimeVars, portVars, dartVars
<1>0. CASE UNCHANGED vars
    BY <1>0 DEF vars, Pipeline, InOrder, Drained, Handled, Flowing
<1>1. ASSUME NEW s \in Streams, SendBegin(s) PROVE InOrder(u)'
    BY <1>1
       DEF IInv, TypeOK, Stages, Emitting, Draining, OnlyData, Pipeline, InOrder, Drained,
           Handled, Flowing, SendBegin
<1>2. ASSUME NEW s \in Streams, SendItem(s) PROVE InOrder(u)'
    <2>1. CASE u # s
        BY <1>2, <2>1 DEF IInv, TypeOK, Pipeline, InOrder, Drained, Handled, Flowing, SendItem
    <2>2. CASE u = s
        <3>1. Flowing(s) /\ InOrder(s)
            BY <1>2, <2>2 DEF Flowing, SendItem, Pipeline
        <3>2. ch[s] \in Seq(Items) /\ sent[s] \in Nat /\ sent[s] + 1 \in Items
            BY <1>2 DEF IInv, TypeOK, Stages, SendItem
        <3>3. /\ ch'[s] = Append(ch[s], sent[s] + 1) /\ sent'[s] = sent[s] + 1
              /\ port'[s] = port[s] /\ hand'[s] = hand[s]
            BY <1>2 DEF IInv, TypeOK, SendItem
        <3>4. /\ Len(ch[s]) \in Nat /\ Len(ch'[s]) = Len(ch[s]) + 1
              /\ \A i \in 1..Len(ch[s]) : ch'[s][i] = ch[s][i]
              /\ ch'[s][Len(ch[s]) + 1] = sent[s] + 1
            BY <3>2, <3>3, AppendedItem, LenProperties
        <3>5. Drained(s)' = Drained(s)
            <4>1. sent'[s] = sent[s] + 1 /\ sent[s] \in Nat
                BY <3>2, <3>3
            <4>2. Len(ch[s]) \in Nat /\ Len(ch'[s]) = Len(ch[s]) + 1
                BY <3>4
            <4> QED
                BY <4>1, <4>2 DEF Drained
        <3>9. Handled(s)' = Handled(s)
            BY <3>3, <3>5 DEF Handled
        <3>6. ch'[s][Len(ch'[s])] = Drained(s) + Len(ch'[s])
            BY <3>2, <3>3, <3>4 DEF Drained
        <3>7. \A i \in 1..Len(ch'[s]) : i \in 1..Len(ch[s]) \/ i = Len(ch'[s])
            BY <3>4
        <3>8. \A i \in 1..Len(ch'[s]) : ch'[s][i] = Drained(s) + i
            BY <3>1, <3>4, <3>6, <3>7 DEF InOrder
        <3> QED
            BY <2>2, <3>1, <3>3, <3>5, <3>8, <3>9 DEF InOrder
    <2> QED
        BY <2>1, <2>2
<1>3. ASSUME NEW s \in Streams, SendCancelled(s) PROVE InOrder(u)'
    BY <1>3
       DEF IInv, TypeOK, Stages, Emitting, Draining, OnlyData, Pipeline, InOrder, Drained,
           Handled, Flowing, SendCancelled
<1>4. ASSUME NEW s \in Streams, EndEmitter(s) PROVE InOrder(u)'
    BY <1>4
       DEF IInv, TypeOK, Stages, Emitting, Draining, OnlyData, Pipeline, InOrder, Drained,
           Handled, Flowing, EndEmitter
<1>5. ASSUME NEW s \in Streams, DrainItem(s) PROVE InOrder(u)'
    <2>1. CASE u # s
        BY <1>5, <2>1
           DEF IInv, TypeOK, Pipeline, InOrder, Drained, Handled, Flowing, DrainItem, TakeItem
    <2>2. CASE u = s
        BY <1>5, <2>2, TakeKeepsOrder DEF DrainItem
    <2> QED
        BY <2>1, <2>2
<1>6. ASSUME NEW s \in Streams, DrainResult(s) PROVE InOrder(u)'
    <2>1. Flowing(u) /\ UNCHANGED <<sent, ch, hand, port>>
        BY <1>6 DEF IInv, TypeOK, Flowing, DrainResult
    <2> QED
        BY <2>1, OrderUnmoved DEF Pipeline, Flowing
<1>7. ASSUME NEW s \in Streams, DrainCancelled(s) PROVE InOrder(u)'
    BY <1>7
       DEF IInv, TypeOK, Stages, Emitting, Draining, OnlyData, Pipeline, InOrder, Drained,
           Handled, Flowing, DrainCancelled
<1>8. ASSUME NEW s \in Streams, FlushItem(s) PROVE InOrder(u)'
    <2>1. CASE u # s
        BY <1>8, <2>1
           DEF IInv, TypeOK, Pipeline, InOrder, Drained, Handled, Flowing, FlushItem, TakeItem
    <2>2. CASE u = s
        BY <1>8, <2>2, TakeKeepsOrder DEF FlushItem
    <2> QED
        BY <2>1, <2>2
<1>9. ASSUME NEW s \in Streams, FlushEnd(s) PROVE InOrder(u)'
    <2>1. Flowing(u) /\ UNCHANGED <<sent, ch, hand, port>>
        BY <1>9 DEF IInv, TypeOK, Flowing, FlushEnd
    <2> QED
        BY <2>1, OrderUnmoved DEF Pipeline, Flowing
<1>10. ASSUME NEW s \in Streams, EmitItem(s) PROVE InOrder(u)'
    <2>1. CASE u # s
        BY <1>10, <2>1
           DEF IInv, TypeOK, Pipeline, InOrder, Drained, Handled, Flowing, EmitItem, Posted
    <2>2. CASE u = s
        <3>1. Flowing(s) /\ InOrder(s) /\ Emitting(s) /\ portOpen[s]
            BY <1>10, <2>2 DEF IInv, TypeOK, Stages, Emitting, Flowing, EmitItem, Pipeline
        <3>2. /\ port[s] \in Seq(Messages) /\ hand[s] \in Items /\ Data(hand[s]) \in Messages
              /\ Drained(s) \in Int
            BY <3>1, LenProperties DEF IInv, TypeOK, Stages, Drained
        <3>3. /\ port'[s] = Append(port[s], Data(hand[s])) /\ hand'[s] = NoItem
              /\ ch'[s] = ch[s] /\ sent'[s] = sent[s]
            BY <1>10, <3>1 DEF IInv, TypeOK, EmitItem, Posted
        <3>4. /\ Len(port[s]) \in Nat /\ Len(port'[s]) = Len(port[s]) + 1
              /\ \A i \in 1..Len(port[s]) : port'[s][i] = port[s][i]
              /\ port'[s][Len(port[s]) + 1].item = hand[s]
            BY <3>2, <3>3, AppendedItem, LenProperties
        <3>5. Drained(s)' = Drained(s)
            BY <3>3 DEF Drained
        <3>6. Handled(s)' = Handled(s) /\ hand[s] = Handled(s) + Len(port'[s])
            BY <3>1, <3>2, <3>3, <3>4, <3>5 DEF Handled, InOrder
        <3>7. \A i \in 1..Len(port'[s]) : i \in 1..Len(port[s]) \/ i = Len(port'[s])
            BY <3>4
        <3>8. \A i \in 1..Len(port'[s]) : port'[s][i].item = Handled(s) + i
            BY <3>1, <3>4, <3>6, <3>7 DEF InOrder
        <3> QED
            BY <2>2, <3>1, <3>3, <3>5, <3>6, <3>8 DEF InOrder
    <2> QED
        BY <2>1, <2>2
<1>11. ASSUME NEW s \in Streams, EmitUnmarshalable(s) PROVE InOrder(u)'
    BY <1>11
       DEF IInv, TypeOK, Stages, Emitting, Draining, OnlyData, Pipeline, InOrder, Drained,
           Handled, Flowing, EmitUnmarshalable, Posted
<1>12. ASSUME NEW s \in Streams, EmitPanics(s) PROVE InOrder(u)'
    BY <1>12
       DEF IInv, TypeOK, Stages, Emitting, Draining, OnlyData, Pipeline, InOrder, Drained,
           Handled, Flowing, EmitPanics, Posted
<1>13. ASSUME NEW s \in Streams, StopProducer(s) PROVE InOrder(u)'
    BY <1>13
       DEF IInv, TypeOK, Stages, Emitting, Draining, OnlyData, Pipeline, InOrder, Drained,
           Handled, Flowing, StopProducer
<1>14. ASSUME NEW s \in Streams, PostEnding(s) PROVE InOrder(u)'
    BY <1>14
       DEF IInv, TypeOK, Stages, Emitting, Draining, OnlyData, Pipeline, InOrder, Drained,
           Handled, Flowing, PostEnding, Posted
<1>15. ASSUME NEW s \in Streams, Unregister(s) PROVE InOrder(u)'
    BY <1>15
       DEF IInv, TypeOK, Stages, Emitting, Draining, OnlyData, Pipeline, InOrder, Drained,
           Handled, Flowing, Unregister
<1>16. ASSUME NEW s \in Streams, HandleItem(s) PROVE InOrder(u)'
    <2>1. CASE u # s
        BY <1>16, <2>1
           DEF IInv, TypeOK, Pipeline, InOrder, Drained, Handled, Flowing, HandleItem
    <2>2. CASE u = s
        <3>1. Flowing(s) /\ InOrder(s)
            BY <1>16, <2>2 DEF Flowing, HandleItem, Pipeline
        <3>2. port[s] \in Seq(Messages) /\ port[s] # << >> /\ Drained(s) \in Int
            BY <1>16, LenProperties DEF HandleItem, HasMessage, IInv, TypeOK, Drained
        <3>3. /\ port'[s] = Tail(port[s]) /\ hand'[s] = hand[s] /\ ch'[s] = ch[s]
              /\ sent'[s] = sent[s]
            BY <1>16 DEF IInv, TypeOK, HandleItem
        <3>4. /\ Len(port[s]) \in Nat /\ Len(port'[s]) \in Nat
              /\ Len(port'[s]) + 1 = Len(port[s])
              /\ \A i \in 1..Len(port'[s]) : port'[s][i] = port[s][i + 1]
            BY <3>2, <3>3, TailShifts
        <3>5. Drained(s)' = Drained(s) /\ Handled(s)' = Handled(s) + 1 /\ Handled(s) \in Int
            BY <3>2, <3>3, <3>4 DEF Drained, Handled
        <3>6. \A i \in 1..Len(port'[s]) : i + 1 \in 1..Len(port[s])
            BY <3>4
        <3>7. \A i \in 1..Len(port'[s]) : port'[s][i].item = Handled(s) + (i + 1)
            BY <3>1, <3>4, <3>6 DEF InOrder
        <3>8. \A i \in 1..Len(port'[s]) : port'[s][i].item = Handled(s)' + i
            BY <3>5, <3>7
        <3> QED
            BY <2>2, <3>1, <3>3, <3>5, <3>8 DEF InOrder
    <2> QED
        BY <2>1, <2>2
<1>17. ASSUME NEW s \in Streams, HandleEnding(s) PROVE InOrder(u)'
    <2>1. CASE u # s
        BY <1>17, <2>1
           DEF IInv, TypeOK, Pipeline, InOrder, Drained, Handled, Flowing, HandleEnding,
               BeginFinish
    <2>2. CASE u = s
        <3>1. port[s] \in Seq(Messages) /\ port[s] # << >> /\ Head(port[s]).ev # "data"
            BY <1>17 DEF IInv, TypeOK, HandleEnding, HasMessage
        <3>2. ~OnlyData(s)
            BY <3>1, TailShifts DEF OnlyData
        <3>3. Flowing(s)
            BY <1>17, <2>2 DEF Flowing, HandleEnding
        <3>4. Draining(s)
            BY <3>1, <3>3 DEF IInv, TypeOK, Stages, Flowing, Draining
        <3> QED
            BY <3>2, <3>4 DEF IInv, Stages
    <2> QED
        BY <2>1, <2>2
<1>18. ASSUME NEW s \in Streams, Register(s) PROVE InOrder(u)'
    BY <1>18
       DEF IInv, TypeOK, Stages, Emitting, Draining, OnlyData, Pipeline, InOrder, Drained,
           Handled, Flowing, Register
<1>19. ASSUME NEW s \in Streams, CancelLookup(s) PROVE InOrder(u)'
    BY <1>19
       DEF IInv, TypeOK, Stages, Emitting, Draining, OnlyData, Pipeline, InOrder, Drained,
           Handled, Flowing, CancelLookup
<1>20. ASSUME NEW s \in Streams, CancelSignal(s) PROVE InOrder(u)'
    BY <1>20
       DEF IInv, TypeOK, Stages, Emitting, Draining, OnlyData, Pipeline, InOrder, Drained,
           Handled, Flowing, CancelSignal
<1>21. ASSUME NEW s \in Streams, ClosePort(s) PROVE InOrder(u)'
    BY <1>21
       DEF IInv, TypeOK, Stages, Emitting, Draining, OnlyData, Pipeline, InOrder, Drained,
           Handled, Flowing, ClosePort
<1>22. ASSUME NEW s \in Streams, OpenEndsAtOnce(s) PROVE InOrder(u)'
    BY <1>22
       DEF IInv, TypeOK, Stages, Emitting, Draining, OnlyData, Pipeline, InOrder, Drained,
           Handled, Flowing, OpenEndsAtOnce, Opens, DartIdle
<1>23. ASSUME NEW s \in Streams, OpenCalls(s) PROVE InOrder(u)'
    BY <1>23
       DEF IInv, TypeOK, Stages, Emitting, Draining, OnlyData, Pipeline, InOrder, Drained,
           Handled, Flowing, OpenCalls, Opens, DartIdle
<1>24. ASSUME NEW s \in Streams, Unsubscribe(s) PROVE InOrder(u)'
    BY <1>24
       DEF IInv, TypeOK, Stages, Emitting, Draining, OnlyData, Pipeline, InOrder, Drained,
           Handled, Flowing, Unsubscribe, DartIdle, BeginFinish
<1>25. CASE IsolateGone
    BY <1>25 DEF IInv, TypeOK, Stages, IsolateGone, Pipeline, InOrder, Drained, Handled, Flowing
<1>26. CASE AllQuiet
    BY <1>26, <1>0 DEF AllQuiet
<1> QED
    BY <1>0, <1>1, <1>2, <1>3, <1>4, <1>5, <1>6, <1>7, <1>8, <1>9, <1>10, <1>11, <1>12, <1>13,
       <1>14, <1>15, <1>16, <1>17, <1>18, <1>19, <1>20, <1>21, <1>22, <1>23, <1>24, <1>25,
       <1>26
       DEF Next, Producer, SendReturns, Drainer, Handler, RestOfTurn, Application

-----------------------------------------------------------------------------
\* At the start all queues are empty.
LEMMA Start == Init => IInv /\ NothingAfterEnding /\ Pipeline
<1> SUFFICES ASSUME Init PROVE IInv /\ NothingAfterEnding /\ Pipeline
    OBVIOUS
<1>1. TypeOK
    BY DEF Init, TypeOK, Items, Endings, NoItem
<1>2. \A s \in Streams : Stages(s)
    BY DEF Init, Stages, Emitting, Draining, NoItem
<1>3. NothingAfterEnding
    BY DEF Init, NothingAfterEnding
<1>4. Pipeline
    BY DEF Init, Pipeline, InOrder, NoItem
<1> QED
    BY <1>1, <1>2, <1>3, <1>4 DEF IInv

\* What is known of each place of a stream holds at all times.
THEOREM Invariance == Spec => []IInv
<1>1. IInv /\ [Next]_vars => IInv'
    BY TypeStep, StagesStep DEF IInv
<1> QED
    BY Start, <1>1, PTL DEF Spec

\* Every variable of the channel keeps its shape, for every interleaving of
\* producers, drainers and the isolate; the buffer never exceeds streamBuffer.
THEOREM TypeCorrect == Spec => []TypeOK
<1>1. IInv => TypeOK
    BY DEF IInv
<1> QED
    BY Invariance, <1>1, PTL

\* Nothing is ever posted behind an ending (postMsg and the goroutine of
\* DispatchStream): the Dart handler that closes its port on an ending drops nothing.
THEOREM EndingIsLast == Spec => []NothingAfterEnding
<1>1. IInv /\ NothingAfterEnding /\ [Next]_vars => NothingAfterEnding'
    BY EndingStep
<1> QED
    BY Start, Invariance, <1>1, PTL DEF Spec

\* Send, drain and postMsg keep the items of every stream in order and without
\* gaps between the producer and the port handler.
THEOREM DeliveryInOrder == Spec => []Pipeline
<1>1. IInv /\ Pipeline /\ [Next]_vars => Pipeline'
    BY PipelineStep
<1> QED
    BY Start, Invariance, <1>1, PTL DEF Spec

\* Unless marshalling panics, a producer that is still running can be reached by
\* CancelStream or has already been cancelled: it is never forgotten.
THEOREM ProducersStoppable == Spec => []NoOrphanProducer
<1>1. IInv => NoOrphanProducer
    BY DEF IInv, TypeOK, Stages, NoOrphanProducer
<1> QED
    BY Invariance, <1>1, PTL

-----------------------------------------------------------------------------
Live(s) == dartAlive /\ ~finished[s]

\* Messages that tell the subscriber that everything was delivered.
AllDone(m) == m.ev \in {"done", "failed"}
AllDoneQueued(s) == \E i \in 1..Len(port[s]) : AllDone(port[s][i])

Closing(s) == turn[s] \in {"cancelling", "signalling", "closing"}

\* What the contract needs of the ends of a stream: nothing is sent once the subscriber
\* was, or is about to be, told that all is done, and no finished stream is handled.
Ends(s) ==
    /\ prod[s] = "off" => sent[s] = 0
    /\ drain[s] = "terminal" => ch[s] = << >>
    /\ ending[s] # "none" => finished[s]
    /\ streamId[s] = "unopened" => ~finished[s]
    /\ Closing(s) => finished[s]
    /\ finished[s] /\ portOpen[s] => Closing(s) \/ ~dartAlive
    /\ ending[s] \in {"done", "failed"} \/ AllDoneQueued(s) => prod[s] \in {"off", "ended"}

\* Every step keeps what the contract needs of the ends of a stream.
LEMMA EndsStep ==
    ASSUME IInv, \A s \in Streams : Ends(s), [Next]_vars, NEW u \in Streams
    PROVE  Ends(u)'
<1> USE DEF Items, Endings, NoItem, Goto, prodVars, emitterVars, runtimeVars, portVars, dartVars
<1>0. CASE UNCHANGED vars
    BY <1>0 DEF vars, Ends, AllDoneQueued, Closing
<1>1. ASSUME NEW s \in Streams, SendBegin(s) PROVE Ends(u)'
    BY <1>1 DEF IInv, TypeOK, Stages, Ends, AllDoneQueued, Closing, SendBegin
<1>2. ASSUME NEW s \in Streams, SendItem(s) PROVE Ends(u)'
    BY <1>2 DEF IInv, TypeOK, Stages, Ends, AllDoneQueued, Closing, SendItem
<1>3. ASSUME NEW s \in Streams, SendCancelled(s) PROVE Ends(u)'
    BY <1>3 DEF IInv, TypeOK, Stages, Ends, AllDoneQueued, Closing, SendCancelled
<1>4. ASSUME NEW s \in Streams, EndEmitter(s) PROVE Ends(u)'
    BY <1>4 DEF IInv, TypeOK, Stages, Ends, AllDoneQueued, Closing, EndEmitter
<1>5. ASSUME NEW s \in Streams, DrainItem(s) PROVE Ends(u)'
    BY <1>5 DEF IInv, TypeOK, Stages, Ends, AllDoneQueued, Closing, DrainItem, TakeItem
<1>6. ASSUME NEW s \in Streams, DrainResult(s) PROVE Ends(u)'
    BY <1>6 DEF IInv, TypeOK, Stages, Ends, AllDoneQueued, Closing, DrainResult
<1>7. ASSUME NEW s \in Streams, DrainCancelled(s) PROVE Ends(u)'
    BY <1>7 DEF IInv, TypeOK, Stages, Ends, AllDoneQueued, Closing, DrainCancelled
<1>8. ASSUME NEW s \in Streams, FlushItem(s) PROVE Ends(u)'
    BY <1>8 DEF IInv, TypeOK, Stages, Ends, AllDoneQueued, Closing, FlushItem, TakeItem
<1>9. ASSUME NEW s \in Streams, FlushEnd(s) PROVE Ends(u)'
    BY <1>9 DEF IInv, TypeOK, Stages, Ends, AllDoneQueued, Closing, FlushEnd
<1>10. ASSUME NEW s \in Streams, NEW m \in Messages, port' = Posted(s, m),
              AllDone(m) => prod[s] \in {"off", "ended"}
       PROVE  AllDoneQueued(u)' => AllDoneQueued(u) \/ prod[u] \in {"off", "ended"}
    <2>1. CASE port'[u] = port[u]
        BY <2>1 DEF AllDoneQueued
    <2>2. CASE port'[u] = Append(port[u], m) /\ u = s
        <3>1. /\ Len(port[u]) \in Nat /\ Len(port'[u]) = Len(port[u]) + 1
              /\ \A i \in 1..Len(port[u]) : port'[u][i] = port[u][i]
              /\ port'[u][Len(port[u]) + 1] = m
            BY <2>2, AppendedItem, LenProperties DEF IInv, TypeOK
        <3>2. \A i \in 1..Len(port'[u]) : i \in 1..Len(port[u]) \/ i = Len(port[u]) + 1
            BY <3>1
        <3> QED
            BY <1>10, <2>2, <3>1, <3>2 DEF AllDoneQueued
    <2> QED
        BY <1>10, <2>1, <2>2 DEF Posted, IInv, TypeOK
<1>11. ASSUME NEW s \in Streams, EmitItem(s) PROVE Ends(u)'
    <2>1. Data(hand[s]) \in Messages /\ ~AllDone(Data(hand[s]))
        BY <1>11 DEF IInv, Stages, EmitItem, Messages, Data, AllDone
    <2>2. AllDoneQueued(u)' => AllDoneQueued(u) \/ prod[u] \in {"off", "ended"}
        BY <1>10, <1>11, <2>1 DEF EmitItem
    <2> QED
        BY <1>11, <2>2 DEF IInv, TypeOK, Stages, Ends, Closing, EmitItem, Emitting, BackToLoop
<1>12. ASSUME NEW s \in Streams, EmitUnmarshalable(s) PROVE Ends(u)'
    <2>1. Terminal("broken") \in Messages /\ ~AllDone(Terminal("broken"))
        BY DEF Messages, Terminal, AllDone
    <2>2. AllDoneQueued(u)' => AllDoneQueued(u) \/ prod[u] \in {"off", "ended"}
        BY <1>10, <1>12, <2>1 DEF EmitUnmarshalable
    <2> QED
        BY <1>12, <2>2 DEF IInv, TypeOK, Stages, Ends, Closing, EmitUnmarshalable
<1>13. ASSUME NEW s \in Streams, EmitPanics(s) PROVE Ends(u)'
    <2>1. Terminal("broken") \in Messages /\ ~AllDone(Terminal("broken"))
        BY DEF Messages, Terminal, AllDone
    <2>2. AllDoneQueued(u)' => AllDoneQueued(u) \/ prod[u] \in {"off", "ended"}
        BY <1>10, <1>13, <2>1 DEF EmitPanics
    <2> QED
        BY <1>13, <2>2 DEF IInv, TypeOK, Stages, Ends, Closing, EmitPanics
<1>14. ASSUME NEW s \in Streams, PostEnding(s) PROVE Ends(u)'
    <2>1. prod[s] = "ended" /\ Terminal(verdict[s]) \in Messages
        BY <1>14 DEF IInv, TypeOK, Stages, PostEnding, Messages
    <2>2. AllDoneQueued(u)' => AllDoneQueued(u) \/ prod[u] \in {"off", "ended"}
        BY <1>10, <1>14, <2>1 DEF PostEnding
    <2> QED
        BY <1>14, <2>2 DEF IInv, TypeOK, Stages, Ends, Closing, PostEnding
<1>15. ASSUME NEW s \in Streams, StopProducer(s) PROVE Ends(u)'
    BY <1>15 DEF IInv, TypeOK, Stages, Ends, AllDoneQueued, Closing, StopProducer
<1>16. ASSUME NEW s \in Streams, Unregister(s) PROVE Ends(u)'
    BY <1>16 DEF IInv, TypeOK, Stages, Ends, AllDoneQueued, Closing, Unregister
<1>17. ASSUME NEW s \in Streams, port[s] # << >>, port' = [port EXCEPT ![s] = Tail(@)]
       PROVE  /\ AllDoneQueued(u)' => AllDoneQueued(u)
              /\ AllDone(Head(port[s])) => AllDoneQueued(s)
    <2>1. /\ Len(port[s]) \in Nat /\ Len(Tail(port[s])) + 1 = Len(port[s]) /\ 1 \in 1..Len(port[s])
          /\ Head(port[s]) = port[s][1] /\ Len(Tail(port[s])) \in Nat
          /\ \A i \in 1..Len(Tail(port[s])) : Tail(port[s])[i] = port[s][i + 1]
        BY <1>17, TailShifts DEF IInv, TypeOK
    <2>2. \A i \in 1..Len(Tail(port[s])) : i + 1 \in 1..Len(port[s])
        BY <2>1
    <2>3. AllDone(Head(port[s])) => AllDoneQueued(s)
        BY <2>1 DEF AllDoneQueued
    <2>4. CASE u = s
        <3>1. port'[s] = Tail(port[s])
            BY <1>17 DEF IInv, TypeOK
        <3> QED
            BY <2>1, <2>2, <2>3, <2>4, <3>1 DEF AllDoneQueued
    <2>5. CASE u # s
        BY <1>17, <2>3, <2>5 DEF IInv, TypeOK, AllDoneQueued
    <2> QED
        BY <2>4, <2>5
<1>18. ASSUME NEW s \in Streams, HandleItem(s) PROVE Ends(u)'
    BY <1>17, <1>18 DEF IInv, TypeOK, Stages, Ends, Closing, HandleItem, HasMessage
<1>19. ASSUME NEW s \in Streams, HandleEnding(s) PROVE Ends(u)'
    <2>1. AllDone(Head(port[s])) => prod[s] \in {"off", "ended"}
        BY <1>17, <1>19 DEF Ends, HandleEnding, HasMessage
    <2>2. AllDoneQueued(u)' => AllDoneQueued(u)
        BY <1>17, <1>19 DEF HandleEnding, HasMessage
    <2>3. streamId[s] # "unopened"
        BY <1>19 DEF IInv, Stages, HandleEnding, HasMessage
    <2> QED
        BY <1>19, <2>1, <2>2, <2>3
           DEF IInv, TypeOK, Ends, Closing, HandleEnding, HasMessage, DartIdle, BeginFinish, AllDone
<1>20. ASSUME NEW s \in Streams, Register(s) PROVE Ends(u)'
    <2>1. streamId[s] = "unopened"
        BY <1>20 DEF IInv, Stages, Register
    <2>2. ~finished[s] /\ Ends(u)
        BY <2>1 DEF Ends
    <2> QED
        BY <1>20, <2>2 DEF IInv, TypeOK, Ends, AllDoneQueued, Closing, Register
<1>21. ASSUME NEW s \in Streams, CancelLookup(s) PROVE Ends(u)'
    BY <1>21 DEF IInv, TypeOK, Stages, Ends, AllDoneQueued, Closing, CancelLookup
<1>22. ASSUME NEW s \in Streams, CancelSignal(s) PROVE Ends(u)'
    BY <1>22 DEF IInv, TypeOK, Stages, Ends, AllDoneQueued, Closing, CancelSignal
<1>23. ASSUME NEW s \in Streams, ClosePort(s) PROVE Ends(u)'
    BY <1>23 DEF IInv, TypeOK, Stages, Ends, AllDoneQueued, Closing, ClosePort
<1>24. ASSUME NEW s \in Streams, OpenEndsAtOnce(s) PROVE Ends(u)'
    <2>1. prod[s] = "off" /\ ~finished[s] /\ Ends(u)
        BY <1>24 DEF IInv, Stages, Ends, OpenEndsAtOnce, Opens, DartIdle
    <2>2. u # s => port'[u] = port[u]
        BY <1>24 DEF IInv, TypeOK, OpenEndsAtOnce
    <2>3. u # s => (AllDoneQueued(u)' => AllDoneQueued(u))
        BY <2>2 DEF AllDoneQueued
    <2> QED
        BY <1>24, <2>1, <2>3
           DEF IInv, TypeOK, Ends, Closing, OpenEndsAtOnce, Opens, DartIdle
<1>25. ASSUME NEW s \in Streams, OpenCalls(s) PROVE Ends(u)'
    BY <1>25 DEF IInv, TypeOK, Stages, Ends, AllDoneQueued, Closing, OpenCalls, Opens, DartIdle
<1>26. ASSUME NEW s \in Streams, Unsubscribe(s) PROVE Ends(u)'
    BY <1>26
       DEF IInv, TypeOK, Stages, Ends, AllDoneQueued, Closing, Unsubscribe, DartIdle, BeginFinish
<1>27. CASE IsolateGone
    BY <1>27 DEF IInv, TypeOK, Stages, Ends, AllDoneQueued, Closing, IsolateGone
<1>28. CASE AllQuiet
    BY <1>28, <1>0 DEF AllQuiet
<1> QED
    BY <1>0, <1>1, <1>2, <1>3, <1>4, <1>5, <1>6, <1>7, <1>8, <1>9, <1>11, <1>12, <1>13,
       <1>14, <1>15, <1>16, <1>18, <1>19, <1>20, <1>21, <1>22, <1>23, <1>24, <1>25, <1>26,
       <1>27, <1>28
       DEF Next, Producer, SendReturns, Drainer, Handler, RestOfTurn, Application

-----------------------------------------------------------------------------
\* The first h items of a stream are dealt with: shown, or skipped because the Dart side
\* could not decode them.  What the port holds begins with the next one, and an ending that
\* says all is done stands behind the last item sent.
DealtWith(s, h) ==
    /\ Contract!LastShown(s) <= h
    /\ \A m \in Contract!LastShown(s) + 1 .. h : kind[s][m] = "undecodable"
    /\ \A i \in 1..Len(port[s]) :
        /\ port[s][i].ev = "data" =>
            /\ port[s][i].item = h + i /\ h + i <= sent[s]
            /\ kind[s][h + i] \in {"plain", "undecodable"}
        /\ AllDone(port[s][i]) => h + i = sent[s] + 1
    /\ Flowing(s) => h = Handled(s)

Delivered(s) == Live(s) => \E h \in 0..sent[s] : DealtWith(s, h)

\* A step leaves alone what DealtWith speaks of: at most one more item is sent.
Still(s) ==
    /\ kind'[s] = kind[s] /\ shown'[s] = shown[s] /\ port'[s] = port[s]
    /\ sent'[s] = sent[s] \/ (sent'[s] = sent[s] + 1 /\ ~AllDoneQueued(s))
    /\ Live(s)' => Live(s)
    /\ Flowing(s)' => Flowing(s) /\ Handled(s)' = Handled(s)

\* A stream that is left alone, but for an item sent, has had delivered what it had.
LEMMA StillDelivered ==
    ASSUME TypeOK, NEW s \in Streams, Delivered(s), Still(s)
    PROVE  Delivered(s)'
<1> SUFFICES ASSUME Live(s)' PROVE \E h \in 0..sent'[s] : DealtWith(s, h)'
    BY DEF Delivered
<1>1. PICK h \in 0..sent[s] : DealtWith(s, h)
    BY DEF Still, Delivered
<1>2. sent[s] \in Nat /\ h \in 0..sent'[s] /\ h \in Nat /\ Len(port[s]) \in Nat
    BY LenProperties DEF TypeOK, Still
<1>3. Contract!LastShown(s)' = Contract!LastShown(s)
    BY DEF Still, Contract!LastShown
<1>4. ASSUME NEW i \in 1..Len(port[s]), port[s][i].ev = "data" PROVE h + i <= sent'[s]
    BY <1>1, <1>2, <1>4 DEF DealtWith, Still
<1>5. ASSUME NEW i \in 1..Len(port[s]), AllDone(port[s][i]) PROVE h + i = sent'[s] + 1
    BY <1>1, <1>5 DEF DealtWith, Still, AllDoneQueued
<1>6. Flowing(s)' => h = Handled(s)'
    BY <1>1 DEF DealtWith, Still
<1>7. DealtWith(s, h)'
    BY <1>1, <1>3, <1>4, <1>5, <1>6 DEF DealtWith, Still
<1> QED
    BY <1>2, <1>7

\* A message is posted behind the others: the item that follows, the ending behind all
\* items sent, or an error of the runtime.
LEMMA PostedDelivered ==
    ASSUME TypeOK, NEW s \in Streams, NEW m \in Messages, Delivered(s), Live(s)' => Live(s),
           kind'[s] = kind[s], shown'[s] = shown[s], sent'[s] = sent[s],
           port'[s] = Append(port[s], m),
           Flowing(s)' => Flowing(s) /\ Handled(s)' = Handled(s),
           m.ev = "data" =>
               /\ Flowing(s) /\ m.item = Handled(s) + Len(port[s]) + 1 /\ m.item <= sent[s]
               /\ kind[s][m.item] \in {"plain", "undecodable"},
           AllDone(m) => Flowing(s) /\ Handled(s) + Len(port[s]) = sent[s]
    PROVE  Delivered(s)'
<1> SUFFICES ASSUME Live(s)' PROVE \E h \in 0..sent'[s] : DealtWith(s, h)'
    BY DEF Delivered
<1>1. PICK h \in 0..sent[s] : DealtWith(s, h)
    BY DEF Delivered
<1>2. sent[s] \in Nat /\ h \in 0..sent'[s] /\ h \in Nat
    BY DEF TypeOK
<1>3. Contract!LastShown(s)' = Contract!LastShown(s)
    BY DEF Contract!LastShown
<1>4. /\ Len(port[s]) \in Nat /\ Len(port'[s]) = Len(port[s]) + 1
      /\ \A i \in 1..Len(port[s]) : port'[s][i] = port[s][i]
      /\ port'[s][Len(port[s]) + 1] = m
    BY AppendedItem, LenProperties DEF TypeOK
<1>5. ASSUME NEW i \in 1..Len(port'[s])
      PROVE  /\ port'[s][i].ev = "data" =>
                 /\ port'[s][i].item = h + i /\ h + i <= sent[s]
                 /\ kind[s][h + i] \in {"plain", "undecodable"}
             /\ AllDone(port'[s][i]) => h + i = sent[s] + 1
    <2>1. CASE i \in 1..Len(port[s])
        BY <1>1, <1>4, <2>1 DEF DealtWith
    <2>2. CASE i = Len(port[s]) + 1
        <3>1. port'[s][i] = m
            BY <1>4, <2>2
        <3>2. Flowing(s) => h = Handled(s)
            BY <1>1 DEF DealtWith
        <3> QED
            BY <1>2, <1>4, <2>2, <3>1, <3>2
    <2> QED
        BY <1>4, <2>1, <2>2
<1>6. Flowing(s)' => h = Handled(s)'
    BY <1>1 DEF DealtWith
<1>7. DealtWith(s, h)'
    BY <1>1, <1>3, <1>5, <1>6 DEF DealtWith, AllDone
<1> QED
    BY <1>2, <1>7

\* The handler takes the next item: it is shown, or skipped.
LEMMA HandledDelivered ==
    ASSUME IInv, NEW s \in Streams, Delivered(s), Ends(s), HandleItem(s)
    PROVE  /\ Delivered(s)'
           /\ \E h \in 0..sent[s] :
                /\ DealtWith(s, h) /\ h + 1 \in 1..sent[s]
                /\ \/ kind[s][h + 1] = "plain" /\ shown' = [shown EXCEPT ![s] = Append(@, h + 1)]
                   \/ kind[s][h + 1] = "undecodable" /\ shown' = shown
<1>0. Live(s)
    BY DEF Live, Ends, Closing, HandleItem, HasMessage, DartIdle
<1>1. PICK h \in 0..sent[s] : DealtWith(s, h)
    BY <1>0 DEF Delivered
<1>2. sent[s] \in Nat /\ h \in Nat /\ port[s] \in Seq(Messages) /\ port[s] # << >>
    BY DEF IInv, TypeOK, HandleItem, HasMessage
<1>3. /\ kind' = kind /\ sent'[s] = sent[s] /\ port'[s] = Tail(port[s])
      /\ ch' = ch /\ hand' = hand /\ drain' = drain /\ streamId' = streamId
    BY DEF IInv, TypeOK, HandleItem, prodVars, emitterVars, runtimeVars
<1>4. /\ Len(port[s]) \in Nat /\ Len(port'[s]) \in Nat /\ Len(port'[s]) + 1 = Len(port[s])
      /\ 1 \in 1..Len(port[s]) /\ Head(port[s]) = port[s][1]
      /\ \A i \in 1..Len(port'[s]) : port'[s][i] = port[s][i + 1]
    BY <1>2, <1>3, TailShifts
<1>5. port[s][1].ev = "data"
    BY <1>4 DEF HandleItem
<1>6. /\ port[s][1].item = h + 1 /\ h + 1 <= sent[s]
      /\ kind[s][h + 1] \in {"plain", "undecodable"}
    BY <1>1, <1>4, <1>5 DEF DealtWith
<1>7. shown' = IF kind[s][h + 1] = "plain" THEN [shown EXCEPT ![s] = Append(@, h + 1)] ELSE shown
    BY <1>4, <1>6 DEF HandleItem
<1>8. \A i \in 1..Len(port'[s]) : i + 1 \in 1..Len(port[s])
    BY <1>4
<1>9. ASSUME NEW i \in 1..Len(port'[s])
      PROVE  /\ port'[s][i].ev = "data" =>
                 /\ port'[s][i].item = (h + 1) + i /\ (h + 1) + i <= sent[s]
                 /\ kind[s][(h + 1) + i] \in {"plain", "undecodable"}
             /\ AllDone(port'[s][i]) => (h + 1) + i = sent[s] + 1
    <2>1. i + 1 \in 1..Len(port[s]) /\ port'[s][i] = port[s][i + 1]
        BY <1>4, <1>8
    <2>2. (h + 1) + i = h + (i + 1)
        BY <1>2
    <2> QED
        BY <1>1, <2>1, <2>2 DEF DealtWith
<1>10. Flowing(s)' => h + 1 = Handled(s)'
    <2> SUFFICES ASSUME Flowing(s)' PROVE h + 1 = Handled(s)'
        OBVIOUS
    <2>1. h = Handled(s) /\ Drained(s)' = Drained(s)
        BY <1>1, <1>3 DEF DealtWith, Flowing, Drained
    <2>2. Drained(s) \in Int
        BY <1>2, LenProperties DEF IInv, TypeOK, Drained
    <2> QED
        BY <1>3, <1>4, <2>1, <2>2 DEF Handled
<1>11. LET L == Contract!LastShown(s)
           M == Contract!LastShown(s)'
       IN  /\ L \in Nat /\ L <= h /\ \A m \in L + 1 .. h : kind[s][m] = "undecodable"
           /\ kind[s][h + 1] = "plain" => M = h + 1
           /\ kind[s][h + 1] # "plain" => M = L
    <2>1. shown[s] \in Seq(Items) /\ h + 1 \in Items
        BY <1>2, <1>6 DEF IInv, TypeOK, Items
    <2>2. Contract!LastShown(s) \in Nat
        BY <2>1, LenProperties, EmptySeq DEF Contract!LastShown, Items
    <2>3. ASSUME kind[s][h + 1] = "plain" PROVE Contract!LastShown(s)' = h + 1
        <3>1. shown'[s] = Append(shown[s], h + 1)
            BY <1>7, <2>3 DEF IInv, TypeOK
        <3>2. Append(shown[s], h + 1) # << >>
              /\ Append(shown[s], h + 1)[Len(Append(shown[s], h + 1))] = h + 1
            BY <2>1, AppendProperties, LenProperties
        <3> QED
            BY <3>1, <3>2 DEF Contract!LastShown
    <2>4. ASSUME kind[s][h + 1] # "plain" PROVE Contract!LastShown(s)' = Contract!LastShown(s)
        BY <1>7, <2>4 DEF Contract!LastShown
    <2> QED
        BY <1>1, <2>2, <2>3, <2>4 DEF DealtWith
<1>12. /\ Contract!LastShown(s)' <= h + 1
       /\ \A m \in Contract!LastShown(s)' + 1 .. h + 1 : kind[s][m] = "undecodable"
    BY <1>2, <1>6, <1>11
<1>13. DealtWith(s, h + 1)'
    BY <1>3, <1>9, <1>10, <1>12 DEF DealtWith, AllDone
<1>14. h + 1 \in 0..sent'[s] /\ h + 1 \in 1..sent[s]
    BY <1>2, <1>3, <1>6
<1> QED
    BY <1>1, <1>6, <1>7, <1>13, <1>14 DEF Delivered

\* An item on its way from the buffer to the drainer's hand is not handled yet.
LEMMA TakeLeavesHandled ==
    ASSUME IInv, NEW s \in Streams, NEW from \in {"select", "flush"}, NEW to,
           TakeItem(s, from, to)
    PROVE  Handled(s)' = Handled(s)
<1>0. Stages(s) /\ TypeOK /\ ~Emitting(s)
    BY DEF IInv, Emitting, TakeItem
<1>1. hand[s] = NoItem /\ ch[s] \in Seq(Items) /\ ch[s] # << >> /\ sent[s] \in Nat
    BY <1>0 DEF TypeOK, Stages, TakeItem
<1>2. /\ ch'[s] = Tail(ch[s]) /\ hand'[s] = Head(ch[s])
      /\ sent'[s] = sent[s] /\ port'[s] = port[s]
    BY DEF IInv, TypeOK, TakeItem, prodVars, portVars
<1>3. /\ Len(ch[s]) \in Nat /\ Len(ch'[s]) \in Nat /\ Len(ch'[s]) + 1 = Len(ch[s])
      /\ hand'[s] \in Items
    BY <1>1, <1>2, TailShifts
<1>4. Drained(s)' = Drained(s) + 1 /\ Drained(s) \in Int /\ Len(port[s]) \in Nat
    BY <1>1, <1>2, <1>3, LenProperties DEF IInv, TypeOK, Drained
<1>5. hand'[s] # NoItem
    BY <1>3 DEF Items, NoItem
<1> QED
    BY <1>1, <1>2, <1>4, <1>5 DEF Handled

\* Every step keeps what was delivered and what is still to be in one sequence.
LEMMA DeliveredStep ==
    ASSUME IInv, Pipeline, \A s \in Streams : Ends(s) /\ Delivered(s), [Next]_vars,
           NEW u \in Streams
    PROVE  Delivered(u)'
<1> USE DEF Goto, prodVars, emitterVars, runtimeVars, portVars, dartVars
<1>0. CASE UNCHANGED vars
    <2>1. Still(u)
        BY <1>0 DEF vars, Still, Live, Flowing, Handled, Drained
    <2> QED
        BY <2>1, StillDelivered DEF IInv
<1>1. ASSUME NEW s \in Streams, SendBegin(s) PROVE Delivered(u)'
    <2>1. Still(u)
        BY <1>1 DEF IInv, TypeOK, Still, Live, Flowing, Handled, Drained, SendBegin
    <2> QED
        BY <2>1, StillDelivered DEF IInv
<1>2. ASSUME NEW s \in Streams, SendItem(s) PROVE Delivered(u)'
    <2>1. CASE u # s
        <3>1. Still(u)
            BY <1>2, <2>1 DEF IInv, TypeOK, Still, Live, Flowing, Handled, Drained, SendItem
        <3> QED
            BY <3>1, StillDelivered DEF IInv
    <2>2. CASE u = s
        <3>1. ~AllDoneQueued(s)
            BY <1>2 DEF Ends, SendItem
        <3>2. /\ ch'[s] = Append(ch[s], sent[s] + 1) /\ sent'[s] = sent[s] + 1
              /\ hand' = hand /\ port' = port /\ kind' = kind /\ shown' = shown
              /\ drain' = drain /\ streamId' = streamId /\ dartAlive' = dartAlive
              /\ finished' = finished
            BY <1>2 DEF IInv, TypeOK, SendItem
        <3>3. ch[s] \in Seq(Items) /\ sent[s] \in Nat /\ sent[s] + 1 \in Items
            BY <1>2 DEF IInv, TypeOK, Stages, SendItem, Items
        <3>4. Len(ch[s]) \in Nat /\ Len(ch'[s]) = Len(ch[s]) + 1
            BY <3>2, <3>3, AppendedItem, LenProperties
        <3>5. Drained(s)' = Drained(s)
            <4>1. sent'[s] = sent[s] + 1 /\ sent[s] \in Nat
                BY <3>2, <3>3
            <4> QED
                BY <3>4, <4>1 DEF Drained
        <3>6. Handled(s)' = Handled(s)
            BY <3>2, <3>5 DEF Handled
        <3>7. Still(s)
            BY <3>1, <3>2, <3>6 DEF Still, Live, Flowing
        <3> QED
            BY <2>2, <3>7, StillDelivered DEF IInv
    <2> QED
        BY <2>1, <2>2
<1>3. ASSUME NEW s \in Streams, SendCancelled(s) PROVE Delivered(u)'
    <2>1. Still(u)
        BY <1>3 DEF IInv, TypeOK, Still, Live, Flowing, Handled, Drained, SendCancelled
    <2> QED
        BY <2>1, StillDelivered DEF IInv
<1>4. ASSUME NEW s \in Streams, EndEmitter(s) PROVE Delivered(u)'
    <2>1. Still(u)
        BY <1>4 DEF IInv, TypeOK, Still, Live, Flowing, Handled, Drained, EndEmitter
    <2> QED
        BY <2>1, StillDelivered DEF IInv
<1>5. ASSUME NEW s \in Streams, DrainItem(s) PROVE Delivered(u)'
    <2>1. u = s => Handled(u)' = Handled(u)
        BY <1>5, TakeLeavesHandled DEF DrainItem
    <2>2. u # s => Handled(u)' = Handled(u)
        BY <1>5 DEF IInv, TypeOK, Handled, Drained, DrainItem, TakeItem
    <2>3. Still(u)
        BY <1>5, <2>1, <2>2 DEF IInv, TypeOK, Still, Live, Flowing, DrainItem, TakeItem
    <2> QED
        BY <2>3, StillDelivered DEF IInv
<1>6. ASSUME NEW s \in Streams, DrainResult(s) PROVE Delivered(u)'
    <2>1. Still(u)
        BY <1>6 DEF IInv, TypeOK, Still, Live, Flowing, Handled, Drained, DrainResult
    <2> QED
        BY <2>1, StillDelivered DEF IInv
<1>7. ASSUME NEW s \in Streams, DrainCancelled(s) PROVE Delivered(u)'
    <2>1. Still(u)
        BY <1>7 DEF IInv, TypeOK, Still, Live, Flowing, Handled, Drained, DrainCancelled
    <2> QED
        BY <2>1, StillDelivered DEF IInv
<1>8. ASSUME NEW s \in Streams, FlushItem(s) PROVE Delivered(u)'
    <2>1. u = s => Handled(u)' = Handled(u)
        BY <1>8, TakeLeavesHandled DEF FlushItem
    <2>2. u # s => Handled(u)' = Handled(u)
        BY <1>8 DEF IInv, TypeOK, Handled, Drained, FlushItem, TakeItem
    <2>3. Still(u)
        BY <1>8, <2>1, <2>2 DEF IInv, TypeOK, Still, Live, Flowing, FlushItem, TakeItem
    <2> QED
        BY <2>3, StillDelivered DEF IInv
<1>9. ASSUME NEW s \in Streams, FlushEnd(s) PROVE Delivered(u)'
    <2>1. Still(u)
        BY <1>9 DEF IInv, TypeOK, Still, Live, Flowing, Handled, Drained, FlushEnd
    <2> QED
        BY <2>1, StillDelivered DEF IInv
<1>10. ASSUME NEW s \in Streams, NEW m, port' = Posted(s, m), u # s \/ ~portOpen[s],
              UNCHANGED <<kind, sent, ch, shown, dartAlive, finished, streamId>>,
              u # s => hand'[u] = hand[u] /\ drain'[u] = drain[u],
              ~Flowing(s)' \/ u # s
       PROVE  Delivered(u)'
    <2>1. Still(u)
        BY <1>10 DEF IInv, TypeOK, Posted, Still, Live, Flowing, Handled, Drained
    <2> QED
        BY <2>1, StillDelivered DEF IInv
<1>11. ASSUME NEW s \in Streams, EmitItem(s) PROVE Delivered(u)'
    <2>1. CASE u # s \/ ~portOpen[s]
        <3>1. ~Flowing(s)' \/ u # s
            BY <1>11, <2>1 DEF IInv, TypeOK, Flowing, EmitItem
        <3>2. u # s => hand'[u] = hand[u] /\ drain'[u] = drain[u]
            BY <1>11 DEF IInv, TypeOK, EmitItem
        <3> QED
            BY <1>10, <1>11, <2>1, <3>1, <3>2 DEF EmitItem
    <2>2. CASE u = s /\ portOpen[s]
        <3>1. /\ port'[s] = Append(port[s], Data(hand[s])) /\ hand'[s] = NoItem
              /\ UNCHANGED <<kind, sent, ch, shown, dartAlive, finished, streamId>>
            BY <1>11, <2>2 DEF IInv, TypeOK, EmitItem, Posted
        <3>2. /\ hand[s] \in Items /\ hand[s] # NoItem /\ Data(hand[s]) \in Messages
              /\ port[s] \in Seq(Messages) /\ ch[s] \in Seq(Items) /\ sent[s] \in Nat
            <4>1. Stages(s) /\ Emitting(s) /\ TypeOK
                BY <1>11 DEF IInv, EmitItem
            <4>2. hand[s] \in Items
                BY <4>1 DEF Stages
            <4>3. hand[s] # NoItem /\ Data(hand[s]) \in Messages
                BY <4>2 DEF Items, NoItem, Messages
            <4> QED
                BY <4>1, <4>2, <4>3 DEF TypeOK
        <3>3. Flowing(s) /\ InOrder(s)
            BY <1>11 DEF IInv, Stages, Flowing, Pipeline, EmitItem, Emitting
        <3>4. hand[s] = Drained(s)
            BY <3>2, <3>3 DEF InOrder
        <3>5. Len(port[s]) \in Nat /\ Len(ch[s]) \in Nat /\ Len(port'[s]) = Len(port[s]) + 1
            BY <3>1, <3>2, AppendedItem, LenProperties
        <3>6. Drained(s)' = Drained(s) /\ Drained(s) \in Int /\ Drained(s) <= sent[s]
            BY <3>1, <3>2, <3>5 DEF Drained
        <3>7. /\ Handled(s)' = Handled(s)
              /\ hand[s] = Handled(s) + Len(port[s]) + 1
            <4>1. Handled(s)' = Drained(s) - 0 - (Len(port[s]) + 1)
                BY <3>1, <3>5, <3>6 DEF Handled
            <4>2. Handled(s) = Drained(s) - 1 - Len(port[s])
                BY <3>2 DEF Handled
            <4> QED
                BY <3>4, <3>5, <3>6, <4>1, <4>2
        <3>8. /\ Data(hand[s]).item = hand[s] /\ hand[s] <= sent[s] /\ ~AllDone(Data(hand[s]))
              /\ kind[s][hand[s]] \in {"plain", "undecodable"}
            BY <1>11, <3>4, <3>6 DEF Data, AllDone, EmitItem
        <3>9. Live(s)' => Live(s)
            BY <3>1 DEF Live
        <3>10. Delivered(s) /\ kind'[s] = kind[s] /\ shown'[s] = shown[s] /\ sent'[s] = sent[s]
            BY <3>1
        <3>11. TypeOK
            BY DEF IInv
        <3>12. Delivered(s)'
            BY <3>1, <3>2, <3>3, <3>7, <3>8, <3>9, <3>10, <3>11, PostedDelivered
        <3> QED
            BY <2>2, <3>12
    <2> QED
        BY <2>1, <2>2
<1>12. ASSUME NEW s \in Streams, EmitUnmarshalable(s) PROVE Delivered(u)'
    <2>1. CASE u # s \/ ~portOpen[s]
        <3>1. ~Flowing(s)'
            BY <1>12 DEF IInv, TypeOK, Flowing, EmitUnmarshalable
        <3>2. u # s => hand'[u] = hand[u] /\ drain'[u] = drain[u]
            BY <1>12 DEF IInv, TypeOK, EmitUnmarshalable
        <3> QED
            BY <1>10, <1>12, <2>1, <3>1, <3>2 DEF EmitUnmarshalable
    <2>2. CASE u = s /\ portOpen[s]
        <3>1. /\ port'[s] = Append(port[s], Terminal("broken")) /\ ~Flowing(s)'
              /\ kind'[s] = kind[s] /\ shown'[s] = shown[s] /\ sent'[s] = sent[s]
            BY <1>12, <2>2 DEF IInv, TypeOK, Flowing, EmitUnmarshalable, Posted
        <3>2. Live(s)' => Live(s)
            BY <1>12 DEF Live, EmitUnmarshalable
        <3>3. /\ Terminal("broken") \in Messages /\ Terminal("broken").ev # "data"
              /\ ~AllDone(Terminal("broken"))
            BY DEF Messages, Terminal, Endings, AllDone
        <3>4. TypeOK /\ Delivered(s)
            BY DEF IInv
        <3>5. Delivered(s)'
            BY <3>1, <3>2, <3>3, <3>4, PostedDelivered
        <3> QED
            BY <2>2, <3>5
    <2> QED
        BY <2>1, <2>2
<1>13. ASSUME NEW s \in Streams, EmitPanics(s) PROVE Delivered(u)'
    <2>1. CASE u # s \/ ~portOpen[s]
        <3>1. ~Flowing(s)'
            BY <1>13 DEF IInv, TypeOK, Flowing, EmitPanics
        <3>2. u # s => hand'[u] = hand[u] /\ drain'[u] = drain[u]
            BY <1>13 DEF IInv, TypeOK, EmitPanics
        <3> QED
            BY <1>10, <1>13, <2>1, <3>1, <3>2 DEF EmitPanics
    <2>2. CASE u = s /\ portOpen[s]
        <3>1. /\ port'[s] = Append(port[s], Terminal("broken")) /\ ~Flowing(s)'
              /\ kind'[s] = kind[s] /\ shown'[s] = shown[s] /\ sent'[s] = sent[s]
            BY <1>13, <2>2 DEF IInv, TypeOK, Flowing, EmitPanics, Posted
        <3>2. Live(s)' => Live(s)
            BY <1>13 DEF Live, EmitPanics
        <3>3. /\ Terminal("broken") \in Messages /\ Terminal("broken").ev # "data"
              /\ ~AllDone(Terminal("broken"))
            BY DEF Messages, Terminal, Endings, AllDone
        <3>4. TypeOK /\ Delivered(s)
            BY DEF IInv
        <3>5. Delivered(s)'
            BY <3>1, <3>2, <3>3, <3>4, PostedDelivered
        <3> QED
            BY <2>2, <3>5
    <2> QED
        BY <2>1, <2>2
<1>14. ASSUME NEW s \in Streams, PostEnding(s) PROVE Delivered(u)'
    <2>1. CASE u # s \/ ~portOpen[s]
        <3>1. ~Flowing(s)'
            BY <1>14 DEF IInv, TypeOK, Flowing, PostEnding
        <3>2. u # s => hand'[u] = hand[u] /\ drain'[u] = drain[u]
            BY <1>14 DEF IInv, TypeOK, PostEnding
        <3> QED
            BY <1>10, <1>14, <2>1, <3>1, <3>2 DEF PostEnding
    <2>2. CASE u = s /\ portOpen[s]
        <3>1. /\ port'[s] = Append(port[s], Terminal(verdict[s])) /\ ~Flowing(s)'
              /\ kind'[s] = kind[s] /\ shown'[s] = shown[s] /\ sent'[s] = sent[s]
            BY <1>14, <2>2 DEF IInv, TypeOK, Flowing, PostEnding, Posted
        <3>2. Live(s)' => Live(s)
            BY <1>14 DEF Live, PostEnding
        <3>3. verdict[s] \in {"done", "failed"} /\ hand[s] = NoItem /\ ch[s] = << >> /\ Flowing(s)
            BY <1>14 DEF IInv, TypeOK, Stages, Ends, Emitting, Flowing, PostEnding
        <3>4. Terminal(verdict[s]) \in Messages /\ Terminal(verdict[s]).ev # "data"
            BY <3>3 DEF Messages, Terminal, Endings
        <3>5. TypeOK /\ Delivered(s) /\ sent[s] \in Nat /\ Len(port[s]) \in Nat
            BY LenProperties DEF IInv, TypeOK
        <3>6. Handled(s) + Len(port[s]) = sent[s]
            BY <3>3, <3>5, EmptySeq DEF Handled, Drained
        <3>7. Delivered(s)'
            BY <3>1, <3>2, <3>3, <3>4, <3>5, <3>6, PostedDelivered
        <3> QED
            BY <2>2, <3>7
    <2> QED
        BY <2>1, <2>2
<1>15. ASSUME NEW s \in Streams, StopProducer(s) PROVE Delivered(u)'
    <2>1. Still(u)
        BY <1>15 DEF IInv, TypeOK, Still, Live, Flowing, Handled, Drained, StopProducer
    <2> QED
        BY <2>1, StillDelivered DEF IInv
<1>16. ASSUME NEW s \in Streams, Unregister(s) PROVE Delivered(u)'
    <2>1. Still(u)
        BY <1>16 DEF IInv, TypeOK, Still, Live, Flowing, Handled, Drained, Unregister
    <2> QED
        BY <2>1, StillDelivered DEF IInv
<1>17. ASSUME NEW s \in Streams, HandleItem(s) PROVE Delivered(u)'
    <2>1. CASE u # s
        <3>1. Still(u)
            BY <1>17, <2>1 DEF IInv, TypeOK, Still, Live, Flowing, Handled, Drained, HandleItem
        <3> QED
            BY <3>1, StillDelivered DEF IInv
    <2>2. CASE u = s
        BY <1>17, <2>2, HandledDelivered
    <2> QED
        BY <2>1, <2>2
<1>18. ASSUME NEW s \in Streams, HandleEnding(s) PROVE Delivered(u)'
    <2>1. CASE u # s
        <3>1. Still(u)
            BY <1>18, <2>1
               DEF IInv, TypeOK, Still, Live, Flowing, Handled, Drained, HandleEnding, BeginFinish
        <3> QED
            BY <3>1, StillDelivered DEF IInv
    <2>2. CASE u = s
        BY <1>18, <2>2 DEF IInv, TypeOK, Ends, Closing, Delivered, Live, HandleEnding, BeginFinish
    <2> QED
        BY <2>1, <2>2
<1>19. ASSUME NEW s \in Streams, Unsubscribe(s) PROVE Delivered(u)'
    <2>1. CASE u # s
        <3>1. Still(u)
            BY <1>19, <2>1
               DEF IInv, TypeOK, Still, Live, Flowing, Handled, Drained, Unsubscribe, BeginFinish
        <3> QED
            BY <3>1, StillDelivered DEF IInv
    <2>2. CASE u = s
        BY <1>19, <2>2 DEF IInv, TypeOK, Ends, Closing, Delivered, Live, Unsubscribe, BeginFinish
    <2> QED
        BY <2>1, <2>2
<1>20. ASSUME NEW s \in Streams, ClosePort(s) PROVE Delivered(u)'
    <2>1. CASE u # s
        <3>1. Still(u)
            BY <1>20, <2>1
               DEF IInv, TypeOK, Still, Live, Flowing, Handled, Drained, ClosePort
        <3> QED
            BY <3>1, StillDelivered DEF IInv
    <2>2. CASE u = s
        BY <1>20, <2>2 DEF IInv, TypeOK, Ends, Closing, Delivered, Live, ClosePort
    <2> QED
        BY <2>1, <2>2
<1>21. ASSUME NEW s \in Streams, Register(s) PROVE Delivered(u)'
    <2>1. Still(u)
        BY <1>21 DEF IInv, TypeOK, Stages, Still, Live, Flowing, Handled, Drained, Register
    <2> QED
        BY <2>1, StillDelivered DEF IInv
<1>22. ASSUME NEW s \in Streams, CancelLookup(s) PROVE Delivered(u)'
    <2>1. Still(u)
        BY <1>22 DEF IInv, TypeOK, Still, Live, Flowing, Handled, Drained, CancelLookup
    <2> QED
        BY <2>1, StillDelivered DEF IInv
<1>23. ASSUME NEW s \in Streams, CancelSignal(s) PROVE Delivered(u)'
    <2>1. Still(u)
        BY <1>23 DEF IInv, TypeOK, Still, Live, Flowing, Handled, Drained, CancelSignal
    <2> QED
        BY <2>1, StillDelivered DEF IInv
<1>24. ASSUME NEW s \in Streams, OpenEndsAtOnce(s) PROVE Delivered(u)'
    <2>1. CASE u # s
        <3>1. Still(u)
            BY <1>24, <2>1 DEF IInv, TypeOK, Still, Live, Flowing, Handled, Drained, OpenEndsAtOnce
        <3> QED
            BY <3>1, StillDelivered DEF IInv
    <2>2. CASE u = s
        <3>1. Live(s) /\ sent[s] = 0
            BY <1>24 DEF IInv, Stages, Ends, Live, OpenEndsAtOnce, Opens, DartIdle
        <3>2. DealtWith(s, 0)
            BY <3>1 DEF Delivered
        <3>3. PICK how \in {"broken", "done"} : port' = [port EXCEPT ![s] = <<Terminal(how)>>]
            BY <1>24 DEF OpenEndsAtOnce
        <3>4. /\ port'[s] = <<Terminal(how)>> /\ ~Flowing(s)' /\ kind' = kind
              /\ shown' = shown /\ sent' = sent
            BY <1>24, <3>3 DEF IInv, TypeOK, Flowing, OpenEndsAtOnce
        <3>5. Contract!LastShown(s)' = Contract!LastShown(s)
            BY <3>4 DEF Contract!LastShown
        <3>6. \A i \in 1..Len(port'[s]) : i = 1 /\ port'[s][i].ev # "data"
            BY <3>4 DEF Terminal
        <3>7. DealtWith(s, 0)'
            BY <3>1, <3>2, <3>4, <3>5, <3>6 DEF DealtWith
        <3> QED
            BY <2>2, <3>1, <3>4, <3>7 DEF Delivered
    <2> QED
        BY <2>1, <2>2
<1>25. ASSUME NEW s \in Streams, OpenCalls(s) PROVE Delivered(u)'
    <2>1. Still(u)
        BY <1>25 DEF IInv, TypeOK, Still, Live, Flowing, Handled, Drained, OpenCalls, Opens
    <2> QED
        BY <2>1, StillDelivered DEF IInv
<1>26. CASE IsolateGone
    BY <1>26 DEF Delivered, Live, IsolateGone
<1>27. CASE AllQuiet
    BY <1>27, <1>0 DEF AllQuiet
<1> QED
    BY <1>0, <1>1, <1>2, <1>3, <1>4, <1>5, <1>6, <1>7, <1>8, <1>9, <1>11, <1>12, <1>13, <1>14,
       <1>15, <1>16, <1>17, <1>18, <1>19, <1>20, <1>21, <1>22, <1>23, <1>24, <1>25, <1>26,
       <1>27
       DEF Next, Producer, SendReturns, Drainer, Handler, RestOfTurn, Application

-----------------------------------------------------------------------------
\* Everything the refinement rests on.
ContractInv ==
    /\ IInv
    /\ Pipeline
    /\ \A s \in Streams : Ends(s) /\ Delivered(s)

\* At the start nothing was sent.
LEMMA ContractStart == Init => \A s \in Streams : Ends(s) /\ Delivered(s)
<1> SUFFICES ASSUME Init, NEW s \in Streams PROVE Ends(s) /\ Delivered(s)
    OBVIOUS
<1>1. Ends(s)
    BY DEF Init, Ends, AllDoneQueued, Closing
<1>2. Contract!LastShown(s) = 0 /\ Handled(s) = 0 /\ 0 \in 0..sent[s]
    BY DEF Init, Contract!LastShown, Handled, Drained, NoItem
<1>3. DealtWith(s, 0)
    BY <1>2 DEF Init, DealtWith
<1> QED
    BY <1>1, <1>2, <1>3 DEF Delivered

\* All that the refinement rests on is inductive.
LEMMA ContractInvStep == ContractInv /\ [Next]_vars => ContractInv'
BY TypeStep, StagesStep, PipelineStep, EndsStep, DeliveredStep DEF ContractInv, IInv

\* A live stream, as the contract sees it.
LEMMA LivePhase ==
    ASSUME NEW s, Ends(s), Live(s)
    PROVE  Phase(s) = "live" /\ ending[s] = "none"
BY DEF Ends, Live, Phase

\* A stream whose ends are left alone keeps its phase in the contract.
LEMMA PhaseUnmoved ==
    ASSUME NEW s, finished'[s] = finished[s], ending'[s] = ending[s], dartAlive' = dartAlive
    PROVE  Phase(s)' = Phase(s)
BY DEF Phase

\* A step maps to a step of the contract or to a stutter.
LEMMA ContractStep ==
    ASSUME ContractInv, [Next]_vars
    PROVE  [Contract!Next]_(Contract!contractVars)
<1> USE DEF Goto, prodVars, emitterVars, runtimeVars, portVars, dartVars
<1>1. ASSUME UNCHANGED <<kind, sent, shown, dartAlive, finished, ending>>
      PROVE  UNCHANGED Contract!contractVars
    BY <1>1, PhaseUnmoved DEF Contract!contractVars
<1>2. ASSUME NEW s \in Streams, SendItem(s) PROVE Contract!Accept(s)
    <2>1. Phase(s) \notin {"done", "failed"}
        BY <1>2 DEF ContractInv, Ends, Phase, SendItem
    <2>2. sent[s] < MaxItems /\ sent' = [sent EXCEPT ![s] = @ + 1]
        BY <1>2 DEF ContractInv, IInv, Stages, SendItem
    <2>3. UNCHANGED <<kind, shown, dartAlive, finished, ending>>
        BY <1>2 DEF SendItem
    <2> QED
        BY <2>1, <2>2, <2>3, PhaseUnmoved DEF Contract!Accept
<1>3. ASSUME NEW s \in Streams, HandleItem(s)
      PROVE  Contract!Show(s) \/ UNCHANGED Contract!contractVars
    <2>1. PICK h \in 0..sent[s] :
            /\ DealtWith(s, h) /\ h + 1 \in 1..sent[s]
            /\ \/ kind[s][h + 1] = "plain" /\ shown' = [shown EXCEPT ![s] = Append(@, h + 1)]
               \/ kind[s][h + 1] = "undecodable" /\ shown' = shown
        BY <1>3, HandledDelivered DEF ContractInv
    <2>2. UNCHANGED <<kind, sent, dartAlive, finished, ending>>
        BY <1>3 DEF HandleItem
    <2>3. CASE shown' = shown
        BY <1>1, <2>2, <2>3
    <2>4. CASE kind[s][h + 1] = "plain" /\ shown' = [shown EXCEPT ![s] = Append(@, h + 1)]
        <3>1. Phase(s) = "live"
            BY <1>3, LivePhase
               DEF ContractInv, Ends, Closing, Live, HandleItem, HasMessage, DartIdle
        <3>2. sent[s] \in Nat /\ h \in Nat /\ Contract!LastShown(s) \in Nat
            <4>1. sent[s] \in Nat /\ shown[s] \in Seq(Items)
                BY DEF ContractInv, IInv, TypeOK
            <4> QED
                BY <4>1, LenProperties, EmptySeq DEF Contract!LastShown, Items
        <3>3. /\ h + 1 \in Contract!LastShown(s) + 1 .. sent[s]
              /\ \A m \in Contract!LastShown(s) + 1 .. (h + 1) - 1 : Contract!Skippable(s, m)
            BY <2>1, <3>2 DEF DealtWith, Contract!Skippable
        <3>4. \E n \in Contract!LastShown(s) + 1 .. sent[s] :
                /\ kind[s][n] = "plain"
                /\ \A m \in Contract!LastShown(s) + 1 .. n - 1 : Contract!Skippable(s, m)
                /\ shown' = [shown EXCEPT ![s] = Append(@, n)]
            BY <2>4, <3>3
        <3> QED
            BY <2>2, <3>1, <3>4, PhaseUnmoved DEF Contract!Show
    <2> QED
        BY <2>1, <2>3, <2>4
<1>4. ASSUME NEW s \in Streams, HandleEnding(s) PROVE Contract!End(s) \/ Contract!Break(s)
    <2> DEFINE how == Head(port[s]).ev
    <2>1. Live(s)
        BY <1>4 DEF ContractInv, Ends, Closing, Live, HandleEnding, HasMessage, DartIdle
    <2>2. Phase(s) = "live"
        BY <2>1, LivePhase DEF ContractInv
    <2>3. how \in Endings /\ ending'[s] = how /\ UNCHANGED <<kind, sent, shown, dartAlive>>
        BY <1>4 DEF ContractInv, IInv, TypeOK, HandleEnding
    <2>4. Phase(s)' = how
        BY <2>3 DEF Phase, Endings
    <2>5. \A o \in Streams \ {s} : Phase(o)' = Phase(o)
        BY <1>4 DEF ContractInv, IInv, TypeOK, HandleEnding, BeginFinish, Phase
    <2> DEFINE before == [o \in Streams |-> Phase(o)]
               after == [o \in Streams |-> Phase(o)']
    <2>6. after = [before EXCEPT ![s] = how]
        BY <2>4, <2>5
    <2>7. CASE how = "broken"
        BY <2>2, <2>3, <2>6, <2>7 DEF Contract!Break
    <2>8. CASE how \in {"done", "failed"}
        <3>1. PICK h \in 0..sent[s] : DealtWith(s, h)
            BY <2>1 DEF ContractInv, Delivered
        <3>2. port[s][1] = Head(port[s]) /\ 1 \in 1..Len(port[s])
            BY <1>4, TailShifts DEF ContractInv, IInv, TypeOK, HandleEnding, HasMessage
        <3>3. h + 1 = sent[s] + 1 /\ sent[s] \in Nat
            BY <2>8, <3>1, <3>2 DEF ContractInv, IInv, TypeOK, DealtWith, AllDone
        <3>4. \A m \in Contract!LastShown(s) + 1 .. sent[s] : Contract!Skippable(s, m)
            BY <3>1, <3>3 DEF DealtWith, Contract!Skippable
        <3> QED
            BY <2>2, <2>3, <2>6, <2>8, <3>4 DEF Contract!End
    <2> QED
        BY <2>3, <2>7, <2>8 DEF Endings
<1>5. ASSUME NEW left \in SUBSET Streams, \A s \in left : Phase(s) = "live" /\ Phase(s)' = "gone",
             \A s \in Streams \ left : Phase(s)' = Phase(s), UNCHANGED <<kind, sent, shown>>
      PROVE  Contract!Leave
    <2> DEFINE before == [o \in Streams |-> Phase(o)]
               after == [o \in Streams |-> Phase(o)']
    <2>1. left \in SUBSET {s \in Streams : before[s] = "live"}
        BY <1>5
    <2>2. after = [s \in Streams |-> IF s \in left THEN "gone" ELSE before[s]]
        BY <1>5
    <2> QED
        BY <1>5, <2>1, <2>2 DEF Contract!Leave
<1>6. ASSUME NEW s \in Streams, Unsubscribe(s) PROVE Contract!Leave
    <2>1. Phase(s) = "live" /\ ending[s] = "none"
        BY <1>6, LivePhase DEF ContractInv, Live, Unsubscribe, DartIdle
    <2>2. finished'[s] /\ UNCHANGED <<kind, sent, shown, ending, dartAlive>>
        BY <1>6 DEF ContractInv, IInv, TypeOK, Unsubscribe, BeginFinish
    <2>3. Phase(s)' = "gone"
        BY <2>1, <2>2 DEF Phase
    <2>4. \A o \in Streams \ {s} : Phase(o)' = Phase(o)
        BY <1>6 DEF ContractInv, IInv, TypeOK, Unsubscribe, BeginFinish, Phase
    <2>5. {s} \in SUBSET Streams
        OBVIOUS
    <2> QED
        BY <1>5, <2>1, <2>2, <2>3, <2>4, <2>5, Zenon
<1>7. ASSUME IsolateGone PROVE Contract!Leave
    <2>1. UNCHANGED <<kind, sent, shown, finished, ending>> /\ ~dartAlive'
        BY <1>7 DEF IsolateGone
    <2>2. PICK left \in SUBSET Streams : left = {s \in Streams : Live(s)}
        OBVIOUS
    <2>3. \A s \in left : Phase(s) = "live" /\ Phase(s)' = "gone"
        BY <2>1, <2>2, LivePhase DEF ContractInv, Phase
    <2>4. \A s \in Streams \ left : Phase(s)' = Phase(s)
        BY <2>1, <2>2 DEF Live, Phase
    <2>5. UNCHANGED <<kind, sent, shown>>
        BY <2>1
    <2> QED
        BY <1>5, <2>3, <2>4, <2>5
<1>8. CASE UNCHANGED vars
    BY <1>1, <1>8 DEF vars
<1>9. ASSUME NEW s \in Streams,
             \/ SendBegin(s) \/ SendCancelled(s) \/ EndEmitter(s)
             \/ DrainItem(s) \/ DrainResult(s) \/ DrainCancelled(s) \/ FlushItem(s)
             \/ FlushEnd(s) \/ EmitItem(s) \/ EmitUnmarshalable(s) \/ EmitPanics(s)
             \/ StopProducer(s) \/ PostEnding(s) \/ Unregister(s)
             \/ Register(s) \/ CancelLookup(s) \/ CancelSignal(s) \/ ClosePort(s)
             \/ OpenEndsAtOnce(s) \/ OpenCalls(s)
      PROVE  UNCHANGED Contract!contractVars
    <2>1. UNCHANGED <<kind, sent, shown, dartAlive, finished, ending>>
        BY <1>9
           DEF SendBegin, SendCancelled, EndEmitter, DrainItem, TakeItem, DrainResult,
               DrainCancelled, FlushItem, FlushEnd, EmitItem, EmitUnmarshalable, EmitPanics,
               StopProducer, PostEnding, Unregister, Register, CancelLookup, CancelSignal,
               ClosePort, OpenEndsAtOnce, OpenCalls
    <2> QED
        BY <1>1, <2>1
<1>10. CASE AllQuiet
    BY <1>8, <1>10 DEF AllQuiet
<1>11. ASSUME NEW s \in Streams, Contract!Accept(s) \/ Contract!Show(s) \/ Contract!End(s)
                                 \/ Contract!Break(s)
       PROVE  Contract!Next
    BY <1>11 DEF Contract!Next
<1>12. Contract!Leave => Contract!Next
    BY DEF Contract!Next
<1> QED
    BY <1>2, <1>3, <1>4, <1>6, <1>7, <1>8, <1>9, <1>10, <1>11, <1>12
       DEF Next, Producer, SendReturns, Drainer, Handler, RestOfTurn, Application

\* What the emitter, the drain goroutine, the port and openStream do is what the contract
\* of a stream allows: items shown in order and without gaps but for those the Dart side
\* cannot decode, at most one ending, the producer's own ending only after everything it
\* sent, and nothing once the subscriber has left.
THEOREM ImplementsContract == Spec => KeepsContract
<1>1. Init => Contract!Init
    BY DEF Init, Contract!Init, Phase, Items
<1>2. Init => ContractInv
    BY Start, ContractStart DEF ContractInv
<1> QED
    BY <1>1, <1>2, ContractInvStep, ContractStep, PTL DEF Spec, KeepsContract, Contract!Spec

-----------------------------------------------------------------------------
\* The subscriber has its ending, or has cancelled, and the cancel is through: the
\* producer is cancelled or has ended by itself.
Stopped(s) ==
    PanicFree(s) /\ finished[s] /\ turn[s] \notin {"cancelling", "signalling"}
        => prod[s] \in {"off", "ended"} \/ cancelled[s]

\* Once a cancel is through, it stays so that the producer is cancelled or has ended.
LEMMA StoppedStep ==
    ASSUME IInv, \A s \in Streams : Ends(s), [Next]_vars, NEW u \in Streams, Stopped(u)
    PROVE  Stopped(u)'
<1> USE DEF Goto, prodVars, emitterVars, runtimeVars, portVars, dartVars
<1> DEFINE Calm == /\ UNCHANGED <<kind, finished>>
                   /\ turn'[u] \in {"cancelling", "signalling"} \/ turn'[u] = turn[u]
                   /\ cancelled[u] => cancelled'[u]
                   /\ prod[u] \in {"off", "ended"} => prod'[u] \in {"off", "ended"}
<1>0. Calm => Stopped(u)'
    BY DEF Stopped, PanicFree
<1> HIDE DEF Calm
<1>1. CASE UNCHANGED vars
    BY <1>1, <1>0 DEF vars, Calm
<1>2. ASSUME NEW s \in Streams, Producer(s) PROVE Calm
    BY <1>2 DEF IInv, TypeOK, Calm, Producer, SendReturns, SendBegin, SendItem,
                SendCancelled, EndEmitter
<1>3. ASSUME NEW s \in Streams, Drainer(s) PROVE Calm
    <2>1. CASE DrainItem(s) \/ FlushItem(s)
        BY <2>1 DEF Calm, DrainItem, FlushItem, TakeItem
    <2>2. CASE DrainResult(s) \/ DrainCancelled(s) \/ FlushEnd(s)
        BY <2>2 DEF Calm, DrainResult, DrainCancelled, FlushEnd
    <2>3. CASE EmitItem(s) \/ EmitUnmarshalable(s) \/ EmitPanics(s)
        BY <2>3 DEF Calm, EmitItem, EmitUnmarshalable, EmitPanics
    <2>4. CASE StopProducer(s)
        BY <2>4 DEF IInv, TypeOK, Calm, StopProducer
    <2>5. CASE PostEnding(s) \/ Unregister(s)
        BY <2>5 DEF Calm, PostEnding, Unregister
    <2> QED
        BY <1>3, <2>1, <2>2, <2>3, <2>4, <2>5 DEF Drainer
<1>4. ASSUME NEW s \in Streams, HandleItem(s) PROVE Calm
    BY <1>4 DEF Calm, HandleItem
<1>5. ASSUME NEW s \in Streams, BeginFinish(s), UNCHANGED <<prodVars, cancelled, streamId>>,
             streamId[s] # "unopened"
      PROVE  Stopped(u)'
    <2>1. streamId[s] # "given" => prod[s] = "off"
        BY <1>5 DEF IInv, TypeOK, Stages
    <2> QED
        BY <1>5, <2>1 DEF IInv, TypeOK, Stopped, PanicFree, BeginFinish
<1>6. ASSUME NEW s \in Streams, HandleEnding(s) PROVE Stopped(u)'
    <2>1. streamId[s] # "unopened"
        BY <1>6 DEF IInv, Stages, HandleEnding, HasMessage
    <2> QED
        BY <1>5, <1>6, <2>1 DEF HandleEnding
<1>7. ASSUME NEW s \in Streams, Unsubscribe(s) PROVE Stopped(u)'
    BY <1>5, <1>7 DEF Unsubscribe
<1>8. ASSUME NEW s \in Streams, Register(s) PROVE Stopped(u)'
    <2>1. ~finished[s]
        BY <1>8 DEF IInv, Stages, Ends, Register
    <2> QED
        BY <1>8, <2>1 DEF IInv, TypeOK, Stopped, PanicFree, Register
<1>9. ASSUME NEW s \in Streams, CancelLookup(s) PROVE Stopped(u)'
    <2>1. PanicFree(s) /\ s \notin streams => prod[s] \in {"off", "ended"} \/ cancelled[s]
        BY <1>9 DEF IInv, TypeOK, Stages, CancelLookup
    <2> QED
        BY <1>9, <2>1 DEF IInv, TypeOK, Stopped, PanicFree, CancelLookup
<1>10. ASSUME NEW s \in Streams, CancelSignal(s) PROVE Stopped(u)'
    BY <1>10 DEF IInv, TypeOK, Stopped, PanicFree, CancelSignal
<1>11. ASSUME NEW s \in Streams, ClosePort(s) PROVE Stopped(u)'
    BY <1>11 DEF IInv, TypeOK, Stopped, PanicFree, ClosePort
<1>12. ASSUME NEW s \in Streams, OpenEndsAtOnce(s) PROVE Calm
    BY <1>12 DEF Calm, OpenEndsAtOnce
<1>13. ASSUME NEW s \in Streams, OpenCalls(s) PROVE Stopped(u)'
    <2>1. ~finished[s]
        BY <1>13 DEF Ends, OpenCalls, Opens
    <2> QED
        BY <1>13, <2>1 DEF IInv, TypeOK, Stopped, PanicFree, OpenCalls
<1>14. CASE IsolateGone
    BY <1>14, <1>0 DEF Calm, IsolateGone
<1>15. CASE AllQuiet
    BY <1>15, <1>1 DEF AllQuiet
<1> QED
    BY <1>0, <1>1, <1>2, <1>3, <1>4, <1>6, <1>7, <1>8, <1>9, <1>10, <1>11, <1>12, <1>13,
       <1>14, <1>15 DEF Next, Handler, RestOfTurn, Application

\* docs/STREAMING.md, "Cancellation", what it says of every moment: once finish has been
\* through FlugoStreamCancel, the producer has been cancelled, whatever the drain goroutine
\* was doing, unless it has ended by itself (CancelReachesProducer without the fairness
\* that takes finish there).
THEOREM FinishStopsProducer == Spec => [](\A s \in Streams : Stopped(s))
<1> DEFINE AllStopped == \A s \in Streams : Stopped(s)
           AllEnds == \A s \in Streams : Ends(s)
<1>1. Init => AllEnds /\ AllStopped
    BY ContractStart DEF Init, Stopped
<1>2. IInv /\ AllEnds /\ [Next]_vars => AllEnds'
    BY EndsStep
<1>3. IInv /\ AllEnds /\ AllStopped /\ [Next]_vars => AllStopped'
    BY StoppedStep
<1> HIDE DEF AllStopped, AllEnds
<1>4. Spec => []AllStopped
    BY <1>1, <1>2, <1>3, Invariance, PTL DEF Spec
<1> QED
    BY <1>4 DEF AllStopped
=============================================================================
