------------------------- MODULE PortalRequestProofs -------------------------
(***************************************************************************)
(* Theorems about PortalRequest, for any number of calls and any number of *)
(* times the bus connection is lost.                                       *)
(*                                                                         *)
(* What a call gets from the shared connection depends on where it is:     *)
(* Stage says when it is subscribed, when the portal knows of it and when  *)
(* it can have a result; Signal that a Response is under way in one place  *)
(* per channel, and only after its dialog was answered.                    *)
(***************************************************************************)
EXTENDS PortalRequest, TLAPS

Before == {"idle", "connect", "subscribe"}
InPortal == {"call", "calling", "wait"}

\* A call and its place.
Stage(c) ==
    /\ pc[c] \in Before \cup {"call"} => portal[c] = "none"
    /\ pc[c] \notin {"cleanup", "done"} => result[c] = Nowhere
    /\ c \in subscribed \cup matched => pc[c] \in InPortal \cup {"cleanup"} /\ kind[c] # "Open"
    /\ deferred[c] # {} => c \in subscribed
    /\ pc[c] = "subscribe" => kind[c] # "Open"
    /\ pc[c] \in InPortal /\ kind[c] # "Open" => c \in subscribed /\ c \in matched
    /\ kind[c] = "Open" => portal[c] \notin Answers

\* The Response of d has reached channel c.
Reached(c, d) == slot[c] = d \/ d \in deferred[c]

\* A Response and its dialog.
Signal(d) ==
    /\ d \in bus => portal[d] \in Answers
    /\ \A c \in Calls : Reached(c, d) => portal[d] \in Answers /\ d \notin bus

IInv ==
    /\ TypeOK
    /\ \A c \in Calls : Stage(c)
    /\ \A d \in Calls : Signal(d)
    /\ OwnAnswer
    /\ AnswerKept

USE PortalAssumption

-----------------------------------------------------------------------------
\* At the start no call is in the portal.
LEMMA InitInv == Init => IInv
<1> SUFFICES ASSUME Init PROVE IInv
    OBVIOUS
<1>1. TypeOK
    BY DEF Init, TypeOK, Places, Kinds, Nowhere, Results
<1>2. \A c \in Calls : Stage(c)
    BY DEF Init, Stage, Before, Answers, InPortal
<1>3. \A d \in Calls : Signal(d)
    BY DEF Init, Signal, Reached
<1>4. OwnAnswer /\ AnswerKept
    BY DEF Init, OwnAnswer, AnswerKept, Nowhere
<1> QED
    BY <1>1, <1>2, <1>3, <1>4 DEF IInv

\* One call moves on, and may be given a result; its dialogs and the connection stay.
LEMMA CallMoves ==
    ASSUME IInv, NEW c \in Calls, NEW p \in Places, NEW r,
           pc' = [pc EXCEPT ![c] = p], result' = [result EXCEPT ![c] = r],
           UNCHANGED <<kind, subscribed, matched, closed, channels, dialogs>>,
           timer' \subseteq Calls, losses' \in 0..MaxLosses,
           p \in Before \cup {"call"} => pc[c] \in Before \cup {"call"},
           p \in {"calling", "wait"} => pc[c] \in {"calling", "wait"},
           p = "subscribe" => kind[c] # "Open",
           p \in InPortal => pc[c] \in InPortal \/ kind[c] = "Open",
           p \notin InPortal \cup {"cleanup"} => c \notin subscribed \cup matched,
           \/ r = result[c] /\ (p \notin {"cleanup", "done"} => r = Nowhere)
           \/ /\ p = "done" /\ r \in [is : Results, of : {c, Nobody}]
              /\ r.of = c => tool[c] # "none" \/ kind[c] = "Open" \/ portal[c] = "none"
    PROVE  IInv'
<1>1. pc \in [Calls -> Places] /\ result \in [Calls -> [is : Results, of : Calls \cup {Nobody}]]
    BY DEF IInv, TypeOK
<1>2. /\ \A d \in Calls : pc'[d] = IF d = c THEN p ELSE pc[d]
      /\ \A d \in Calls : result'[d] = IF d = c THEN r ELSE result[d]
    BY <1>1
<1>3. r \in [is : Results, of : Calls \cup {Nobody}]
    BY <1>1
<1>4. TypeOK'
    BY <1>1, <1>3 DEF IInv, TypeOK, channels, dialogs
<1>5. ASSUME NEW d \in Calls PROVE Stage(d)'
    <2>1. Stage(d)
        BY DEF IInv
    <2>2. CASE d = c
        BY <1>2, <2>1, <2>2 DEF Stage, channels, dialogs
    <2>3. CASE d # c
        BY <1>2, <2>1, <2>3 DEF Stage, channels, dialogs
    <2> QED
        BY <2>2, <2>3
<1>6. \A d \in Calls : Signal(d)'
    BY DEF IInv, Signal, Reached, channels, dialogs
<1>7. OwnAnswer'
    BY <1>2 DEF IInv, OwnAnswer, dialogs
<1>8. AnswerKept'
    BY <1>2 DEF IInv, AnswerKept, channels, dialogs
<1> QED
    BY <1>4, <1>5, <1>6, <1>7, <1>8 DEF IInv

\* The same for a call that keeps its result.
LEMMA CallGoes ==
    ASSUME IInv, NEW c \in Calls, NEW p \in Places,
           Goto(c, p), UNCHANGED result,
           UNCHANGED <<kind, subscribed, matched, closed, channels, dialogs>>,
           timer' \subseteq Calls, losses' \in 0..MaxLosses,
           p \in Before \cup {"call"} => pc[c] \in Before \cup {"call"},
           p \in {"calling", "wait"} => pc[c] \in {"calling", "wait"},
           p = "subscribe" => kind[c] # "Open",
           p \in InPortal => pc[c] \in InPortal \/ kind[c] = "Open",
           p \notin InPortal \cup {"cleanup"} => c \notin subscribed \cup matched,
           pc[c] \notin {"cleanup", "done"} \/ p \in {"cleanup", "done"}
    PROVE  IInv'
<1>1. result' = [result EXCEPT ![c] = result[c]]
    BY DEF IInv, TypeOK
<1>2. p \notin {"cleanup", "done"} => result[c] = Nowhere
    BY DEF IInv, Stage
<1> QED
    BY <1>1, <1>2, CallMoves DEF Goto

\* Before its request a call leaves nothing behind, wherever it goes.
LEMMA EarlyInv ==
    ASSUME IInv, NEW c \in Calls,
           Begin(c) \/ SaveAtTarget(c) \/ PortalAvailable(c) \/ CannotOpen(c) \/ PortalMissing(c)
    PROVE  IInv'
<1>1. pc[c] \in Before /\ UNCHANGED Elsewhere
    BY DEF Begin, SaveAtTarget, PortalAvailable, CannotOpen, PortalMissing, Before
<1>2. /\ UNCHANGED <<kind, subscribed, matched, closed, channels, dialogs>>
      /\ timer' \subseteq Calls /\ losses' \in 0..MaxLosses
    BY <1>1 DEF Elsewhere, Request, IInv, TypeOK
<1>3. portal[c] = "none" /\ c \notin subscribed \cup matched
    BY <1>1 DEF IInv, Stage, Before, InPortal
<1>4. CASE Begin(c) \/ PortalAvailable(c) \/ PortalMissing(c)
    <2>1. PICK p \in {"connect", "call", "subscribe", "fallback"} :
              /\ Goto(c, p)
              /\ p = "call" => kind[c] = "Open"
              /\ p = "subscribe" => kind[c] # "Open"
        BY <1>4 DEF Begin, PortalAvailable, PortalMissing
    <2>2. p \in Places /\ UNCHANGED result
        BY <1>4 DEF Places, Begin, PortalAvailable, PortalMissing
    <2> QED
        BY <1>1, <1>2, <1>3, <2>1, <2>2, CallGoes DEF Before, InPortal
<1>5. CASE SaveAtTarget(c) \/ CannotOpen(c)
    <2>1. PICK r \in [is : Results, of : {c, Nobody}] :
              result' = [result EXCEPT ![c] = r] /\ pc' = [pc EXCEPT ![c] = "done"]
        BY <1>5 DEF SaveAtTarget, CannotOpen, Settle, Goto, Results
    <2> QED
        BY <1>2, <1>3, <2>1, CallMoves DEF Places, Before, InPortal
<1> QED
    BY <1>4, <1>5

\* A subscribed call has its channel and its rule; nothing is in the channel that was
\* not before.
LEMMA NewPortalRequestInv ==
    ASSUME IInv, NEW c \in Calls, NewPortalRequest(c)
    PROVE  IInv'
<1>1. /\ pc \in [Calls -> Places] /\ pc' = [pc EXCEPT ![c] = "call"] /\ pc[c] = "subscribe"
      /\ subscribed' = subscribed \cup {c} /\ matched' = matched \cup {c}
      /\ UNCHANGED <<kind, closed, timer, losses, bus, slot, deferred, portal, tool, result>>
    BY DEF NewPortalRequest, Goto, IInv, TypeOK, channels, dialogs
<1>2. TypeOK'
    BY <1>1 DEF IInv, TypeOK, Places
<1>3. ASSUME NEW d \in Calls PROVE Stage(d)'
    <2>1. Stage(d) /\ Stage(c)
        BY DEF IInv
    <2>2. CASE d = c
        BY <1>1, <2>1, <2>2 DEF Stage, Before, InPortal
    <2>3. CASE d # c
        BY <1>1, <2>1, <2>3 DEF Stage
    <2> QED
        BY <2>2, <2>3
<1>4. \A d \in Calls : Signal(d)'
    BY <1>1 DEF IInv, Signal, Reached
<1>5. OwnAnswer' /\ AnswerKept'
    BY <1>1 DEF IInv, OwnAnswer, AnswerKept
<1> QED
    BY <1>2, <1>3, <1>4, <1>5 DEF IInv

\* A dialog opens that no Response was given for.
LEMMA CallPortalInv ==
    ASSUME IInv, NEW c \in Calls, CallPortal(c)
    PROVE  IInv'
<1>1. /\ pc \in [Calls -> Places] /\ pc' = [pc EXCEPT ![c] = "calling"] /\ pc[c] = "call"
      /\ portal' = [portal EXCEPT ![c] = "open"]
      /\ portal \in [Calls -> {"none", "open"} \cup Answers]
      /\ UNCHANGED <<kind, subscribed, matched, closed, timer, losses, bus, slot, deferred,
                     tool, result>>
    BY DEF CallPortal, Goto, IInv, TypeOK, channels, Request
<1>2. portal[c] = "none" /\ result[c] = Nowhere
    BY <1>1 DEF IInv, Stage
<1>3. TypeOK'
    BY <1>1 DEF IInv, TypeOK, Places
<1>4. ASSUME NEW d \in Calls PROVE Stage(d)'
    <2>1. Stage(d)
        BY DEF IInv
    <2>2. CASE d = c
        BY <1>1, <2>1, <2>2 DEF Stage, Before, InPortal, Answers
    <2>3. CASE d # c
        BY <1>1, <2>1, <2>3 DEF Stage
    <2> QED
        BY <2>2, <2>3
<1>5. \A d \in Calls : Signal(d)'
    BY <1>1, <1>2 DEF IInv, Signal, Reached, Answers
<1>6. OwnAnswer'
    BY <1>1, <1>2 DEF IInv, OwnAnswer, Nowhere
<1>7. AnswerKept'
    BY <1>1 DEF IInv, AnswerKept, Answers
<1> QED
    BY <1>3, <1>4, <1>5, <1>6, <1>7 DEF IInv

\* The method call returns, fails or is overtaken by the timer.
LEMMA CallEndsInv ==
    ASSUME IInv, NEW c \in Calls, CallReturns(c) \/ CallFails(c) \/ TimerFires(c) \/ TimedOut(c)
    PROVE  IInv'
<1>1. /\ UNCHANGED <<kind, subscribed, matched, closed, channels, dialogs>>
      /\ timer' \subseteq Calls /\ losses' \in 0..MaxLosses
    BY DEF CallReturns, CallFails, TimerFires, TimedOut, Elsewhere, Request, IInv, TypeOK
<1>2. CASE CallReturns(c) /\ kind[c] = "Open"
    <2>1. c \notin subscribed \cup matched
        BY <1>2 DEF IInv, Stage
    <2>2. PICK r \in [is : Results, of : {c, Nobody}] :
              result' = [result EXCEPT ![c] = r] /\ pc' = [pc EXCEPT ![c] = "done"]
        BY <1>2 DEF CallReturns, Settle, Goto, Results
    <2> QED
        BY <1>1, <1>2, <2>1, <2>2, CallMoves DEF Places, Before, InPortal
<1>3. CASE CallReturns(c) /\ kind[c] # "Open"
    BY <1>1, <1>3, CallGoes DEF CallReturns, Places, Before, InPortal
<1>4. CASE CallFails(c) \/ TimedOut(c)
    BY <1>1, <1>4, CallGoes DEF CallFails, TimedOut, GivesUp, Places, Before, InPortal
<1>5. CASE TimerFires(c)
    <2>1. Goto(c, "wait") /\ UNCHANGED result
        BY <1>5 DEF TimerFires, Goto, IInv, TypeOK
    <2> QED
        BY <1>1, <1>5, <2>1, CallGoes DEF TimerFires, Places, Before, InPortal
<1> QED
    BY <1>2, <1>3, <1>4, <1>5

-----------------------------------------------------------------------------
\* The portal and the bus move no call.
LEMMA AnswerInv ==
    ASSUME IInv, NEW c \in Calls, NEW a \in Answers, Answer(c, a)
    PROVE  IInv'
<1>1. /\ portal[c] = "open" /\ kind[c] # "Open" /\ portal' = [portal EXCEPT ![c] = a]
      /\ portal \in [Calls -> {"none", "open"} \cup Answers] /\ bus' = bus \cup {c}
      /\ UNCHANGED <<pc, kind, subscribed, matched, closed, timer, losses, slot, deferred,
                     tool, result>>
    BY DEF Answer, Request, IInv, TypeOK
<1>2. TypeOK'
    BY <1>1 DEF IInv, TypeOK
<1>3. ASSUME NEW d \in Calls PROVE Stage(d)'
    <2>1. Stage(d)
        BY DEF IInv
    <2>2. CASE d = c
        BY <1>1, <2>1, <2>2 DEF Stage
    <2>3. CASE d # c
        BY <1>1, <2>1, <2>3 DEF Stage
    <2> QED
        BY <2>2, <2>3
<1>4. \A d \in Calls : ~Reached(d, c)
    BY <1>1 DEF IInv, Signal, Answers
<1>5. \A d \in Calls : Signal(d)'
    BY <1>1, <1>4 DEF IInv, Signal, Reached
<1>6. result[c].of = Nobody \/ result[c].is \notin {"chosen", "canceled"} \/ tool[c] # "none"
        \/ kind[c] = "Open"
    BY <1>1 DEF IInv, OwnAnswer
<1>7. OwnAnswer'
    BY <1>1, <1>6 DEF IInv, OwnAnswer
<1>8. AnswerKept'
    BY <1>1 DEF IInv, AnswerKept
<1> QED
    BY <1>2, <1>3, <1>5, <1>7, <1>8 DEF IInv

\* What is on the bus, and is asked for, reaches every living channel.
LEMMA DeliverInv ==
    ASSUME IInv, NEW c \in Calls, Deliver(c)
    PROVE  IInv'
<1>1. /\ c \in bus /\ bus' = bus \ {c}
      /\ UNCHANGED <<pc, kind, subscribed, matched, closed, timer, losses, portal, tool, result>>
    BY DEF Deliver, Request, dialogs
<1>2. PICK heard \in Audiences(c) :
        /\ slot' = [d \in Calls |-> IF d \in heard /\ slot[d] = Nobody THEN c ELSE slot[d]]
        /\ deferred' = [d \in Calls |->
                          IF d \in heard /\ slot[d] # Nobody THEN deferred[d] \cup {c}
                          ELSE deferred[d]]
    BY DEF Deliver
<1>3. heard \subseteq subscribed \ closed /\ (c \in matched => heard = subscribed \ closed)
    BY <1>2 DEF Audiences
<1>4. portal[c] \in Answers /\ \A d \in Calls : ~Reached(d, c)
    BY <1>1 DEF IInv, Signal
<1>5. \A d, e \in Calls : Reached(d, e)' => Reached(d, e) \/ e = c
    BY <1>2 DEF Reached
<1>6. TypeOK'
    <2>1. slot' \in [Calls -> Calls \cup {Nobody}] /\ deferred' \in [Calls -> SUBSET Calls]
        BY <1>2 DEF IInv, TypeOK
    <2>2. \A d \in Calls : slot'[d] = Nobody \/ slot'[d] \notin deferred'[d]
        BY <1>2, <1>4 DEF IInv, TypeOK, Reached
    <2> QED
        BY <1>1, <2>1, <2>2 DEF IInv, TypeOK
<1>7. ASSUME NEW d \in Calls PROVE Stage(d)'
    <2>1. Stage(d)
        BY DEF IInv
    <2>2. deferred'[d] # {} => deferred[d] # {} \/ d \in subscribed
        BY <1>2, <1>3
    <2> QED
        BY <1>1, <2>1, <2>2 DEF Stage
<1>8. \A d \in Calls : Signal(d)'
    BY <1>1, <1>4, <1>5 DEF IInv, Signal
<1>9. OwnAnswer'
    BY <1>1 DEF IInv, OwnAnswer
<1>10. AnswerKept'
    <2> SUFFICES ASSUME NEW d \in Calls, pc[d] \in {"calling", "wait"}, portal[d] \in Answers,
                        d \notin closed
                 PROVE  d \in bus' \/ slot'[d] = d \/ d \in deferred'[d]
        BY <1>1 DEF AnswerKept
    <2>1. d \in bus \/ slot[d] = d \/ d \in deferred[d]
        BY DEF IInv, AnswerKept
    <2>2. CASE d # c
        BY <1>1, <1>2, <2>1, <2>2
    <2>3. CASE d = c
        <3>1. d \in subscribed /\ d \in matched
            BY DEF IInv, Stage, InPortal
        <3>2. d \in heard
            BY <1>3, <2>3, <3>1
        <3> QED
            BY <1>2, <2>3, <3>2
    <2> QED
        BY <2>2, <2>3
<1> QED
    BY <1>6, <1>7, <1>8, <1>9, <1>10 DEF IInv

\* A signal that waited for room enters its channel.
LEMMA DeliverDeferredInv ==
    ASSUME IInv, NEW c \in Calls, NEW d \in Calls, DeliverDeferred(c, d)
    PROVE  IInv'
<1>1. /\ slot[c] = Nobody /\ d \in deferred[c]
      /\ slot' = [slot EXCEPT ![c] = d] /\ deferred' = [deferred EXCEPT ![c] = @ \ {d}]
      /\ slot \in [Calls -> Calls \cup {Nobody}] /\ deferred \in [Calls -> SUBSET Calls]
      /\ UNCHANGED <<pc, kind, subscribed, matched, closed, timer, losses, bus, portal, tool,
                     result>>
    BY DEF DeliverDeferred, Request, dialogs, IInv, TypeOK
<1>2. \A x, y \in Calls : Reached(x, y)' => Reached(x, y)
    BY <1>1 DEF Reached
<1>3. TypeOK'
    BY <1>1 DEF IInv, TypeOK
<1>4. \A x \in Calls : Stage(x)'
    BY <1>1 DEF IInv, Stage
<1>5. \A x \in Calls : Signal(x)'
    BY <1>1, <1>2 DEF IInv, Signal
<1>6. OwnAnswer' /\ AnswerKept'
    BY <1>1 DEF IInv, OwnAnswer, AnswerKept
<1> QED
    BY <1>3, <1>4, <1>5, <1>6 DEF IInv

\* Whoever could lose an answer is on the lost connection.
LEMMA BusLostInv ==
    ASSUME IInv, BusLost
    PROVE  IInv'
<1>1. /\ losses' \in 0..MaxLosses /\ bus' = {} /\ deferred' = [c \in Calls |-> {}]
      /\ closed' = closed \cup {c \in Calls : pc[c] \in {"subscribe", "call", "calling", "wait"}}
      /\ UNCHANGED <<pc, kind, subscribed, matched, timer, slot, portal, tool, result>>
    BY DEF BusLost, dialogs, IInv, TypeOK
<1>2. TypeOK'
    BY <1>1 DEF IInv, TypeOK
<1>3. \A d \in Calls : Stage(d)'
    BY <1>1 DEF IInv, Stage
<1>4. \A d \in Calls : Signal(d)'
    BY <1>1 DEF IInv, Signal, Reached
<1>5. OwnAnswer'
    BY <1>1 DEF IInv, OwnAnswer
<1>6. AnswerKept'
    BY <1>1 DEF AnswerKept
<1> QED
    BY <1>2, <1>3, <1>4, <1>5, <1>6 DEF IInv

-----------------------------------------------------------------------------
\* A Response in the channel of its call was given in its dialog.
LEMMA ReceiveInv ==
    ASSUME IInv, NEW c \in Calls, Receive(c)
    PROVE  IInv'
<1>1. PICK d : d = slot[c]
    OBVIOUS
<1>2. /\ pc[c] = "wait" /\ d \in Calls /\ slot' = [slot EXCEPT ![c] = Nobody]
      /\ pc \in [Calls -> Places] /\ slot \in [Calls -> Calls \cup {Nobody}]
      /\ result \in [Calls -> [is : Results, of : Calls \cup {Nobody}]]
      /\ UNCHANGED <<kind, subscribed, matched, closed, timer, losses, bus, deferred, portal, tool>>
    BY <1>1 DEF Receive, Request, dialogs, IInv, TypeOK
<1>3. result[c] = Nowhere /\ portal[d] \in Answers
    BY <1>1, <1>2 DEF IInv, Stage, Signal, Reached
<1>4. PICK p \in {"wait", "cleanup"}, r \in {Nowhere, [is |-> portal[c], of |-> c]} :
        /\ pc' = [pc EXCEPT ![c] = p] /\ result' = [result EXCEPT ![c] = r]
        /\ p = "wait" => r = Nowhere /\ d # c
        /\ r = Nowhere \/ (d = c /\ portal[c] # "malformed")
    <2>1. CASE d # c
        BY <1>1, <1>2, <1>3, <2>1 DEF Receive, Awaited
    <2>2. CASE d = c /\ portal[c] = "malformed"
        BY <1>1, <1>2, <1>3, <2>2 DEF Receive, Awaited, Conclude, Goto
    <2>3. CASE d = c /\ portal[c] # "malformed"
        BY <1>1, <1>2, <1>3, <2>3 DEF Receive, Awaited, Conclude, Settle, Goto
    <2> QED
        BY <2>1, <2>2, <2>3
<1>5. r \in [is : Results, of : Calls \cup {Nobody}]
    BY <1>3, <1>4 DEF Nowhere, Results, Answers
<1>6. TypeOK'
    BY <1>2, <1>4, <1>5 DEF IInv, TypeOK, Places
<1>7. ASSUME NEW e \in Calls PROVE Stage(e)'
    <2>1. Stage(e)
        BY DEF IInv
    <2>2. CASE e = c
        BY <1>2, <1>4, <2>1, <2>2 DEF Stage, Before, InPortal
    <2>3. CASE e # c
        BY <1>2, <1>4, <2>1, <2>3 DEF Stage
    <2> QED
        BY <2>2, <2>3
<1>8. \A e \in Calls : Signal(e)'
    BY <1>2 DEF IInv, Signal, Reached
<1>9. OwnAnswer'
    BY <1>2, <1>4 DEF IInv, OwnAnswer, Nowhere
<1>10. AnswerKept'
    BY <1>1, <1>2, <1>4 DEF IInv, AnswerKept
<1> QED
    BY <1>6, <1>7, <1>8, <1>9, <1>10 DEF IInv

\* cleanup takes the call off the connection.
LEMMA CleanupInv ==
    ASSUME IInv, NEW c \in Calls, Cleanup(c)
    PROVE  IInv'
<1>1. PICK p \in {"fallback", "done"} :
        pc' = [pc EXCEPT ![c] = p] /\ (p = "fallback" => result[c] = Nowhere)
    BY DEF Cleanup, Goto
<1>2. /\ subscribed' = subscribed \ {c} /\ matched' = matched \ {c} /\ pc[c] = "cleanup"
      /\ slot' = [slot EXCEPT ![c] = Nobody] /\ deferred' = [deferred EXCEPT ![c] = {}]
      /\ pc \in [Calls -> Places] /\ slot \in [Calls -> Calls \cup {Nobody}]
      /\ deferred \in [Calls -> SUBSET Calls]
      /\ UNCHANGED <<kind, closed, timer, losses, bus, portal, tool, result>>
    BY DEF Cleanup, dialogs, IInv, TypeOK
<1>3. TypeOK'
    BY <1>1, <1>2 DEF IInv, TypeOK, Places
<1>4. ASSUME NEW d \in Calls PROVE Stage(d)'
    <2>1. Stage(d)
        BY DEF IInv
    <2>2. CASE d = c
        BY <1>1, <1>2, <2>1, <2>2 DEF Stage, Before, InPortal
    <2>3. CASE d # c
        BY <1>1, <1>2, <2>1, <2>3 DEF Stage
    <2> QED
        BY <2>2, <2>3
<1>5. \A d \in Calls : Signal(d)'
    BY <1>2 DEF IInv, Signal, Reached
<1>6. OwnAnswer'
    BY <1>2 DEF IInv, OwnAnswer
<1>7. AnswerKept'
    BY <1>1, <1>2 DEF IInv, AnswerKept
<1> QED
    BY <1>3, <1>4, <1>5, <1>6, <1>7 DEF IInv

\* The fallback comes when the call is off the connection, and gives its own answer.
LEMMA FallbackMoves ==
    ASSUME IInv, NEW c \in Calls, pc[c] \in {"fallback", "dialog"},
           UNCHANGED <<kind, subscribed, matched, closed, timer, losses, bus, slot, deferred, portal>>,
           NEW p \in {"dialog", "done"}, NEW w \in {"none", "open", "answered"},
           NEW r \in [is : Results, of : {c, Nobody}],
           pc' = [pc EXCEPT ![c] = p], tool' = [tool EXCEPT ![c] = w],
           result' = [result EXCEPT ![c] = r],
           p = "dialog" => r = Nowhere,
           r.of = Nobody \/ w # "none" \/ kind[c] = "Open"
    PROVE  IInv'
<1>1. c \notin subscribed \cup matched
    BY DEF IInv, Stage, InPortal
<1>2. /\ pc \in [Calls -> Places] /\ tool \in [Calls -> {"none", "open", "answered"}]
      /\ result \in [Calls -> [is : Results, of : Calls \cup {Nobody}]]
      /\ r \in [is : Results, of : Calls \cup {Nobody}]
    BY DEF IInv, TypeOK
<1>3. TypeOK'
    BY <1>2 DEF IInv, TypeOK, Places
<1>4. ASSUME NEW d \in Calls PROVE Stage(d)'
    <2>1. Stage(d)
        BY DEF IInv
    <2>2. CASE d = c
        BY <1>1, <1>2, <2>1, <2>2 DEF Stage, Before, InPortal
    <2>3. CASE d # c
        BY <1>2, <2>1, <2>3 DEF Stage
    <2> QED
        BY <2>2, <2>3
<1>5. \A d \in Calls : Signal(d)'
    BY DEF IInv, Signal, Reached
<1>6. OwnAnswer'
    BY <1>2 DEF IInv, OwnAnswer
<1>7. AnswerKept'
    BY <1>2 DEF IInv, AnswerKept
<1> QED
    BY <1>3, <1>4, <1>5, <1>6, <1>7 DEF IInv

\* The fallback tools are run by a call that has left the portal.
LEMMA FallbackInv ==
    ASSUME IInv, NEW c \in Calls, NoFallback(c) \/ OpenTool(c) \/ ToolExits(c)
    PROVE  IInv'
<1>1. /\ pc[c] \in {"fallback", "dialog"}
      /\ UNCHANGED <<kind, subscribed, matched, closed, timer, losses, bus, slot, deferred, portal>>
    BY DEF NoFallback, OpenTool, ToolExits, Elsewhere, Request, channels, dialogs
<1>2. /\ tool \in [Calls -> {"none", "open", "answered"}]
      /\ result \in [Calls -> [is : Results, of : Calls \cup {Nobody}]] /\ result[c] = Nowhere
    BY <1>1 DEF IInv, Stage, TypeOK
<1>3. CASE NoFallback(c)
    <2> DEFINE r == [is |-> "error", of |-> Nobody]
    <2>1. /\ tool' = [tool EXCEPT ![c] = tool[c]] /\ tool[c] \in {"none", "open", "answered"}
          /\ pc' = [pc EXCEPT ![c] = "done"] /\ result' = [result EXCEPT ![c] = r]
        BY <1>2, <1>3 DEF NoFallback, Elsewhere, dialogs, Settle, Goto
    <2>2. r \in [is : Results, of : {c, Nobody}] /\ r.of = Nobody
        BY DEF Results
    <2> HIDE DEF r
    <2> QED
        BY <1>1, <2>1, <2>2, FallbackMoves
<1>4. CASE OpenTool(c) /\ kind[c] = "Open"
    <2> DEFINE r == [is |-> "chosen", of |-> c]
    <2>1. /\ tool' = [tool EXCEPT ![c] = "open"]
          /\ pc' = [pc EXCEPT ![c] = "done"] /\ result' = [result EXCEPT ![c] = r]
        BY <1>4 DEF OpenTool, Settle, Goto
    <2>2. r \in [is : Results, of : {c, Nobody}]
        BY DEF Results
    <2> HIDE DEF r
    <2> QED
        BY <1>1, <1>4, <2>1, <2>2, FallbackMoves
<1>5. CASE OpenTool(c) /\ kind[c] # "Open"
    <2>1. /\ tool' = [tool EXCEPT ![c] = "open"]
          /\ pc' = [pc EXCEPT ![c] = "dialog"] /\ result' = [result EXCEPT ![c] = Nowhere]
        BY <1>2, <1>5 DEF OpenTool, Goto
    <2>2. Nowhere \in [is : Results, of : {c, Nobody}]
        BY DEF Nowhere, Results
    <2> QED
        BY <1>1, <2>1, <2>2, FallbackMoves
<1>6. CASE ToolExits(c)
    <2>1. PICK is \in {"chosen", "canceled", "error"} :
              result' = [result EXCEPT ![c] = [is |-> is, of |-> c]]
        BY <1>6 DEF ToolExits, Settle
    <2> DEFINE r == [is |-> is, of |-> c]
    <2>2. /\ tool' = [tool EXCEPT ![c] = "answered"]
          /\ pc' = [pc EXCEPT ![c] = "done"] /\ result' = [result EXCEPT ![c] = r]
        BY <1>6, <2>1 DEF ToolExits, Goto
    <2>3. r \in [is : Results, of : {c, Nobody}]
        BY DEF Results
    <2> HIDE DEF r
    <2> QED
        BY <1>1, <2>2, <2>3, FallbackMoves
<1> QED
    BY <1>3, <1>4, <1>5, <1>6

\* A step that changes nothing keeps the invariant.
LEMMA StutterInv ==
    ASSUME IInv, UNCHANGED vars
    PROVE  IInv'
<1>1. UNCHANGED <<pc, kind, subscribed, matched, closed, timer, losses, bus, slot, deferred,
                  portal, tool, result>>
    BY DEF vars, channels, dialogs
<1>2. TypeOK'
    BY <1>1 DEF IInv, TypeOK
<1>3. \A c \in Calls : Stage(c)' /\ Signal(c)'
    BY <1>1 DEF IInv, Stage, Signal, Reached
<1> QED
    BY <1>1, <1>2, <1>3 DEF IInv, OwnAnswer, AnswerKept

\* The invariant is inductive: one lemma per step.
LEMMA NextInv == IInv /\ [Next]_vars => IInv'
<1> SUFFICES ASSUME IInv, [Next]_vars PROVE IInv'
    OBVIOUS
<1>1. ASSUME NEW c \in Calls,
             \/ Begin(c) \/ SaveAtTarget(c) \/ PortalAvailable(c) \/ CannotOpen(c)
             \/ PortalMissing(c) \/ NewPortalRequest(c)
      PROVE  IInv'
    BY <1>1, EarlyInv, NewPortalRequestInv
<1>2. ASSUME NEW c \in Calls,
             \/ CallPortal(c) \/ CallReturns(c) \/ CallFails(c)
             \/ TimerFires(c) \/ TimedOut(c)
      PROVE  IInv'
    BY <1>2, CallPortalInv, CallEndsInv
<1>3. ASSUME NEW c \in Calls,
             \/ \E a \in Answers : Answer(c, a)
             \/ Deliver(c)
             \/ \E d \in Calls : DeliverDeferred(c, d)
      PROVE  IInv'
    BY <1>3, AnswerInv, DeliverInv, DeliverDeferredInv
<1>4. ASSUME NEW c \in Calls, Receive(c) \/ Cleanup(c) PROVE IInv'
    BY <1>4, ReceiveInv, CleanupInv
<1>5. ASSUME NEW c \in Calls, NoFallback(c) \/ OpenTool(c) \/ ToolExits(c) PROVE IInv'
    BY <1>5, FallbackInv
<1>6. CASE BusLost
    BY <1>6, BusLostInv
<1>7. CASE UNCHANGED vars
    BY <1>7, StutterInv
<1> QED
    BY <1>1, <1>2, <1>3, <1>4, <1>5, <1>6, <1>7 DEF Next

\* It holds for any number of calls and lost connections.
THEOREM Invariance == Spec => []IInv
BY InitInv, NextInv, PTL DEF Spec

-----------------------------------------------------------------------------
\* TypeOK holds in every run: every variable keeps its shape, and no channel holds a
\* Response that also waits for room in it.
THEOREM TypeCorrect == Spec => []TypeOK
<1>1. IInv => TypeOK
    BY DEF IInv
<1> QED
    BY <1>1, Invariance, PTL

\* A call returns what was answered in its own dialog, of however many requests the
\* connection carries the signals.
THEOREM OwnAnswers == Spec => []OwnAnswer
<1>1. IInv => OwnAnswer
    BY DEF IInv
<1> QED
    BY <1>1, Invariance, PTL

\* No answer to a call that waits on a living connection is lost, whatever fills the
\* channel of capacity 1.
THEOREM NoAnswerIsLost == Spec => []AnswerKept
<1>1. IInv => AnswerKept
    BY DEF IInv
<1> QED
    BY <1>1, Invariance, PTL

\* A call that has left the portal, in whichever way, has no channel, rule or waiting
\* signal on the connection the other calls use.
THEOREM CallsCleanUp == Spec => []NothingLeft
<1>1. IInv => NothingLeft
    BY DEF IInv, Stage, InPortal, NothingLeft
<1> QED
    BY <1>1, Invariance, PTL

=============================================================================
