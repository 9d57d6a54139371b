---------------------------- MODULE WebauthnProofs ----------------------------
(***************************************************************************)
(* Theorems about Webauthn, for any number of ceremonies and of devices.   *)
(*                                                                         *)
(* finish() may run in every thread at once, one step at a time; what it   *)
(* takes it takes under the lock.  So a call is always in one place: it is *)
(* pending, or taken by one thread, or its reply is posted, or it has been *)
(* answered.  A ceremony that started when nothing was left of earlier     *)
(* ones has, while it is pending, every thread, watchdog and transport to  *)
(* itself.                                                                 *)
(***************************************************************************)
EXTENDS Webauthn, TLAPS

Running == {"connecting", "running"}

\* What a thread holds, by the place it is at.
WorkInPlace(t) ==
    /\ pc[t] \in Starting => t = Main
    /\ pc[t] \in Running => t # Main
    /\ pc[t] \in Starting \cup Running => work[t] # NoCall
    /\ IF pc[t] \in Finishing THEN verdict[t] # NoReply ELSE took[t] = NoCall

PostedFor(c) == {p \in posted : p.call = c}

\* A call that was made is in exactly one place, and one that was not is in none.
OnePlace(c) ==
    /\ c \notin made => TakenIn(c) = {} /\ PostedFor(c) = {} /\ ~Answered(c)
    /\ c \in made =>
           pendingResult = c \/ TakenIn(c) # {} \/ PostedFor(c) # {} \/ Answered(c)
    /\ pendingResult = c => TakenIn(c) = {} /\ PostedFor(c) = {} /\ ~Answered(c)
    /\ TakenIn(c) # {} => PostedFor(c) = {} /\ ~Answered(c)
    /\ PostedFor(c) # {} => ~Answered(c)
    /\ \A t, u \in TakenIn(c) : t = u
    /\ \A p, q \in PostedFor(c) : p = q

\* What a ceremony that started with nothing left of earlier ones has to itself
\* while it is pending.
ByItself(c) ==
    pendingResult = c =>
        /\ \A t \in Threads : pc[t] # "idle" => work[t] = c /\ pc[t] \notin Finishing
        /\ timeoutRunnable \in {NoCall, c} /\ watchdogs \subseteq {c}
        /\ pc[Main] # "startUsb" => "usb" \in discovery
        /\ pc[Main] \notin {"startUsb", "startNfc", "setActive"} => discoveryActive
        /\ pc[Main] \in {"postWatchdog", "idle"} => timeoutRunnable = c
        /\ pc[Main] = "idle" => c \in watchdogs

OwnOf(c) == \A what \in Outcomes(c) : what.kind \in {"response", "timeout"} => what.of = c

IInv ==
    /\ TypeOK
    /\ pendingAction = pendingResult
    /\ \A t \in Threads : WorkInPlace(t)
    /\ \A c \in Calls : OnePlace(c)
    /\ \A c \in fresh : ByItself(c) /\ OwnOf(c)

USE NoCallAssumption, MainAssumption

-----------------------------------------------------------------------------
\* NoReply is not a reply, and only responses and timeouts belong to a ceremony.
LEMMA RepliesAreReplies ==
    /\ NoReply \notin Replies
    /\ \A code \in ErrorCodes :
           Error(code) \in Replies /\ Error(code).kind \notin {"response", "timeout"}
    /\ \A c \in Calls, kind \in {"response", "timeout"} :
           Outcome(kind, c) \in Replies /\ Outcome(kind, c).of = c
<1>1. \A kind, of : Outcome(kind, of).kind = kind /\ Outcome(kind, of).of = of
    BY DEF Outcome
<1>2. NoReply.kind = "none" /\ \A code \in ErrorCodes : Error(code).kind = code
    BY <1>1 DEF NoReply, Error
<1>3. \A what \in Replies : what.kind # "none"
    BY <1>1, <1>2 DEF Replies, ErrorCodes
<1>4. \A code \in ErrorCodes : code \notin {"response", "timeout"}
    BY DEF ErrorCodes
<1> QED
    BY <1>1, <1>2, <1>3, <1>4 DEF Replies

\* One thread takes whatever is pending; posts are the watchdogs left by the caller.
Takes(t, what, posts) ==
    /\ pc[t] \notin Finishing
    /\ t # Main => work[t] # NoCall
    /\ FinishTake(t, what, posts)
    /\ UNCHANGED <<made, discoveryVars, work, replyVars, fresh, lifeVars>>

\* Who calls finish(): a device that ends, cancel, a watchdog, a failed start.
LEMMA WhoTakes ==
    ASSUME IInv
    PROVE  /\ \A d \in Devices : ActionEnds(d) =>
                  \/ Takes(d, Outcome("response", work[d]), watchdogs)
                  \/ Takes(d, Error("ceremony_failed"), watchdogs)
           /\ Cancel => Takes(Main, Error("cancelled"), watchdogs)
           /\ \A c \in Calls : WatchdogFires(c) =>
                  Takes(Main, Outcome("timeout", c), watchdogs \ {c}) /\ c \in watchdogs
           /\ DiscoveryFails => Takes(Main, Error("ceremony_failed"), watchdogs)
<1>1. ASSUME NEW d \in Devices, ActionEnds(d)
      PROVE  \/ Takes(d, Outcome("response", work[d]), watchdogs)
             \/ Takes(d, Error("ceremony_failed"), watchdogs)
    <2>1. work[d] # NoCall
        BY <1>1 DEF IInv, WorkInPlace, Threads, Running, ActionEnds
    <2> QED
        BY <1>1, <2>1 DEF ActionEnds, Takes, Finishing
<1> QED
    BY <1>1 DEF Cancel, WatchdogFires, DiscoveryFails, Takes, MainIdle, Finishing

TakesAny ==
    \E t \in Threads, what \in Replies : \E posts \in SUBSET watchdogs : Takes(t, what, posts)

\* The steps of the program, those that run finish() taken together.
LEMMA Steps ==
    ASSUME IInv, [Next]_vars
    PROVE  \/ \E c \in Calls, code \in ErrorCodes : RefusedWith(c, code)
           \/ \E c \in Calls : Register(c)
           \/ TakesAny
           \/ \E t \in Threads : RestOfFinish(t)
           \/ RestOfStart
           \/ DeliverReply
           \/ \E d \in Devices : OnDevice(d) \/ Recheck(d)
           \/ ActivityChanges \/ DetachEngine \/ UNCHANGED vars
<1>1. ASSUME NEW c \in Calls, BadArgs(c) \/ NoActivity(c) \/ Busy(c)
      PROVE  \E code \in ErrorCodes : RefusedWith(c, code)
    BY <1>1 DEF BadArgs, NoActivity, Busy, ErrorCodes
<1>2. ASSUME NEW d \in Devices, ActionEnds(d) PROVE TakesAny
    <2>1. work[d] \in Calls /\ d \in Threads
        BY <1>2, WhoTakes DEF IInv, TypeOK, Threads, WorkInPlace, ActionEnds, Running
    <2>2. Outcome("response", work[d]) \in Replies /\ Error("ceremony_failed") \in Replies
        BY <2>1, RepliesAreReplies DEF ErrorCodes
    <2> QED
        BY <1>2, <2>1, <2>2, WhoTakes DEF TakesAny
<1>3. CASE Cancel \/ DiscoveryFails
    <2>1. Error("cancelled") \in Replies /\ Error("ceremony_failed") \in Replies
          /\ Main \in Threads
        BY RepliesAreReplies DEF ErrorCodes, Threads
    <2> QED
        BY <1>3, <2>1, WhoTakes DEF TakesAny
<1>4. ASSUME NEW c \in Calls, WatchdogFires(c) PROVE TakesAny
    <2>1. Outcome("timeout", c) \in Replies /\ Main \in Threads
        BY RepliesAreReplies DEF Threads
    <2> QED
        BY <1>4, <2>1, WhoTakes DEF TakesAny
<1> QED
    BY <1>1, <1>2, <1>3, <1>4 DEF Next, DeviceWorks

\* A thread gives what it took its reply, and is done.
PostsAny(t) ==
    /\ t \in Threads /\ pc[t] \in Finishing
    /\ Posts(t)
    /\ UNCHANGED <<made, pendingVars, watchdogVars, reply, fresh>>

\* The other steps leave the calls where they are.
Quiet == UNCHANGED <<made, pendingVars, finishVars, replyVars, fresh>>

\* These steps leave the calls where they are, or post a reply.
LEMMA QuietSteps ==
    /\ \A t \in Threads : RestOfFinish(t) => PostsAny(t) \/ Quiet
    /\ RestOfStart \/ (\E d \in Devices : OnDevice(d) \/ Recheck(d)) => Quiet
    /\ ActivityChanges \/ DetachEngine \/ UNCHANGED vars => Quiet
<1>1. ASSUME NEW t \in Threads, RestOfFinish(t) PROVE PostsAny(t) \/ Quiet
    BY <1>1
       DEF RestOfFinish, FinishUnstarted, FinishStop, FinishClear, PostsAny, Quiet, Finishing,
           pendingVars, finishVars, replyVars
<1>2. RestOfStart \/ (\E d \in Devices : OnDevice(d) \/ Recheck(d)) => Quiet
    BY DEF RestOfStart, StartUsb, StartNfc, StartDiscovery, SetActive, RememberWatchdog,
           PostWatchdog, OnDevice, Recheck, Quiet, pendingVars, finishVars, replyVars
<1>3. ActivityChanges \/ DetachEngine \/ UNCHANGED vars => Quiet
    BY DEF ActivityChanges, DetachEngine, vars, Quiet, pendingVars, finishVars, replyVars
<1> QED
    BY <1>1, <1>2, <1>3

\* Every step is of one of these kinds.
LEMMA KindsOfSteps ==
    ASSUME IInv, [Next]_vars
    PROVE  \/ \E c \in Calls, code \in ErrorCodes : RefusedWith(c, code)
           \/ \E c \in Calls : Register(c)
           \/ TakesAny
           \/ \E t \in Threads : PostsAny(t)
           \/ DeliverReply
           \/ Quiet
BY Steps, QuietSteps

-----------------------------------------------------------------------------
\* At the start no ceremony was asked for.
LEMMA Start == Init => IInv
<1> SUFFICES ASSUME Init PROVE IInv
    OBVIOUS
<1>1. TypeOK
    BY DEF Init, TypeOK
<1>2. \A t \in Threads : WorkInPlace(t)
    BY DEF Init, WorkInPlace, Starting, Finishing, Running
<1>3. ASSUME NEW c \in Calls PROVE OnePlace(c)
    <2>1. TakenIn(c) = {} /\ PostedFor(c) = {} /\ ~Answered(c)
        BY DEF Init, TakenIn, PostedFor, Answered
    <2> QED
        BY <2>1 DEF Init, OnePlace
<1> QED
    BY <1>1, <1>2, <1>3 DEF Init, IInv

\* Every step keeps the shape of the variables.
LEMMA TypeStep == IInv /\ [Next]_vars => TypeOK'
<1> SUFFICES ASSUME IInv, [Next]_vars PROVE TypeOK'
    OBVIOUS
<1> USE DEF pendingVars, discoveryVars, watchdogVars, finishVars, replyVars, lifeVars
<1>1. ASSUME NEW c \in Calls, NEW code \in ErrorCodes, RefusedWith(c, code) PROVE TypeOK'
    BY <1>1, RepliesAreReplies DEF IInv, TypeOK, RefusedWith, Made
<1>2. ASSUME NEW c \in Calls, Register(c) PROVE TypeOK'
    <2>1. made' = made \cup {c} /\ Main \in Threads
        BY <1>2 DEF Register, Made, Threads
    <2>2. fresh' \subseteq made'
        BY <1>2, <2>1 DEF Register, IInv, TypeOK
    <2> QED
        BY <1>2, <2>1, <2>2 DEF IInv, TypeOK, Register, Goto, Starting
<1>3. ASSUME NEW t \in Threads, NEW what \in Replies, NEW posts \in SUBSET watchdogs,
             Takes(t, what, posts)
      PROVE  TypeOK'
    BY <1>3 DEF IInv, TypeOK, Takes, FinishTake, Goto, Finishing
<1>4. ASSUME NEW t \in Threads, RestOfFinish(t) PROVE TypeOK'
    <2>1. CASE FinishStop(t)
        BY <1>4, <2>1 DEF IInv, TypeOK, FinishStop, Goto, Finishing
    <2>2. ASSUME Posts(t), pc[t] \in Finishing
          PROVE  /\ posted' \subseteq [call : made, reply : Replies]
                 /\ took' \in [Threads -> made \cup {NoCall}]
                 /\ verdict' \in [Threads -> Replies \cup {NoReply}]
                 /\ work' \in [Threads -> made \cup {NoCall}]
                 /\ pc' \in [Threads -> {"idle", "connecting", "running"}
                                            \cup Starting \cup Finishing]
        <3>1. verdict[t] \in Replies
            BY <2>2 DEF IInv, TypeOK, WorkInPlace
        <3> QED
            BY <2>2, <3>1 DEF IInv, TypeOK, Posts, Goto
    <2>3. CASE FinishUnstarted(t) \/ FinishClear(t)
        <3>1. Posts(t) /\ pc[t] \in Finishing /\ discoveryActive' \in BOOLEAN
            BY <2>3 DEF IInv, TypeOK, FinishUnstarted, FinishClear, Finishing
        <3> QED
            BY <2>2, <2>3, <3>1 DEF IInv, TypeOK, FinishUnstarted, FinishClear
    <2> QED
        BY <1>4, <2>1, <2>3 DEF RestOfFinish
<1>5. CASE RestOfStart
    <2>0. Main \in Threads
        BY DEF Threads
    <2>1. CASE StartUsb \/ StartNfc
        BY <2>1 DEF IInv, TypeOK, StartUsb, StartNfc, StartDiscovery, Goto, Starting
    <2>2. CASE SetActive
        BY <2>2 DEF IInv, TypeOK, SetActive, Goto, Starting
    <2>3. CASE RememberWatchdog
        BY <2>0, <2>3 DEF IInv, TypeOK, RememberWatchdog, Goto, Starting
    <2>4. CASE PostWatchdog
        <3>1. work[Main] \in made
            BY <2>0, <2>4 DEF IInv, TypeOK, WorkInPlace, PostWatchdog, Starting
        <3> QED
            BY <2>0, <2>4, <3>1 DEF IInv, TypeOK, PostWatchdog, Goto
    <2> QED
        BY <1>5, <2>1, <2>2, <2>3, <2>4 DEF RestOfStart
<1>6. CASE DeliverReply
    BY <1>6 DEF IInv, TypeOK, DeliverReply
<1>7. ASSUME NEW d \in Devices, OnDevice(d) \/ Recheck(d) PROVE TypeOK'
    <2>1. \/ work' = [work EXCEPT ![d] = pendingAction] /\ Goto(d, "connecting")
          \/ work' = [work EXCEPT ![d] = NoCall] /\ Goto(d, "idle")
          \/ work' = work /\ Goto(d, "running")
        BY <1>7 DEF OnDevice, Recheck
    <2>2. /\ work' \in [Threads -> made \cup {NoCall}]
          /\ pc' \in [Threads -> {"idle", "connecting", "running"}
                                     \cup Starting \cup Finishing]
        BY <2>1 DEF IInv, TypeOK, Goto
    <2> QED
        BY <1>7, <2>2 DEF IInv, TypeOK, OnDevice, Recheck
<1>8. CASE ActivityChanges \/ DetachEngine
    BY <1>8 DEF IInv, TypeOK, ActivityChanges, DetachEngine
<1>9. CASE UNCHANGED vars
    BY <1>9 DEF IInv, TypeOK, vars
<1> QED
    BY <1>1, <1>2, <1>3, <1>4, <1>5, <1>6, <1>7, <1>8, <1>9, Steps DEF TakesAny

\* Every step keeps what a thread holds in line with the place it is at.
LEMMA WorkStep ==
    ASSUME IInv, [Next]_vars, NEW u \in Threads
    PROVE  WorkInPlace(u)'
<1> USE DEF WorkInPlace, Starting, Running, Finishing, finishVars
<1>0. WorkInPlace(u) /\ TypeOK
    BY DEF IInv
<1>1. ASSUME UNCHANGED <<pc, work, took, verdict>> PROVE WorkInPlace(u)'
    BY <1>0, <1>1
<1>2. ASSUME NEW c \in Calls, Register(c) PROVE WorkInPlace(u)'
    BY <1>0, <1>2 DEF TypeOK, Register, Made, MainIdle, Goto
<1>3. ASSUME NEW t \in Threads, NEW what \in Replies, NEW posts, Takes(t, what, posts)
      PROVE  WorkInPlace(u)'
    BY <1>0, <1>3, RepliesAreReplies DEF TypeOK, Takes, FinishTake, Goto
<1>4. ASSUME NEW t \in Threads, RestOfFinish(t) PROVE WorkInPlace(u)'
    <2>1. ASSUME Posts(t) PROVE WorkInPlace(u)'
        BY <1>0, <2>1 DEF TypeOK, Posts, Goto
    <2>2. CASE FinishStop(t)
        BY <1>0, <2>2 DEF TypeOK, FinishStop, Goto
    <2> QED
        BY <1>4, <2>1, <2>2 DEF RestOfFinish, FinishUnstarted, FinishClear
<1>5. CASE RestOfStart
    <2>1. CASE StartUsb \/ StartNfc
        BY <1>0, <2>1 DEF TypeOK, StartUsb, StartNfc, StartDiscovery, Goto
    <2>2. CASE SetActive \/ RememberWatchdog
        BY <1>0, <2>2 DEF TypeOK, SetActive, RememberWatchdog, Goto
    <2>3. CASE PostWatchdog
        BY <1>0, <2>3 DEF TypeOK, PostWatchdog, Goto
    <2> QED
        BY <1>5, <2>1, <2>2, <2>3 DEF RestOfStart
<1>6. ASSUME NEW d \in Devices, OnDevice(d) PROVE WorkInPlace(u)'
    BY <1>0, <1>6 DEF TypeOK, OnDevice, Goto
<1>7. ASSUME NEW d \in Devices, Recheck(d) PROVE WorkInPlace(u)'
    <2>1. \/ work' = [work EXCEPT ![d] = NoCall] /\ Goto(d, "idle")
          \/ work' = work /\ Goto(d, "running")
        BY <1>7 DEF Recheck
    <2> QED
        BY <1>0, <1>7, <2>1 DEF TypeOK, Recheck, Goto
<1>8. ASSUME NEW c \in Calls, NEW code \in ErrorCodes, RefusedWith(c, code)
      PROVE  UNCHANGED <<pc, work, took, verdict>>
    BY <1>8 DEF RefusedWith
<1>9. DeliverReply \/ ActivityChanges \/ DetachEngine \/ UNCHANGED vars
        => UNCHANGED <<pc, work, took, verdict>>
    BY DEF DeliverReply, ActivityChanges, DetachEngine, vars
<1> QED
    BY <1>1, <1>2, <1>3, <1>4, <1>5, <1>6, <1>7, <1>8, <1>9, Steps DEF TakesAny

-----------------------------------------------------------------------------
(***************************************************************************)
(* What each kind of step does to the calls.                               *)
(***************************************************************************)
Unmoved(c) ==
    /\ c \in made' <=> c \in made
    /\ pendingResult' = c <=> pendingResult = c
    /\ TakenIn(c)' = TakenIn(c)
    /\ PostedFor(c)' = PostedFor(c)
    /\ Answered(c)' = Answered(c)
    /\ Outcomes(c)' = Outcomes(c)

\* The outcomes of a call, by the places they can be in.
LEMMA OutcomesAre ==
    ASSUME NEW c
    PROVE  /\ Outcomes(c) = {p.reply : p \in PostedFor(c)} \cup {verdict[t] : t \in TakenIn(c)}
                                \cup (IF Answered(c) THEN {reply[c]} ELSE {})
           /\ Outcomes(c)' = {p.reply : p \in PostedFor(c)'} \cup {verdict'[t] : t \in TakenIn(c)'}
                                \cup (IF Answered(c)' THEN {reply'[c]} ELSE {})
BY DEF Outcomes, PostedFor

\* A refused call is answered at once.
LEMMA RefusalMoves ==
    ASSUME IInv, NEW c \in Calls, NEW code \in ErrorCodes, RefusedWith(c, code)
    PROVE  /\ c \notin made /\ c \in made' /\ pendingResult # c /\ pendingResult' # c
           /\ TakenIn(c)' = {} /\ PostedFor(c)' = {} /\ Answered(c)'
           /\ Outcomes(c)' = {Error(code)}
           /\ \A o \in Calls \ {c} : Unmoved(o)
<1>1. /\ c \notin made /\ made' = made \cup {c} /\ UNCHANGED <<pendingResult, posted, took, verdict>>
      /\ reply'[c] = Error(code) /\ \A o \in Calls \ {c} : reply'[o] = reply[o]
    BY DEF RefusedWith, Made, IInv, TypeOK, pendingVars, finishVars
<1>2. Answered(c)'
    BY <1>1, RepliesAreReplies DEF Answered
<1>3. pendingResult # c /\ pendingResult' # c
    BY <1>1 DEF IInv, TypeOK
<1>4. TakenIn(c)' = {} /\ PostedFor(c)' = {}
    BY <1>1 DEF IInv, OnePlace, TakenIn, PostedFor
<1>5. Outcomes(c)' = {Error(code)}
    BY <1>1, <1>2, <1>4, OutcomesAre
<1>6. ASSUME NEW o \in Calls \ {c} PROVE Unmoved(o)
    BY <1>1 DEF Unmoved, Outcomes, Answered, TakenIn, PostedFor
<1> QED
    BY <1>1, <1>2, <1>3, <1>4, <1>5, <1>6

\* A registered call is the only pending one.
LEMMA RegisterMoves ==
    ASSUME IInv, NEW c \in Calls, Register(c)
    PROVE  /\ c \notin made /\ c \in made'
           /\ pendingResult = NoCall /\ pendingResult' = c /\ pendingAction' = c
           /\ TakenIn(c)' = {} /\ PostedFor(c)' = {} /\ ~Answered(c)'
           /\ Outcomes(c)' = {}
           /\ \A o \in Calls \ {c} : Unmoved(o)
<1>1. /\ c \notin made /\ made' = made \cup {c} /\ UNCHANGED <<posted, reply, took, verdict>>
      /\ pendingResult = NoCall /\ pendingResult' = c /\ pendingAction' = c
    BY DEF Register, Made, replyVars, finishVars
<1>2. TakenIn(c)' = {} /\ PostedFor(c)' = {} /\ ~Answered(c)'
    BY <1>1 DEF IInv, OnePlace, TakenIn, PostedFor, Answered
<1>3. Outcomes(c)' = {}
    BY <1>2, OutcomesAre
<1>4. ASSUME NEW o \in Calls \ {c} PROVE Unmoved(o)
    BY <1>1 DEF Unmoved, Outcomes, Answered, TakenIn, PostedFor
<1> QED
    BY <1>1, <1>2, <1>3, <1>4

\* One thread takes the pending call and decides its one outcome.
LEMMA TakeMoves ==
    ASSUME IInv, NEW t \in Threads, NEW what \in Replies, NEW posts, Takes(t, what, posts)
    PROVE  /\ pendingResult' = NoCall /\ pendingAction' = NoCall
           /\ \A c \in Calls : pendingResult = c =>
                  /\ c \in made /\ c \in made'
                  /\ TakenIn(c)' = {t} /\ PostedFor(c)' = {} /\ ~Answered(c) /\ ~Answered(c)'
                  /\ Outcomes(c)' = {what}
           /\ \A c \in Calls : pendingResult # c => Unmoved(c)
<1>1. /\ pendingResult' = NoCall /\ pendingAction' = NoCall /\ UNCHANGED <<made, posted, reply>>
      /\ took' = [took EXCEPT ![t] = pendingResult] /\ verdict' = [verdict EXCEPT ![t] = what]
      /\ took[t] = NoCall
    BY DEF Takes, FinishTake, replyVars, IInv, WorkInPlace
<1>2. took \in [Threads -> made \cup {NoCall}] /\ verdict \in [Threads -> Replies \cup {NoReply}]
      /\ pendingResult \in made \cup {NoCall}
    BY DEF IInv, TypeOK
<1>3. ASSUME NEW c \in Calls, pendingResult = c
      PROVE  /\ c \in made /\ c \in made'
             /\ TakenIn(c)' = {t} /\ PostedFor(c)' = {} /\ ~Answered(c) /\ ~Answered(c)'
             /\ Outcomes(c)' = {what}
    <2>1. c \in made /\ c \in made'
        BY <1>1, <1>2, <1>3
    <2>2. TakenIn(c) = {} /\ PostedFor(c) = {} /\ ~Answered(c)
        BY <1>3 DEF IInv, OnePlace
    <2>3. PostedFor(c)' = {} /\ ~Answered(c)'
        BY <1>1, <2>2 DEF PostedFor, Answered
    <2>4. TakenIn(c)' = {t}
        BY <1>1, <1>2, <1>3, <2>2 DEF TakenIn
    <2>5. verdict'[t] = what
        BY <1>1, <1>2
    <2> QED
        BY <2>1, <2>2, <2>3, <2>4, <2>5, OutcomesAre
<1>4. ASSUME NEW c \in Calls, pendingResult # c PROVE Unmoved(c)
    <2>1. TakenIn(c)' = TakenIn(c) /\ t \notin TakenIn(c)
        BY <1>1, <1>2, <1>4 DEF TakenIn
    <2>2. \A u \in TakenIn(c) : verdict'[u] = verdict[u]
        BY <1>1, <1>2, <2>1 DEF TakenIn
    <2>3. PostedFor(c)' = PostedFor(c) /\ Answered(c)' = Answered(c)
        BY <1>1 DEF PostedFor, Answered
    <2>4. Outcomes(c)' = Outcomes(c)
        <3>1. {verdict'[u] : u \in TakenIn(c)'} = {verdict[u] : u \in TakenIn(c)}
            BY <2>1, <2>2
        <3>2. {p.reply : p \in PostedFor(c)'} = {p.reply : p \in PostedFor(c)}
              /\ (Answered(c)' <=> Answered(c)) /\ reply' = reply
            BY <1>1, <2>3
        <3> QED
            BY <3>1, <3>2, OutcomesAre
    <2> QED
        BY <1>1, <1>4, <2>1, <2>3, <2>4 DEF Unmoved
<1> QED
    BY <1>1, <1>3, <1>4

\* The thread that took a call posts its reply, with the same outcome.
LEMMA PostMoves ==
    ASSUME IInv, NEW t, PostsAny(t)
    PROVE  /\ \A c \in Calls : took[t] = c =>
                  /\ c \in made /\ c \in made' /\ pendingResult # c /\ pendingResult' # c
                  /\ TakenIn(c)' = {} /\ \E p : PostedFor(c)' = {p}
                  /\ ~Answered(c) /\ ~Answered(c)'
                  /\ Outcomes(c)' = Outcomes(c)
           /\ \A c \in Calls : took[t] # c => Unmoved(c)
<1>1. /\ took' = [took EXCEPT ![t] = NoCall] /\ verdict' = [verdict EXCEPT ![t] = NoReply]
      /\ UNCHANGED <<made, pendingResult, reply>> /\ t \in Threads
    BY DEF PostsAny, Posts, pendingVars
<1>2. took \in [Threads -> made \cup {NoCall}] /\ verdict \in [Threads -> Replies \cup {NoReply}]
    BY DEF IInv, TypeOK
<1>3. ASSUME NEW c \in Calls, took[t] = c
      PROVE  /\ c \in made /\ c \in made' /\ pendingResult # c /\ pendingResult' # c
             /\ TakenIn(c)' = {} /\ \E p : PostedFor(c)' = {p}
             /\ ~Answered(c) /\ ~Answered(c)'
             /\ Outcomes(c)' = Outcomes(c)
    <2>1. t \in TakenIn(c) /\ c \in made /\ OnePlace(c)
        BY <1>1, <1>2, <1>3 DEF TakenIn, IInv
    <2>2. TakenIn(c) = {t} /\ PostedFor(c) = {} /\ ~Answered(c) /\ pendingResult # c
        BY <2>1 DEF OnePlace
    <2>3. TakenIn(c)' = {}
        BY <1>1, <1>2, <1>3, <2>2 DEF TakenIn
    <2>4. PICK p : p = [call |-> c, reply |-> verdict[t]]
        OBVIOUS
    <2>5. p.call = c /\ p.reply = verdict[t]
        BY <2>4
    <2>6. posted' = posted \cup {p}
        BY <1>3, <2>4 DEF PostsAny, Posts
    <2>7. PostedFor(c)' = {p}
        BY <2>2, <2>5, <2>6 DEF PostedFor
    <2>8. ~Answered(c)'
        BY <1>1, <2>2 DEF Answered
    <2>9. Outcomes(c) = {verdict[t]} /\ Outcomes(c)' = {verdict[t]}
        BY <2>2, <2>3, <2>5, <2>7, <2>8, OutcomesAre
    <2> QED
        BY <1>1, <2>1, <2>2, <2>3, <2>7, <2>8, <2>9
<1>4. ASSUME NEW c \in Calls, took[t] # c PROVE Unmoved(c)
    <2>1. TakenIn(c)' = TakenIn(c) /\ t \notin TakenIn(c)
        BY <1>1, <1>2, <1>4 DEF TakenIn
    <2>2. \A u \in TakenIn(c) : verdict'[u] = verdict[u]
        BY <1>1, <1>2, <2>1 DEF TakenIn
    <2>3. PostedFor(c)' = PostedFor(c) /\ Answered(c)' = Answered(c)
        BY <1>1, <1>4 DEF PostedFor, Answered, PostsAny, Posts
    <2>4. Outcomes(c)' = Outcomes(c)
        <3>1. {verdict'[u] : u \in TakenIn(c)'} = {verdict[u] : u \in TakenIn(c)}
            BY <2>1, <2>2
        <3>2. {p.reply : p \in PostedFor(c)'} = {p.reply : p \in PostedFor(c)}
              /\ (Answered(c)' <=> Answered(c)) /\ reply' = reply
            BY <1>1, <2>3
        <3> QED
            BY <3>1, <3>2, OutcomesAre
    <2> QED
        BY <1>1, <2>1, <2>3, <2>4 DEF Unmoved
<1> QED
    BY <1>3, <1>4

\* A delivery answers the call that the reply was posted for.
LEMMA DeliveryMoves ==
    ASSUME IInv, DeliverReply
    PROVE  \E c \in Calls :
               /\ c \in made /\ c \in made' /\ pendingResult # c /\ pendingResult' # c
               /\ TakenIn(c)' = {} /\ PostedFor(c)' = {} /\ ~Answered(c) /\ Answered(c)'
               /\ Outcomes(c)' = Outcomes(c)
               /\ \A o \in Calls \ {c} : Unmoved(o)
<1>1. PICK p \in posted : posted' = posted \ {p} /\ reply' = [reply EXCEPT ![p.call] = p.reply]
    BY DEF DeliverReply
<1>2. /\ p.call \in made /\ p.call \in Calls /\ p.reply \in Replies
      /\ UNCHANGED <<made, pendingResult, took, verdict>> /\ reply \in [Calls -> Replies \cup {NoReply}]
    BY DEF IInv, TypeOK, DeliverReply, pendingVars, finishVars
<1>3. PICK c \in Calls : c = p.call
    BY <1>2
<1>4. p \in PostedFor(c) /\ OnePlace(c)
    BY <1>3 DEF PostedFor, IInv
<1>5. PostedFor(c) = {p} /\ TakenIn(c) = {} /\ ~Answered(c) /\ pendingResult # c
    BY <1>4 DEF OnePlace
<1>6. reply'[c] = p.reply
    BY <1>1, <1>2, <1>3
<1>7. Answered(c)'
    BY <1>2, <1>6, RepliesAreReplies DEF Answered
<1>8. PostedFor(c)' = {} /\ TakenIn(c)' = {}
    BY <1>1, <1>2, <1>5 DEF PostedFor, TakenIn
<1>9. Outcomes(c) = {p.reply} /\ Outcomes(c)' = {p.reply}
    BY <1>5, <1>6, <1>7, <1>8, OutcomesAre
<1>10. ASSUME NEW o \in Calls \ {c} PROVE Unmoved(o)
    <2>1. PostedFor(o)' = PostedFor(o)
        BY <1>1, <1>3 DEF PostedFor
    <2>2. reply'[o] = reply[o] /\ TakenIn(o)' = TakenIn(o) /\ verdict' = verdict
        BY <1>1, <1>2, <1>3 DEF TakenIn
    <2>3. Answered(o)' = Answered(o)
        BY <2>2 DEF Answered
    <2>4. Outcomes(o)' = Outcomes(o)
        BY <2>1, <2>2, <2>3, OutcomesAre
    <2> QED
        BY <1>2, <2>1, <2>2, <2>3, <2>4 DEF Unmoved
<1> QED
    BY <1>2, <1>3, <1>5, <1>7, <1>8, <1>9, <1>10

\* The other steps leave all calls where they are.
LEMMA QuietMoves ==
    ASSUME Quiet, NEW c
    PROVE  Unmoved(c)
BY DEF Quiet, Unmoved, TakenIn, PostedFor, Answered, Outcomes, pendingVars, finishVars, replyVars

\* Every step keeps each call at one place.
LEMMA PlaceStep ==
    ASSUME IInv, [Next]_vars
    PROVE  /\ \A c \in Calls : OnePlace(c)'
           /\ pendingAction' = pendingResult'
<1>0. pendingAction = pendingResult /\ \A c \in Calls : OnePlace(c)
    BY DEF IInv
<1>1. ASSUME NEW c \in Calls, Unmoved(c) PROVE OnePlace(c)'
    BY <1>0, <1>1 DEF Unmoved, OnePlace
<1>2. ASSUME NEW c \in Calls, NEW code \in ErrorCodes, RefusedWith(c, code)
      PROVE  (\A o \in Calls : OnePlace(o)') /\ pendingAction' = pendingResult'
    <2>1. OnePlace(c)'
        BY <1>2, RefusalMoves DEF OnePlace
    <2>2. UNCHANGED pendingVars
        BY <1>2 DEF RefusedWith
    <2> QED
        BY <1>0, <1>1, <1>2, <2>1, <2>2, RefusalMoves DEF pendingVars
<1>3. ASSUME NEW c \in Calls, Register(c)
      PROVE  (\A o \in Calls : OnePlace(o)') /\ pendingAction' = pendingResult'
    <2>1. OnePlace(c)'
        BY <1>3, RegisterMoves DEF OnePlace
    <2> QED
        BY <1>1, <1>3, <2>1, RegisterMoves
<1>4. ASSUME NEW t \in Threads, NEW what \in Replies, NEW posts, Takes(t, what, posts)
      PROVE  (\A o \in Calls : OnePlace(o)') /\ pendingAction' = pendingResult'
    <2>1. ASSUME NEW c \in Calls, pendingResult = c PROVE OnePlace(c)'
        <3>1. /\ c \in made' /\ TakenIn(c)' = {t} /\ PostedFor(c)' = {} /\ ~Answered(c)'
              /\ pendingResult' # c
            BY <1>4, <2>1, TakeMoves
        <3> QED
            BY <3>1 DEF OnePlace
    <2> QED
        BY <1>1, <1>4, <2>1, TakeMoves
<1>5. ASSUME NEW t \in Threads, PostsAny(t)
      PROVE  (\A o \in Calls : OnePlace(o)') /\ pendingAction' = pendingResult'
    <2>1. ASSUME NEW c \in Calls, took[t] = c PROVE OnePlace(c)'
        <3>1. /\ c \in made' /\ TakenIn(c)' = {} /\ (\E p : PostedFor(c)' = {p}) /\ ~Answered(c)'
              /\ pendingResult' # c
            BY <1>5, <2>1, PostMoves
        <3> QED
            BY <3>1 DEF OnePlace
    <2>2. UNCHANGED pendingVars
        BY <1>5 DEF PostsAny
    <2> QED
        BY <1>0, <1>1, <1>5, <2>1, <2>2, PostMoves DEF pendingVars
<1>6. CASE DeliverReply
    <2>1. PICK c \in Calls :
               /\ c \in made' /\ pendingResult' # c
               /\ TakenIn(c)' = {} /\ PostedFor(c)' = {} /\ Answered(c)'
               /\ \A o \in Calls \ {c} : Unmoved(o)
        BY <1>6, DeliveryMoves
    <2>2. OnePlace(c)'
        BY <2>1 DEF OnePlace
    <2>3. UNCHANGED pendingVars
        BY <1>6 DEF DeliverReply
    <2> QED
        BY <1>0, <1>1, <2>1, <2>2, <2>3 DEF pendingVars
<1>7. CASE Quiet
    BY <1>0, <1>1, <1>7, QuietMoves DEF Quiet, pendingVars
<1> QED
    BY <1>2, <1>3, <1>4, <1>5, <1>6, <1>7, KindsOfSteps DEF TakesAny

-----------------------------------------------------------------------------
(***************************************************************************)
(* The ceremonies that started with nothing left of earlier ones.          *)
(***************************************************************************)

\* What a thread may do while such a ceremony is pending, and what it leaves.
LEMMA AloneStep ==
    ASSUME IInv, [Next]_vars, NEW c \in fresh'
    PROVE  ByItself(c)'
<1> SUFFICES ASSUME pendingResult' = c PROVE ByItself(c)'
    BY DEF ByItself
<1> USE DEF Finishing, Starting
<1>0. TypeOK /\ c \in Calls /\ c # NoCall /\ Main \in Threads
    BY TypeStep DEF IInv, TypeOK, Threads
<1>1. ASSUME NEW o \in Calls, Register(o) PROVE ByItself(c)'
    <2>1. o = c /\ o \notin made /\ o \notin fresh
        BY <1>1 DEF Register, Made, IInv, TypeOK
    <2>2. NothingLeft
        BY <1>1, <2>1 DEF Register
    <2>3. /\ \A t \in Threads : pc[t] = "idle"
          /\ timeoutRunnable = NoCall /\ watchdogs = {}
          /\ pc' = [pc EXCEPT ![Main] = "startUsb"] /\ work' = [work EXCEPT ![Main] = c]
          /\ UNCHANGED <<timeoutRunnable, watchdogs>>
        BY <1>1, <2>1, <2>2 DEF NothingLeft, Register, Goto, watchdogVars
    <2> QED
        BY <1>0, <2>3 DEF TypeOK, ByItself
<1>2. CASE ~\E o \in Calls : Register(o)
    <2>1. c \in fresh /\ pendingResult = c /\ ~TakesAny
        <3>1. ~TakesAny
            BY <1>0, TakeMoves DEF TakesAny
        <3> QED
            BY <1>2, <3>1, KindsOfSteps
               DEF RefusedWith, PostsAny, DeliverReply, Quiet, pendingVars
    <2>2. /\ \A t \in Threads : pc[t] # "idle" => work[t] = c /\ pc[t] \notin Finishing
          /\ timeoutRunnable \in {NoCall, c} /\ watchdogs \subseteq {c}
          /\ pc[Main] # "startUsb" => "usb" \in discovery
          /\ pc[Main] \notin {"startUsb", "startNfc", "setActive"} => discoveryActive
          /\ pc[Main] \in {"postWatchdog", "idle"} => timeoutRunnable = c
          /\ pc[Main] = "idle" => c \in watchdogs
        BY <2>1 DEF IInv, ByItself
    <2>3. ASSUME NEW t \in Threads, RestOfFinish(t) PROVE FALSE
        BY <2>2, <2>3 DEF RestOfFinish, FinishUnstarted, FinishStop, FinishClear
    <2>4. CASE UNCHANGED <<pc, work, timeoutRunnable, watchdogs, discovery, discoveryActive>>
        BY <2>2, <2>4 DEF ByItself
    <2>5. CASE StartUsb
        BY <1>0, <2>2, <2>5
           DEF TypeOK, StartUsb, StartDiscovery, Goto, watchdogVars, ByItself
    <2>6. CASE StartNfc
        BY <1>0, <2>2, <2>6
           DEF TypeOK, StartNfc, StartDiscovery, Goto, watchdogVars, ByItself
    <2>7. CASE SetActive
        BY <1>0, <2>2, <2>7 DEF TypeOK, SetActive, Goto, watchdogVars, ByItself
    <2>8. CASE RememberWatchdog
        BY <1>0, <2>2, <2>8 DEF TypeOK, RememberWatchdog, Goto, discoveryVars, ByItself
    <2>9. CASE PostWatchdog
        BY <1>0, <2>2, <2>9 DEF TypeOK, PostWatchdog, Goto, discoveryVars, ByItself
    <2>10. ASSUME NEW d \in Devices, OnDevice(d) \/ Recheck(d) PROVE ByItself(c)'
        <3>1. \/ pc' = [pc EXCEPT ![d] = "connecting"] /\ work' = [work EXCEPT ![d] = c]
              \/ pc' = [pc EXCEPT ![d] = "running"] /\ work' = work /\ pc[d] # "idle"
            <4>1. pendingAction = c
                BY <2>1 DEF IInv
            <4>2. CASE OnDevice(d)
                BY <4>1, <4>2 DEF OnDevice, Goto
            <4>3. CASE Recheck(d)
                BY <1>0, <4>1, <4>3 DEF Recheck, Goto
            <4> QED
                BY <2>10, <4>2, <4>3
        <3>2. pc'[Main] = pc[Main] /\ d \in Threads
            BY <1>0, <3>1 DEF TypeOK, Threads
        <3>3. UNCHANGED <<timeoutRunnable, watchdogs, discovery, discoveryActive>>
            BY <2>10 DEF OnDevice, Recheck, watchdogVars, discoveryVars
        <3>4. \A t \in Threads : pc'[t] # "idle" => work'[t] = c /\ pc'[t] \notin Finishing
            BY <1>0, <2>2, <3>1, <3>2 DEF TypeOK
        <3> QED
            BY <2>2, <3>2, <3>3, <3>4 DEF ByItself
    <2>11. ASSUME NEW o \in Calls, NEW code \in ErrorCodes, RefusedWith(o, code)
           PROVE  UNCHANGED <<pc, work, timeoutRunnable, watchdogs, discovery, discoveryActive>>
        BY <2>11 DEF RefusedWith, watchdogVars, discoveryVars
    <2>12. DeliverReply \/ ActivityChanges \/ DetachEngine \/ UNCHANGED vars
            => UNCHANGED <<pc, work, timeoutRunnable, watchdogs, discovery, discoveryActive>>
        BY DEF DeliverReply, ActivityChanges, DetachEngine, vars, watchdogVars, discoveryVars
    <2> QED
        BY <1>2, <2>1, <2>3, <2>4, <2>5, <2>6, <2>7, <2>8, <2>9, <2>10, <2>11, <2>12, Steps
           DEF RestOfStart
<1> QED
    BY <1>1, <1>2

\* What finish() is told: a response is that of the ceremony the thread ran, and a
\* timeout is that of a watchdog that was posted.
LEMMA OwnStep ==
    ASSUME IInv, [Next]_vars, NEW c \in fresh'
    PROVE  OwnOf(c)'
<1>0. c \in Calls /\ (c \in fresh => OwnOf(c) /\ ByItself(c))
    BY TypeStep DEF IInv, TypeOK
<1>1. ASSUME Unmoved(c), c \in fresh PROVE OwnOf(c)'
    BY <1>0, <1>1 DEF Unmoved, OwnOf
<1>2. ASSUME NEW o \in Calls, NEW code \in ErrorCodes, RefusedWith(o, code) PROVE OwnOf(c)'
    <2>1. c \in fresh /\ c # o
        <3>1. UNCHANGED fresh /\ o \notin made
            BY <1>2 DEF RefusedWith, Made
        <3> QED
            BY <3>1 DEF IInv, TypeOK
    <2> QED
        BY <1>0, <1>1, <1>2, <2>1, RefusalMoves
<1>3. ASSUME NEW o \in Calls, Register(o) PROVE OwnOf(c)'
    <2>1. CASE c = o
        <3>1. Outcomes(c)' = {}
            BY <1>3, <2>1, RegisterMoves
        <3> QED
            BY <3>1 DEF OwnOf
    <2>2. CASE c # o
        <3>1. c \in fresh
            BY <1>3, <2>2 DEF Register
        <3> QED
            BY <1>0, <1>1, <1>3, <2>2, <3>1, RegisterMoves
    <2> QED
        BY <2>1, <2>2
<1>4. ASSUME NEW t \in Threads, NEW what \in Replies, NEW posts, Takes(t, what, posts),
             pendingResult = c => (what.kind \in {"response", "timeout"} => what.of = c)
      PROVE  OwnOf(c)'
    <2>1. c \in fresh
        BY <1>4 DEF Takes
    <2>2. CASE pendingResult = c
        <3>1. Outcomes(c)' = {what}
            BY <1>0, <1>4, <2>2, TakeMoves
        <3> QED
            BY <1>4, <2>2, <3>1 DEF OwnOf
    <2>3. CASE pendingResult # c
        BY <1>0, <1>1, <1>4, <2>1, <2>3, TakeMoves
    <2> QED
        BY <2>2, <2>3
<1>5. ASSUME NEW code \in ErrorCodes, NEW t \in Threads, Takes(t, Error(code), watchdogs)
      PROVE  OwnOf(c)'
    BY <1>4, <1>5, RepliesAreReplies
<1>6. CASE Cancel \/ DiscoveryFails
    <2>1. Main \in Threads
        BY DEF Threads
    <2> QED
        BY <1>5, <1>6, <2>1, WhoTakes DEF ErrorCodes
<1>7. ASSUME NEW o \in Calls, WatchdogFires(o) PROVE OwnOf(c)'
    <2>1. Takes(Main, Outcome("timeout", o), watchdogs \ {o}) /\ o \in watchdogs
          /\ Main \in Threads
        BY <1>7, WhoTakes DEF Threads
    <2>2. pendingResult = c => o = c
        BY <1>0, <2>1 DEF ByItself, Takes
    <2>3. Outcome("timeout", o) \in Replies /\ Outcome("timeout", o).of = o
        BY RepliesAreReplies
    <2> QED
        BY <1>4, <2>1, <2>2, <2>3
<1>8. ASSUME NEW d \in Devices, ActionEnds(d) PROVE OwnOf(c)'
    <2>1. d \in Threads /\ pc[d] = "running" /\ work[d] \in Calls /\ UNCHANGED fresh
        BY <1>8 DEF IInv, TypeOK, Threads, WorkInPlace, ActionEnds, Running
    <2>2. CASE Takes(d, Error("ceremony_failed"), watchdogs)
        BY <1>5, <2>1, <2>2 DEF ErrorCodes
    <2>3. CASE Takes(d, Outcome("response", work[d]), watchdogs)
        <3>1. pendingResult = c => work[d] = c
            BY <1>0, <2>1 DEF ByItself
        <3>2. Outcome("response", work[d]) \in Replies
              /\ Outcome("response", work[d]).of = work[d]
            BY <2>1, RepliesAreReplies
        <3> QED
            BY <1>4, <2>1, <2>3, <3>1, <3>2
    <2> QED
        BY <1>8, <2>2, <2>3, WhoTakes
<1>9. ASSUME NEW t \in Threads, PostsAny(t) PROVE OwnOf(c)'
    <2>1. c \in fresh
        BY <1>9 DEF PostsAny
    <2>2. Outcomes(c)' = Outcomes(c)
        BY <1>0, <1>9, PostMoves DEF Unmoved
    <2> QED
        BY <1>0, <2>1, <2>2 DEF OwnOf
<1>10. CASE DeliverReply
    <2>1. c \in fresh
        BY <1>10 DEF DeliverReply
    <2>2. Outcomes(c)' = Outcomes(c)
        BY <1>0, <1>10, DeliveryMoves DEF Unmoved
    <2> QED
        BY <1>0, <2>1, <2>2 DEF OwnOf
<1>11. CASE Quiet
    BY <1>1, <1>11, QuietMoves DEF Quiet
<1>12. ASSUME NEW o \in Calls, BadArgs(o) \/ NoActivity(o) \/ Busy(o) PROVE OwnOf(c)'
    BY <1>2, <1>12 DEF BadArgs, NoActivity, Busy, ErrorCodes
<1> QED
    BY <1>3, <1>6, <1>7, <1>8, <1>9, <1>10, <1>11, <1>12, QuietSteps DEF Next, DeviceWorks

-----------------------------------------------------------------------------
\* The invariant holds for any number of ceremonies, cancellations and activities.
THEOREM Invariance == Spec => []IInv
<1>1. IInv /\ [Next]_vars => IInv'
    BY TypeStep, WorkStep, PlaceStep, AloneStep, OwnStep DEF IInv, Threads
<1> QED
    BY Start, <1>1, PTL DEF Spec

\* Every variable keeps its shape, for any number of ceremonies and devices.
THEOREM TypeCorrect == Spec => []TypeOK
BY Invariance, PTL DEF IInv

\* Whatever device, watchdog or cancel ends a ceremony that started with nothing left of
\* earlier ones, it is answered with its own result, and times out by its own watchdog.
THEOREM FreshCeremoniesGetTheirOwn == Spec => []OwnOutcome
<1>1. IInv => OwnOutcome
    BY DEF IInv, OwnOutcome, OwnOf
<1> QED
    BY Invariance, <1>1, PTL

\* While such a ceremony is pending, no other finish() has stopped its discovery or
\* removed its watchdog.
THEOREM FreshCeremoniesStayReachable == Spec => []PendingIsReachable
<1>1. IInv => PendingIsReachable
    <2> SUFFICES ASSUME IInv, NEW c \in fresh, pendingResult = c, pc[Main] \notin Starting
                 PROVE  "usb" \in discovery /\ discoveryActive /\ c \in watchdogs
        BY DEF PendingIsReachable
    <2>1. ByItself(c) /\ WorkInPlace(Main) /\ TypeOK /\ Main \in Threads
        BY DEF IInv, Threads
    <2>2. pc[Main] = "idle"
        BY <2>1 DEF ByItself, WorkInPlace, TypeOK, Running
    <2> QED
        BY <2>1, <2>2 DEF ByItself
<1> QED
    BY Invariance, <1>1, PTL

\* Every call that was made is pending, or taken by one thread, or about to be answered
\* once, or answered: no two threads settle the same call, and none is dropped.
THEOREM NoCallIsLost == Spec => [](\A c \in Calls : OnePlace(c))
<1>1. IInv => \A c \in Calls : OnePlace(c)
    BY DEF IInv
<1> QED
    BY Invariance, <1>1, PTL

-----------------------------------------------------------------------------
\* A call that is left alone keeps its status in the abstract channel.
LEMMA StatusUnmoved ==
    ASSUME NEW c, Unmoved(c) PROVE StatusOf(c)' = StatusOf(c)
BY DEF Unmoved, StatusOf

\* The plugin is a one-shot channel, with finish() in every thread: every step refuses,
\* accepts, settles or answers one call of OneShot, or leaves all of them as they are.
THEOREM ImplementsOneShot == Spec => IsOneShot
<1> DEFINE status == [c \in Calls |-> StatusOf(c)]
<1>1. Init => Channel!Init
    BY DEF Init, Channel!Init, StatusOf
<1>2. IInv /\ [Next]_vars => [Channel!Next]_status
    <2> SUFFICES ASSUME IInv, [Next]_vars PROVE [Channel!Next]_status
        OBVIOUS
    <2>1. ASSUME NEW c \in Calls, NEW from, NEW to, StatusOf(c) = from, StatusOf(c)' = to,
                 \A o \in Calls \ {c} : Unmoved(o)
          PROVE  Channel!Moves(c, from, to)
        <3>1. \A o \in Calls \ {c} : StatusOf(o)' = StatusOf(o)
            BY <2>1, StatusUnmoved
        <3> QED
            BY <2>1, <3>1 DEF Channel!Moves
    <2>2. ASSUME NEW c \in Calls, NEW code \in ErrorCodes, RefusedWith(c, code)
          PROVE  Channel!Next
        <3>1. StatusOf(c) = "new" /\ StatusOf(c)' = "answered"
            BY <2>2, RefusalMoves DEF StatusOf
        <3>2. Channel!Moves(c, "new", "answered")
            BY <2>1, <2>2, <3>1, RefusalMoves
        <3> QED
            BY <3>2 DEF Channel!Next, Channel!Refuse
    <2>3. ASSUME NEW c \in Calls, Register(c) PROVE Channel!Next
        <3>1. StatusOf(c) = "new" /\ StatusOf(c)' = "pending"
            BY <2>3, RegisterMoves DEF StatusOf
        <3>2. \A o \in Calls : StatusOf(o) # "pending"
            BY <2>3, RegisterMoves DEF StatusOf
        <3>3. Channel!Moves(c, "new", "pending")
            BY <2>1, <2>3, <3>1, RegisterMoves
        <3> QED
            BY <3>2, <3>3 DEF Channel!Next, Channel!Accept
    <2>4. ASSUME NEW t \in Threads, NEW what \in Replies, NEW posts, Takes(t, what, posts)
          PROVE  [Channel!Next]_status
        <3>1. ASSUME NEW c \in Calls, pendingResult = c PROVE Channel!Next
            <4>1. StatusOf(c) = "pending" /\ StatusOf(c)' = "settled"
                BY <2>4, <3>1, TakeMoves DEF StatusOf
            <4>2. Channel!Moves(c, "pending", "settled")
                BY <2>1, <2>4, <3>1, <4>1, TakeMoves
            <4> QED
                BY <4>2 DEF Channel!Next, Channel!Settle
        <3>2. CASE \A c \in Calls : pendingResult # c
            BY <2>4, <3>2, TakeMoves, StatusUnmoved
        <3> QED
            BY <3>1, <3>2
    <2>5. ASSUME NEW t \in Threads, PostsAny(t) PROVE UNCHANGED status
        <3>1. ASSUME NEW c \in Calls, took[t] = c PROVE StatusOf(c)' = StatusOf(c)
            BY <2>5, <3>1, PostMoves DEF StatusOf
        <3>2. ASSUME NEW c \in Calls, took[t] # c PROVE StatusOf(c)' = StatusOf(c)
            BY <2>5, <3>2, PostMoves, StatusUnmoved
        <3> QED
            BY <3>1, <3>2
    <2>6. CASE DeliverReply
        <3>1. PICK c \in Calls :
                   /\ c \in made /\ c \in made' /\ pendingResult # c /\ pendingResult' # c
                   /\ ~Answered(c) /\ Answered(c)'
                   /\ \A o \in Calls \ {c} : Unmoved(o)
            BY <2>6, DeliveryMoves
        <3>2. StatusOf(c) = "settled" /\ StatusOf(c)' = "answered"
            BY <3>1 DEF StatusOf
        <3>3. Channel!Moves(c, "settled", "answered")
            BY <2>1, <3>1, <3>2
        <3> QED
            BY <3>3 DEF Channel!Next, Channel!Answer
    <2>7. CASE Quiet
        BY <2>7, QuietMoves, StatusUnmoved
    <2> QED
        BY <2>2, <2>3, <2>4, <2>5, <2>6, <2>7, KindsOfSteps DEF TakesAny
<1> QED
    BY <1>1, <1>2, Invariance, PTL DEF Spec, IsOneShot, Channel!Spec
=============================================================================
