-------------------------- MODULE HardwareKeyProofs --------------------------
(***************************************************************************)
(* Theorems about HardwareKey, for any number of calls and of devices.     *)
(*                                                                         *)
(* OneOutcome is inductive once a call that was not made is known to have  *)
(* no reply.  OwnResponse also needs that, while a call made with all      *)
(* devices at rest is pending, every device at work is at work on it.      *)
(***************************************************************************)
EXTENDS HardwareKey, TLAPS

RepliesToCallsMade == \A c \in Calls : Answered(c) => c \in made

DevicesWorkForFresh ==
    \A c \in fresh : pendingResult = c => \A d \in Devices : asked[d] \in {NoCall, c}

IInv ==
    /\ TypeOK
    /\ RepliesToCallsMade
    /\ OneOutcome
    /\ DevicesWorkForFresh
    /\ OwnResponse
    /\ DiscoveryFollowsActivity

USE NoCallAssumption

-----------------------------------------------------------------------------
\* NoReply is not a reply.
LEMMA RepliesAreReplies ==
    /\ NoReply \notin Replies
    /\ \A code \in ErrorCodes : Error(code) \in Replies /\ Error(code).kind # "response"
    /\ \A c \in Calls : Response(c) \in Replies /\ Response(c).of = c
BY DEF NoReply, Replies, Error, Response, ErrorCodes

\* A call that was not made has no outcome.
LEMMA NewCallsHaveNone ==
    ASSUME TypeOK, RepliesToCallsMade, NEW c \in Calls, c \notin made
    PROVE  Outcomes(c) = {} /\ reply[c] = NoReply
BY DEF TypeOK, RepliesToCallsMade, Outcomes, Answered

\* Nobody's outcome changes when neither the replies nor those posted do.
LEMMA SameOutcomes ==
    ASSUME NEW c, UNCHANGED <<posted, reply>>
    PROVE  Outcomes(c)' = Outcomes(c) /\ Answered(c)' = Answered(c)
BY DEF Outcomes, Answered

\* succeed and fail give the pending call, if any, its only outcome.
LEMMA SettleGives ==
    ASSUME IInv, NEW what \in Replies, Settle(what), UNCHANGED <<made, reply>>,
           NEW c \in made
    PROVE  /\ Outcomes(c)' = IF pendingResult = c THEN {what} ELSE Outcomes(c)
           /\ Answered(c)' = Answered(c)
<1>1. Answered(c)' = Answered(c)
    BY DEF Answered
<1>2. NoCall \notin made
    BY DEF IInv, TypeOK
<1>3. CASE pendingResult = c
    <2>1. Outcomes(c) = {}
        BY <1>3 DEF IInv, OneOutcome
    <2>2. posted' = posted \cup {[call |-> c, reply |-> what]}
        BY <1>2, <1>3 DEF Settle
    <2>3. {p.reply : p \in {q \in posted' : q.call = c}}
            = {p.reply : p \in {q \in posted : q.call = c}} \cup {what}
        <3> DEFINE mine == [call |-> c, reply |-> what]
        <3>1. {q \in posted' : q.call = c} = {q \in posted : q.call = c} \cup {mine}
            BY <2>2
        <3>2. mine.reply = what
            OBVIOUS
        <3> HIDE DEF mine
        <3> QED
            BY <3>1, <3>2
    <2> QED
        BY <1>1, <1>3, <2>1, <2>3 DEF Outcomes, Answered
<1>4. CASE pendingResult # c
    <2>1. {q \in posted' : q.call = c} = {q \in posted : q.call = c}
        BY <1>4 DEF Settle
    <2> QED
        BY <1>1, <1>4, <2>1 DEF Outcomes, Answered
<1> QED
    BY <1>3, <1>4

\* Delivering a posted reply leaves every call its outcomes.
LEMMA DeliveryKeeps ==
    ASSUME IInv, DeliverReply, NEW c \in made
    PROVE  Outcomes(c)' = Outcomes(c)
<1>1. PICK p \in posted : posted' = posted \ {p} /\ reply' = [reply EXCEPT ![p.call] = p.reply]
    BY DEF DeliverReply
<1>2. p.call \in made /\ p.reply \in Replies /\ made \subseteq Calls
    BY DEF IInv, TypeOK
<1>3. CASE p.call = c
    <2>1. reply'[c] = p.reply /\ p.reply # NoReply /\ reply[c] = NoReply
        BY <1>1, <1>2, <1>3, RepliesAreReplies DEF IInv, TypeOK, OneOutcome, Answered
    <2>2. p.reply \in Outcomes(c)
        BY <1>3 DEF Outcomes
    <2>3. Outcomes(c) = {p.reply}
        BY <2>2 DEF IInv, OneOutcome
    <2>4. Outcomes(c)' \subseteq Outcomes(c)
        BY <1>1, <2>1, <2>2 DEF Outcomes, Answered
    <2>5. p.reply \in Outcomes(c)'
        BY <2>1 DEF Outcomes, Answered
    <2> QED
        BY <2>3, <2>4, <2>5
<1>4. CASE p.call # c
    <2>1. {q \in posted' : q.call = c} = {q \in posted : q.call = c}
        BY <1>1, <1>4
    <2>2. reply'[c] = reply[c]
        BY <1>1, <1>2, <1>4 DEF IInv, TypeOK
    <2> QED
        BY <2>1, <2>2 DEF Outcomes, Answered
<1> QED
    BY <1>3, <1>4

-----------------------------------------------------------------------------
\* At the start no call was made.
LEMMA Start == Init => IInv
<1>1. Init => /\ made = {} /\ posted = {} /\ \A c \in Calls : reply[c] = NoReply
    BY DEF Init
<1> QED
    BY <1>1
       DEF Init, IInv, TypeOK, RepliesToCallsMade, OneOutcome, DevicesWorkForFresh,
       OwnResponse, DiscoveryFollowsActivity, Answered

\* Every step keeps the shape of the variables.
LEMMA TypeStep == IInv /\ [Next]_vars => TypeOK'
<1> SUFFICES ASSUME IInv, [Next]_vars PROVE TypeOK'
    OBVIOUS
<1> USE DEF pendingVars, lifeVars
<1>1. ASSUME NEW c \in Calls, BadArgs(c) \/ Busy(c) PROVE TypeOK'
    <2>1. \E code \in ErrorCodes : RefusedWith(c, code)
        BY <1>1 DEF BadArgs, Busy, ErrorCodes
    <2> QED
        BY <2>1, RepliesAreReplies DEF IInv, TypeOK, RefusedWith, Made
<1>2. ASSUME NEW c \in Calls, ChallengeResponse(c) PROVE TypeOK'
    BY <1>2 DEF IInv, TypeOK, ChallengeResponse, Made, StartDiscoveryIfNeeded, Transports
<1>3. ASSUME NEW d \in Devices, OnDevice(d) PROVE TypeOK'
    BY <1>3 DEF IInv, TypeOK, OnDevice
<1>4. ASSUME NEW what \in Replies, Settle(what) PROVE posted' \subseteq [call : made, reply : Replies]
    BY <1>4 DEF IInv, TypeOK, Settle
<1>5. ASSUME NEW d \in Devices, DeviceAnswers(d) PROVE TypeOK'
    <2>1. asked[d] \in Calls
        BY <1>5 DEF DeviceAnswers, IInv, TypeOK
    <2>2. \E what \in Replies : Settle(what)
        BY <1>5, <2>1, RepliesAreReplies DEF DeviceAnswers, ErrorCodes
    <2> QED
        BY <1>4, <1>5, <2>2 DEF IInv, TypeOK, DeviceAnswers, Settle
<1>6. CASE Cancel
    <2>1. Error("cancelled") \in Replies
        BY RepliesAreReplies DEF ErrorCodes
    <2> QED
        BY <1>4, <1>6, <2>1 DEF IInv, TypeOK, Cancel, Settle
<1>7. CASE DeliverReply
    BY <1>7 DEF IInv, TypeOK, DeliverReply
<1>8. CASE AttachActivity \/ DetachActivity \/ DetachEngine
    BY <1>8
       DEF IInv, TypeOK, AttachActivity, DetachActivity, DetachEngine,
       StartDiscoveryIfNeeded, StopDiscovery, Transports
<1>9. CASE UNCHANGED vars
    BY <1>9 DEF IInv, TypeOK, vars
<1> QED
    BY <1>1, <1>2, <1>3, <1>5, <1>6, <1>7, <1>8, <1>9 DEF Next

\* Discovery is touched by attaching, by detaching and, to no effect, by calls.
LEMMA DiscoveryStep == IInv /\ [Next]_vars => DiscoveryFollowsActivity'
<1> SUFFICES ASSUME IInv, [Next]_vars PROVE DiscoveryFollowsActivity'
    OBVIOUS
<1> USE DEF lifeVars, Transports, DiscoveryFollowsActivity, StartDiscoveryIfNeeded, StopDiscovery
<1>1. CASE UNCHANGED lifeVars
    BY <1>1 DEF IInv
<1>2. ASSUME NEW c \in Calls, ChallengeResponse(c) PROVE DiscoveryFollowsActivity'
    BY <1>2 DEF IInv, TypeOK, ChallengeResponse
<1>3. CASE AttachActivity \/ DetachActivity \/ DetachEngine
    BY <1>3 DEF IInv, TypeOK, AttachActivity, DetachActivity, DetachEngine
<1>4. ASSUME NEW c \in Calls, BadArgs(c) \/ Busy(c) PROVE UNCHANGED lifeVars
    BY <1>4 DEF BadArgs, Busy, RefusedWith
<1>5. ASSUME NEW d \in Devices, OnDevice(d) \/ DeviceAnswers(d) PROVE UNCHANGED lifeVars
    BY <1>5 DEF OnDevice, DeviceAnswers
<1>6. CASE Cancel \/ DeliverReply \/ UNCHANGED vars
    BY <1>1, <1>6 DEF Cancel, DeliverReply, vars
<1> QED
    BY <1>1, <1>2, <1>3, <1>4, <1>5, <1>6 DEF Next

\* What a step does to the calls and to their outcomes, one lemma per kind of
\* step: nothing, a refusal, a new pending call, a settled call, a delivery.
Unmoved(c) ==
    /\ c \in made' <=> c \in made
    /\ pendingResult' = c <=> pendingResult = c
    /\ Outcomes(c)' = Outcomes(c)
    /\ Answered(c)' = Answered(c)

\* A refused call is answered at once and never pending.
LEMMA RefusalMoves ==
    ASSUME IInv, NEW c \in Calls, NEW code \in ErrorCodes, RefusedWith(c, code)
    PROVE  /\ c \notin made /\ c \in made' /\ pendingResult # c /\ pendingResult' # c
           /\ Outcomes(c)' = {Error(code)} /\ Answered(c)'
           /\ \A o \in Calls \ {c} : Unmoved(o)
<1>1. /\ c \notin made /\ made' = made \cup {c} /\ UNCHANGED <<pendingVars, posted>>
      /\ reply'[c] = Error(code) /\ \A o \in Calls \ {c} : reply'[o] = reply[o]
    BY DEF RefusedWith, Made, IInv, TypeOK
<1>2. Answered(c)'
    BY <1>1, RepliesAreReplies DEF Answered
<1>3. pendingResult # c /\ pendingResult' # c
    BY <1>1 DEF IInv, TypeOK, pendingVars
<1>4. {p.reply : p \in {q \in posted' : q.call = c}} = {}
    BY <1>1 DEF IInv, TypeOK
<1>5. Outcomes(c)' = {Error(code)}
    BY <1>1, <1>2, <1>4 DEF Outcomes
<1>6. ASSUME NEW o \in Calls \ {c} PROVE Unmoved(o)
    BY <1>1 DEF Unmoved, Outcomes, Answered, pendingVars
<1> QED
    BY <1>1, <1>2, <1>3, <1>5, <1>6

\* An accepted call is the only pending one.
LEMMA AcceptMoves ==
    ASSUME IInv, NEW c \in Calls, ChallengeResponse(c)
    PROVE  /\ c \notin made /\ c \in made'
           /\ \A o \in Calls : pendingResult # o
           /\ pendingResult' = c /\ pendingChallenge' = c
           /\ Outcomes(c)' = {} /\ ~Answered(c)'
           /\ \A o \in Calls \ {c} : Unmoved(o)
<1>1. /\ c \notin made /\ made' = made \cup {c} /\ UNCHANGED <<posted, reply>>
      /\ pendingResult = NoCall /\ pendingResult' = c /\ pendingChallenge' = c
    BY DEF ChallengeResponse, Made
<1>2. Outcomes(c)' = {} /\ ~Answered(c)'
    BY <1>1, NewCallsHaveNone, SameOutcomes DEF IInv, Answered
<1>3. ASSUME NEW o \in Calls \ {c} PROVE Unmoved(o)
    BY <1>1, SameOutcomes DEF Unmoved
<1> QED
    BY <1>1, <1>2, <1>3

\* Settling takes the pending call and gives it its one outcome.
LEMMA SettleMoves ==
    ASSUME IInv, NEW what \in Replies, Settle(what), UNCHANGED <<made, reply>>
    PROVE  /\ pendingResult' = NoCall /\ pendingChallenge' = NoCall
           /\ \A c \in Calls : pendingResult = c =>
                 c \in made /\ Outcomes(c)' = {what} /\ ~Answered(c) /\ ~Answered(c)'
           /\ \A c \in Calls : pendingResult # c => Unmoved(c)
<1>1. pendingResult' = NoCall /\ pendingChallenge' = NoCall
    BY DEF Settle
<1>2. ASSUME NEW c \in Calls, pendingResult = c
      PROVE  c \in made /\ Outcomes(c)' = {what} /\ ~Answered(c) /\ ~Answered(c)'
    <2>1. c \in made
        BY <1>2 DEF IInv, TypeOK
    <2>2. ~Answered(c)
        BY <1>2, <2>1 DEF IInv, OneOutcome, Outcomes
    <2> QED
        BY <1>2, <2>1, <2>2, SettleGives
<1>3. ASSUME NEW c \in Calls, pendingResult # c PROVE Unmoved(c)
    <2>1. CASE c \in made
        BY <1>1, <1>3, <2>1, SettleGives DEF Unmoved
    <2>2. CASE c \notin made
        <3>1. {q \in posted' : q.call = c} = {q \in posted : q.call = c}
            BY <1>3 DEF Settle
        <3> QED
            BY <1>1, <1>3, <3>1 DEF Unmoved, Outcomes, Answered
    <2> QED
        BY <2>1, <2>2
<1> QED
    BY <1>1, <1>2, <1>3

\* A delivery answers the call that the reply was posted for.
LEMMA DeliveryMoves ==
    ASSUME IInv, DeliverReply
    PROVE  \E c \in Calls :
               /\ c \in made /\ c \in made' /\ pendingResult # c /\ pendingResult' # c
               /\ ~Answered(c) /\ Answered(c)' /\ Outcomes(c)' = Outcomes(c)
               /\ \A p \in posted' : p.call # c
               /\ \A o \in Calls \ {c} : Unmoved(o)
<1>1. PICK p \in posted : posted' = posted \ {p} /\ reply' = [reply EXCEPT ![p.call] = p.reply]
    BY DEF DeliverReply
<1>2. /\ p.call \in made /\ p.call \in Calls /\ p.reply \in Replies
      /\ UNCHANGED <<made, pendingResult>>
    BY DEF IInv, TypeOK, DeliverReply, pendingVars
<1>3. ~Answered(p.call) /\ Answered(p.call)'
    BY <1>1, <1>2, RepliesAreReplies DEF IInv, TypeOK, OneOutcome, Answered
<1>4. p.reply \in Outcomes(p.call)
    BY DEF Outcomes
<1>5. pendingResult # p.call
    BY <1>2, <1>4 DEF IInv, OneOutcome
<1>6. ASSUME NEW q \in posted, q.call = p.call PROVE q = p
    <2>1. q.reply \in Outcomes(p.call)
        BY <1>6 DEF Outcomes
    <2>2. q.reply = p.reply
        BY <1>2, <1>4, <1>5, <2>1 DEF IInv, OneOutcome
    <2> QED
        BY <1>6, <2>2 DEF IInv, TypeOK
<1>7. ASSUME NEW o \in Calls \ {p.call} PROVE Unmoved(o)
    <2>1. {q \in posted' : q.call = o} = {q \in posted : q.call = o}
        BY <1>1, <1>7
    <2>2. reply'[o] = reply[o]
        BY <1>1, <1>2, <1>7 DEF IInv, TypeOK
    <2> QED
        BY <1>2, <2>1, <2>2 DEF Unmoved, Outcomes, Answered
<1> QED
    BY <1>1, <1>2, <1>3, <1>5, <1>6, <1>7, DeliveryKeeps

\* The other steps leave all calls where they are.
LEMMA OtherMoves ==
    ASSUME IInv, UNCHANGED <<made, pendingResult, posted, reply>>
    PROVE  \A c \in Calls : Unmoved(c)
BY SameOutcomes DEF Unmoved

Settles == \E what \in Replies : Settle(what) /\ UNCHANGED <<made, reply>>

\* Every step is of one of these kinds.
LEMMA KindsOfSteps ==
    ASSUME IInv, [Next]_vars
    PROVE  \/ \E c \in Calls, code \in ErrorCodes : RefusedWith(c, code)
           \/ \E c \in Calls : ChallengeResponse(c)
           \/ Settles
           \/ DeliverReply
           \/ UNCHANGED <<made, pendingVars, posted, reply>>
<1>1. ASSUME NEW c \in Calls, BadArgs(c) \/ Busy(c)
      PROVE  \E code \in ErrorCodes : RefusedWith(c, code)
    BY <1>1 DEF BadArgs, Busy, ErrorCodes
<1>2. ASSUME NEW d \in Devices, DeviceAnswers(d) PROVE Settles
    <2>1. asked[d] \in Calls
        BY <1>2 DEF DeviceAnswers, IInv, TypeOK
    <2> QED
        BY <1>2, <2>1, RepliesAreReplies DEF DeviceAnswers, ErrorCodes, Settles
<1>3. CASE Cancel
    BY <1>3, RepliesAreReplies DEF Cancel, ErrorCodes, Settles
<1>4. ASSUME NEW d \in Devices, OnDevice(d)
      PROVE  UNCHANGED <<made, pendingVars, posted, reply>>
    BY <1>4 DEF OnDevice
<1>5. CASE AttachActivity \/ DetachActivity \/ DetachEngine \/ UNCHANGED vars
    BY <1>5 DEF AttachActivity, DetachActivity, DetachEngine, vars
<1> QED
    BY <1>1, <1>2, <1>3, <1>4, <1>5 DEF Next

\* Being pending or having one outcome, for one call.
OneOutcomeOf(c) ==
    IF pendingResult = c THEN Outcomes(c) = {}
    ELSE \E what \in Replies : Outcomes(c) = {what}

\* A call that is left alone keeps its outcome.
LEMMA UnmovedKeeps ==
    ASSUME NEW c, Unmoved(c), c \in made => OneOutcomeOf(c), Answered(c) => c \in made
    PROVE  (c \in made' => OneOutcomeOf(c)') /\ (Answered(c)' => c \in made')
BY DEF Unmoved, OneOutcomeOf

\* Every step keeps each call at one outcome or pending.
LEMMA OutcomeStep == IInv /\ [Next]_vars => OneOutcome' /\ RepliesToCallsMade'
<1> SUFFICES ASSUME IInv, [Next]_vars PROVE OneOutcome' /\ RepliesToCallsMade'
    OBVIOUS
<1> DEFINE Kept(c) == (c \in made => OneOutcomeOf(c)) /\ (Answered(c) => c \in made)
<1>1. \A c \in Calls : Kept(c)
    BY DEF IInv, TypeOK, OneOutcome, OneOutcomeOf, RepliesToCallsMade
<1>2. ASSUME NEW c \in Calls, Unmoved(c) PROVE Kept(c)'
    BY <1>1, <1>2, UnmovedKeeps
<1>3. ASSUME \A c \in Calls : Kept(c)', \A p \in posted' : ~Answered(p.call)',
             pendingChallenge' = pendingResult'
      PROVE  OneOutcome' /\ RepliesToCallsMade'
    BY <1>3, TypeStep DEF TypeOK, OneOutcome, OneOutcomeOf, RepliesToCallsMade
<1>4. /\ \A p \in posted : p.call \in Calls /\ ~Answered(p.call)
      /\ pendingChallenge = pendingResult
    BY DEF IInv, TypeOK, OneOutcome
<1>5. ASSUME NEW c \in Calls, NEW code \in ErrorCodes, RefusedWith(c, code)
      PROVE  OneOutcome' /\ RepliesToCallsMade'
    <2>1. UNCHANGED <<posted, pendingResult, pendingChallenge>>
        BY <1>5 DEF RefusedWith, pendingVars
    <2>2. Kept(c)'
        BY <1>5, RefusalMoves, RepliesAreReplies DEF OneOutcomeOf
    <2>3. \A p \in posted : p.call # c
        BY <1>5, RefusalMoves DEF IInv, TypeOK
    <2>4. \A p \in posted' : ~Answered(p.call)'
        BY <1>4, <1>5, <2>1, <2>3, RefusalMoves DEF Unmoved
    <2>5. \A o \in Calls : Kept(o)'
        BY <1>2, <1>5, <2>2, RefusalMoves
    <2> QED
        BY <1>3, <1>4, <2>1, <2>4, <2>5
<1>6. ASSUME NEW c \in Calls, ChallengeResponse(c) PROVE OneOutcome' /\ RepliesToCallsMade'
    <2>1. UNCHANGED <<posted, reply>>
        BY <1>6 DEF ChallengeResponse
    <2>2. Kept(c)'
        BY <1>6, AcceptMoves DEF OneOutcomeOf
    <2>3. \A p \in posted' : ~Answered(p.call)'
        BY <1>4, <2>1 DEF Answered
    <2>4. \A o \in Calls : Kept(o)'
        BY <1>2, <1>6, <2>2, AcceptMoves
    <2> QED
        BY <1>3, <1>6, <2>3, <2>4, AcceptMoves
<1>7. ASSUME NEW what \in Replies, Settle(what), UNCHANGED <<made, reply>>
      PROVE  OneOutcome' /\ RepliesToCallsMade'
    <2>1. ASSUME NEW c \in Calls, pendingResult = c PROVE Kept(c)'
        BY <1>7, <2>1, SettleMoves DEF OneOutcomeOf
    <2>2. \A c \in Calls : Kept(c)'
        BY <1>2, <1>7, <2>1, SettleMoves
    <2>3. ASSUME NEW p \in posted' PROVE ~Answered(p.call)'
        <3>1. p \in posted \/ (pendingResult # NoCall /\ p.call = pendingResult)
            BY <1>7, <2>3 DEF Settle
        <3>2. pendingResult # NoCall => pendingResult \in Calls
            BY DEF IInv, TypeOK
        <3> QED
            BY <1>4, <1>7, <3>1, <3>2, SettleMoves DEF Answered
    <2> QED
        BY <1>3, <1>7, <2>2, <2>3, SettleMoves
<1>8. CASE DeliverReply
    <2>1. UNCHANGED <<made, pendingResult, pendingChallenge>> /\ posted' \subseteq posted
        BY <1>8 DEF DeliverReply, pendingVars
    <2>2. PICK c \in Calls :
               /\ c \in made /\ c \in made' /\ pendingResult # c /\ pendingResult' # c
               /\ ~Answered(c) /\ Answered(c)' /\ Outcomes(c)' = Outcomes(c)
               /\ \A p \in posted' : p.call # c
               /\ \A o \in Calls \ {c} : Unmoved(o)
        BY <1>8, DeliveryMoves
    <2>3. Kept(c)'
        BY <1>1, <2>2 DEF OneOutcomeOf
    <2>4. \A o \in Calls : Kept(o)'
        BY <1>2, <2>2, <2>3
    <2>5. \A p \in posted' : ~Answered(p.call)'
        BY <1>4, <2>1, <2>2 DEF Unmoved
    <2> QED
        BY <1>3, <1>4, <2>1, <2>4, <2>5
<1>9. CASE UNCHANGED <<made, pendingVars, posted, reply>>
    <2>1. \A c \in Calls : Kept(c)'
        BY <1>2, <1>9, OtherMoves DEF pendingVars
    <2>2. \A p \in posted' : ~Answered(p.call)'
        BY <1>4, <1>9 DEF Answered
    <2> QED
        BY <1>3, <1>4, <1>9, <2>1, <2>2 DEF pendingVars
<1> QED
    BY <1>5, <1>6, <1>7, <1>8, <1>9, KindsOfSteps DEF Settles

OwnOf(c) == \A what \in Outcomes(c) : what.kind = "response" => what.of = c

\* Every step keeps the devices of a fresh call working for that call.
LEMMA FreshStep == IInv /\ [Next]_vars => DevicesWorkForFresh' /\ OwnResponse'
<1> SUFFICES ASSUME IInv, [Next]_vars PROVE DevicesWorkForFresh' /\ OwnResponse'
    OBVIOUS
<1>1. /\ \A c \in fresh : c \in Calls /\ OwnOf(c)
      /\ NoCall \notin fresh
      /\ \A d \in Devices : asked[d] \in Calls \cup {NoCall}
    BY DEF IInv, TypeOK, OwnResponse, OwnOf
<1>2. ASSUME UNCHANGED <<made, pendingResult, posted, reply>>, UNCHANGED fresh
      PROVE  OwnResponse'
    BY <1>1, <1>2, OtherMoves DEF OwnResponse, OwnOf, Unmoved
<1>3. ASSUME NEW c \in Calls, BadArgs(c) \/ Busy(c) PROVE DevicesWorkForFresh' /\ OwnResponse'
    <2>1. PICK code \in ErrorCodes : RefusedWith(c, code)
        BY <1>3 DEF BadArgs, Busy, ErrorCodes
    <2>2. UNCHANGED <<fresh, asked, pendingResult>>
        BY <2>1 DEF RefusedWith, pendingVars
    <2>3. c \notin fresh
        BY <2>1, RefusalMoves DEF IInv, TypeOK
    <2>4. OwnResponse'
        BY <1>1, <2>1, <2>2, <2>3, RefusalMoves DEF OwnResponse, OwnOf, Unmoved
    <2> QED
        BY <2>2, <2>4 DEF IInv, DevicesWorkForFresh
<1>4. ASSUME NEW c \in Calls, ChallengeResponse(c)
      PROVE  DevicesWorkForFresh' /\ OwnResponse'
    <2>1. /\ UNCHANGED asked /\ fresh' \subseteq fresh \cup {c}
          /\ c \in fresh' => (c \in fresh \/ \A d \in Devices : asked[d] = NoCall)
        BY <1>4 DEF ChallengeResponse
    <2>2. c \notin fresh /\ pendingResult' = c /\ Outcomes(c)' = {}
        BY <1>4, AcceptMoves DEF IInv, TypeOK
    <2>3. DevicesWorkForFresh'
        BY <2>1, <2>2 DEF DevicesWorkForFresh
    <2>4. ASSUME NEW o \in fresh PROVE OwnOf(o)'
        BY <1>1, <1>4, <2>2, AcceptMoves DEF Unmoved, OwnOf
    <2>5. OwnOf(c)'
        BY <2>2 DEF OwnOf
    <2> QED
        BY <2>1, <2>3, <2>4, <2>5 DEF OwnResponse, OwnOf
<1>5. ASSUME NEW what \in Replies, Settle(what), UNCHANGED <<made, reply, fresh>>,
             \A c \in fresh : pendingResult = c /\ what.kind = "response" => what.of = c
      PROVE  DevicesWorkForFresh' /\ OwnResponse'
    <2>1. DevicesWorkForFresh'
        BY <1>1, <1>5, SettleMoves DEF DevicesWorkForFresh
    <2>2. ASSUME NEW c \in fresh PROVE OwnOf(c)'
        <3>1. CASE pendingResult = c
            BY <1>1, <1>5, <3>1, SettleMoves DEF OwnOf
        <3>2. CASE pendingResult # c
            BY <1>1, <1>5, <3>2, SettleMoves DEF OwnOf, Unmoved
        <3> QED
            BY <3>1, <3>2
    <2> QED
        BY <1>5, <2>1, <2>2 DEF OwnResponse, OwnOf
<1>6. ASSUME NEW d \in Devices, DeviceAnswers(d) PROVE DevicesWorkForFresh' /\ OwnResponse'
    <2>1. asked[d] \in Calls /\ UNCHANGED <<made, reply, fresh>>
        BY <1>1, <1>6 DEF DeviceAnswers
    <2>2. CASE Settle(Response(asked[d]))
        <3>1. \A c \in fresh : pendingResult = c => Response(asked[d]).of = c
            BY <2>1, RepliesAreReplies DEF IInv, DevicesWorkForFresh
        <3> QED
            BY <1>5, <2>1, <2>2, <3>1, RepliesAreReplies
    <2>3. CASE Settle(Error("device_error"))
        BY <1>5, <2>1, <2>3, RepliesAreReplies DEF ErrorCodes
    <2> QED
        BY <1>6, <2>2, <2>3 DEF DeviceAnswers
<1>7. CASE Cancel
    <2>1. Error("cancelled") \in Replies /\ Error("cancelled").kind # "response"
        BY RepliesAreReplies DEF ErrorCodes
    <2> QED
        BY <1>5, <1>7, <2>1 DEF Cancel
<1>8. CASE DeliverReply
    <2>1. UNCHANGED <<fresh, asked, pendingResult>>
        BY <1>8 DEF DeliverReply, pendingVars
    <2>2. \A c \in made : Outcomes(c)' = Outcomes(c)
        BY <1>8, DeliveryKeeps
    <2>3. OwnResponse'
        BY <1>1, <2>1, <2>2 DEF IInv, TypeOK, OwnResponse, OwnOf
    <2> QED
        BY <2>1, <2>3 DEF IInv, DevicesWorkForFresh
<1>9. ASSUME NEW d \in Devices, OnDevice(d) PROVE DevicesWorkForFresh' /\ OwnResponse'
    <2>1. /\ UNCHANGED <<made, pendingVars, posted, reply, fresh>>
          /\ asked' = [asked EXCEPT ![d] = pendingResult]
        BY <1>9 DEF OnDevice, IInv, OneOutcome
    <2>2. DevicesWorkForFresh'
        BY <2>1 DEF IInv, TypeOK, DevicesWorkForFresh, pendingVars
    <2> QED
        BY <1>2, <2>1, <2>2 DEF pendingVars
<1>10. CASE AttachActivity \/ DetachActivity \/ DetachEngine \/ UNCHANGED vars
    <2>1. UNCHANGED <<made, pendingResult, posted, reply, fresh, asked>>
        BY <1>10 DEF AttachActivity, DetachActivity, DetachEngine, vars, pendingVars
    <2> QED
        BY <1>2, <2>1 DEF IInv, DevicesWorkForFresh
<1> QED
    BY <1>3, <1>4, <1>6, <1>7, <1>8, <1>9, <1>10 DEF Next

\* The invariant holds for any number of calls, devices and activities.
LEMMA Invariance == Spec => []IInv
<1>1. IInv /\ [Next]_vars => IInv'
    BY TypeStep, OutcomeStep, FreshStep, DiscoveryStep DEF IInv
<1> QED
    BY Start, <1>1, PTL DEF Spec

-----------------------------------------------------------------------------
\* Every variable keeps its shape, for any number of calls and devices.
THEOREM TypeCorrect == Spec => []TypeOK
BY Invariance, PTL DEF IInv

\* However many devices answer, and whatever is cancelled, each call is pending
\* or has exactly one outcome: succeed, fail and cancel take it under the lock.
THEOREM EachCallHasOneOutcome == Spec => []OneOutcome
BY Invariance, PTL DEF IInv

\* A call made while no device is at work is answered with its own response.
THEOREM FreshCallsGetTheirOwn == Spec => []OwnResponse
BY Invariance, PTL DEF IInv

\* Discovery is engaged exactly while there is an activity.
THEOREM DiscoveryIsTiedToActivity == Spec => []DiscoveryFollowsActivity
BY Invariance, PTL DEF IInv

-----------------------------------------------------------------------------
\* A call that is left alone keeps its status in the abstract channel.
LEMMA StatusUnmoved ==
    ASSUME NEW c, Unmoved(c) PROVE StatusOf(c)' = StatusOf(c)
BY DEF Unmoved, StatusOf

\* The plugin is a one-shot channel: every step of it refuses, accepts, settles
\* or answers one call of OneShot, or leaves all of them as they are.
THEOREM ImplementsOneShot == Spec => IsOneShot
<1> DEFINE status == [c \in Calls |-> StatusOf(c)]
<1>1. Init => Channel!Init
    BY DEF Init, Channel!Init, StatusOf
<1>2. IInv /\ [Next]_vars => [Channel!Next]_status
    <2> SUFFICES ASSUME IInv, [Next]_vars PROVE [Channel!Next]_status
        OBVIOUS
    <2>1. ASSUME NEW c \in Calls, NEW from, NEW to, StatusOf(c) = from, StatusOf(c)' = to,
                 \A o \in Calls \ {c} : Unmoved(o)
          PROVE  Channel!Moves(c, from, to)
        <3>1. \A o \in Calls \ {c} : StatusOf(o)' = StatusOf(o)
            BY <2>1, StatusUnmoved
        <3> QED
            BY <2>1, <3>1 DEF Channel!Moves
    <2>2. ASSUME NEW c \in Calls, NEW code \in ErrorCodes, RefusedWith(c, code)
          PROVE  Channel!Next
        <3>1. StatusOf(c) = "new" /\ StatusOf(c)' = "answered"
            BY <2>2, RefusalMoves DEF StatusOf
        <3>2. Channel!Moves(c, "new", "answered")
            BY <2>1, <2>2, <3>1, RefusalMoves
        <3> QED
            BY <3>2 DEF Channel!Next, Channel!Refuse
    <2>3. ASSUME NEW c \in Calls, ChallengeResponse(c) PROVE Channel!Next
        <3>1. StatusOf(c) = "new" /\ StatusOf(c)' = "pending"
            BY <2>3, AcceptMoves DEF StatusOf
        <3>2. \A o \in Calls : StatusOf(o) # "pending"
            BY <2>3, AcceptMoves DEF StatusOf
        <3>3. Channel!Moves(c, "new", "pending")
            BY <2>1, <2>3, <3>1, AcceptMoves
        <3> QED
            BY <3>2, <3>3 DEF Channel!Next, Channel!Accept
    <2>4. ASSUME NEW what \in Replies, Settle(what), UNCHANGED <<made, reply>>
          PROVE  [Channel!Next]_status
        <3>1. ASSUME NEW c \in Calls, pendingResult = c PROVE Channel!Next
            <4>1. StatusOf(c) = "pending" /\ StatusOf(c)' = "settled"
                BY <2>4, <3>1, SettleMoves DEF StatusOf
            <4>2. Channel!Moves(c, "pending", "settled")
                BY <2>1, <2>4, <3>1, <4>1, SettleMoves
            <4> QED
                BY <4>2 DEF Channel!Next, Channel!Settle
        <3>2. CASE \A c \in Calls : pendingResult # c
            BY <2>4, <3>2, SettleMoves, StatusUnmoved
        <3> QED
            BY <3>1, <3>2
    <2>5. CASE DeliverReply
        <3>1. PICK c \in Calls :
                   /\ c \in made /\ c \in made' /\ pendingResult # c /\ pendingResult' # c
                   /\ ~Answered(c) /\ Answered(c)'
                   /\ \A o \in Calls \ {c} : Unmoved(o)
            BY <2>5, DeliveryMoves
        <3>2. StatusOf(c) = "settled" /\ StatusOf(c)' = "answered"
            BY <3>1 DEF StatusOf
        <3>3. Channel!Moves(c, "settled", "answered")
            BY <2>1, <3>1, <3>2
        <3> QED
            BY <3>3 DEF Channel!Next, Channel!Answer
    <2>6. CASE UNCHANGED <<made, pendingVars, posted, reply>>
        BY <2>6, OtherMoves, StatusUnmoved DEF pendingVars
    <2> QED
        BY <2>2, <2>3, <2>4, <2>5, <2>6, KindsOfSteps DEF Settles
<1> QED
    BY <1>1, <1>2, Invariance, PTL DEF Spec, IsOneShot, Channel!Spec

=============================================================================
