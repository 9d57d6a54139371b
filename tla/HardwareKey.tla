----------------------------- MODULE HardwareKey -----------------------------
(***************************************************************************)
(* The Android half of the hardware_key plugin (HardwareKeyPlugin.kt): one *)
(* challenge-response call in flight, answered by whichever security key   *)
(* is tapped or plugged in.                                                *)
(*                                                                         *)
(* The handlers of the method channel and of the activity's life run on    *)
(* the main thread.  Devices are served on threads of their own; what they *)
(* share with the handlers is guarded by `lock`, and every step below that *)
(* touches it is one critical section.  Between reading the challenge      *)
(* (onDevice) and taking the pending result (succeed, fail) a device       *)
(* thread holds nothing: the key is computing, perhaps waiting for a       *)
(* touch.  Replies are posted to the main thread.                          *)
(*                                                                         *)
(* A call stands for its challenge and slot.                               *)
(***************************************************************************)
CONSTANTS
    Calls,    \* the challengeResponse calls Dart makes
    Devices,  \* the keys that may be presented, each served by a thread
    NoCall    \* null

ASSUME NoCallAssumption == NoCall \notin Calls

VARIABLES
    made,              \* the calls made
    pendingResult,     \* the call waiting for an answer
    pendingChallenge,  \* the call whose challenge the next device gets
    asked,             \* the challenge each device is working on
    posted,            \* the replies posted to the main thread
    reply,             \* what each call was answered
    fresh,             \* the calls accepted while no device was at work
    engineAttached,    \* the plugin belongs to a running engine
    activityBinding,   \* the foreground activity is known
    isDiscoveryActive, \* the code's flag
    discovery,         \* the transports that are listening
    hasNFC             \* the phone has NFC

pendingVars == <<pendingResult, pendingChallenge>>
lifeVars == <<engineAttached, activityBinding, isDiscoveryActive, discovery, hasNFC>>
vars == <<made, pendingVars, asked, posted, reply, fresh, lifeVars>>

Response(challenge) == [kind |-> "response", of |-> challenge]
Error(code) == [kind |-> code, of |-> NoCall]
NoReply == Error("none")

ErrorCodes == {"bad_args", "busy", "cancelled", "device_error"}
Replies == {Response(c) : c \in Calls} \cup {Error(code) : code \in ErrorCodes}

\* Every variable has its shape; a device only works on challenges of calls made.
TypeOK ==
    /\ made \subseteq Calls
    /\ pendingResult \in made \cup {NoCall}
    /\ pendingChallenge \in made \cup {NoCall}
    /\ asked \in [Devices -> made \cup {NoCall}]
    /\ posted \subseteq [call : made, reply : Replies]
    /\ reply \in [Calls -> Replies \cup {NoReply}]
    /\ fresh \subseteq made
    /\ engineAttached \in BOOLEAN
    /\ activityBinding \in BOOLEAN
    /\ isDiscoveryActive \in BOOLEAN
    /\ discovery \subseteq {"usb", "nfc"}
    /\ hasNFC \in BOOLEAN

Init ==
    /\ made = {}
    /\ pendingResult = NoCall
    /\ pendingChallenge = NoCall
    /\ asked = [d \in Devices |-> NoCall]
    /\ posted = {}
    /\ reply = [c \in Calls |-> NoReply]
    /\ fresh = {}
    /\ engineAttached = TRUE
    /\ activityBinding = FALSE
    /\ isDiscoveryActive = FALSE
    /\ discovery = {}
    /\ hasNFC \in BOOLEAN

(***************************************************************************)
(* Discovery, on the main thread.                                          *)
(***************************************************************************)
Transports == IF hasNFC THEN {"usb", "nfc"} ELSE {"usb"}

\* startDiscoveryIfNeeded, with the activity the plugin knows of by then.
StartDiscoveryIfNeeded(activity) ==
    IF isDiscoveryActive \/ ~activity \/ ~engineAttached
    THEN UNCHANGED <<isDiscoveryActive, discovery>>
    ELSE isDiscoveryActive' = TRUE /\ discovery' = Transports

\* stopDiscovery: NFC can only be stopped on an activity.
StopDiscovery(activity) ==
    IF ~isDiscoveryActive THEN UNCHANGED <<isDiscoveryActive, discovery>>
    ELSE /\ isDiscoveryActive' = FALSE
         /\ discovery' = IF activity THEN {} ELSE discovery \ {"usb"}

AttachActivity ==
    /\ engineAttached /\ ~activityBinding
    /\ activityBinding' = TRUE
    /\ StartDiscoveryIfNeeded(TRUE)
    /\ UNCHANGED <<made, pendingVars, asked, posted, reply, fresh, engineAttached, hasNFC>>

\* Mutant: the binding is dropped before discovery is stopped.
DetachThenStop ==
    /\ activityBinding
    /\ activityBinding' = FALSE
    /\ StopDiscovery(FALSE)
    /\ UNCHANGED <<made, pendingVars, asked, posted, reply, fresh, engineAttached, hasNFC>>

\* onDetachedFromActivity, and the same for a configuration change.  A pending
\* call stays pending.
DetachActivity ==
    /\ activityBinding
    /\ activityBinding' = FALSE
    /\ StopDiscovery(TRUE)
    /\ UNCHANGED <<made, pendingVars, asked, posted, reply, fresh, engineAttached, hasNFC>>

\* Flutter detaches the activity first.  No call comes in any more.
DetachEngine ==
    /\ engineAttached /\ ~activityBinding
    /\ engineAttached' = FALSE
    /\ StopDiscovery(FALSE)
    /\ UNCHANGED <<made, pendingVars, asked, posted, reply, fresh, activityBinding, hasNFC>>

(***************************************************************************)
(* The method channel.                                                     *)
(***************************************************************************)
Made(c) == engineAttached /\ c \notin made /\ made' = made \cup {c}

RefusedWith(c, code) ==
    /\ Made(c)
    /\ reply' = [reply EXCEPT ![c] = Error(code)]
    /\ UNCHANGED <<pendingVars, asked, posted, fresh, lifeVars>>

BadArgs(c) == RefusedWith(c, "bad_args")

\* Mutant: the challenge is stored before the busy check.
BusyStoresChallenge(c) ==
    /\ pendingResult # NoCall
    /\ Made(c)
    /\ reply' = [reply EXCEPT ![c] = Error("busy")]
    /\ pendingChallenge' = c
    /\ UNCHANGED <<pendingResult, asked, posted, fresh, lifeVars>>

Busy(c) == pendingResult # NoCall /\ RefusedWith(c, "busy")

\* Mutant: the busy check is missing.
AcceptWhileBusy(c) ==
    /\ Made(c)
    /\ pendingResult' = c
    /\ pendingChallenge' = c
    /\ fresh' = IF \A d \in Devices : asked[d] = NoCall THEN fresh \cup {c} ELSE fresh
    /\ StartDiscoveryIfNeeded(activityBinding)
    /\ UNCHANGED <<asked, posted, reply, engineAttached, activityBinding, hasNFC>>

\* The call becomes the pending one.
ChallengeResponse(c) ==
    /\ pendingResult = NoCall
    /\ Made(c)
    /\ pendingResult' = c
    /\ pendingChallenge' = c
    /\ fresh' = IF \A d \in Devices : asked[d] = NoCall THEN fresh \cup {c} ELSE fresh
    /\ StartDiscoveryIfNeeded(activityBinding)
    /\ UNCHANGED <<asked, posted, reply, engineAttached, activityBinding, hasNFC>>

\* succeed and fail: whatever is pending by now is taken and answered.
Settle(what) ==
    /\ pendingResult' = NoCall
    /\ pendingChallenge' = NoCall
    /\ posted' = IF pendingResult = NoCall THEN posted
                 ELSE posted \cup {[call |-> pendingResult, reply |-> what]}

\* The cancel method; discovery goes on.
Cancel ==
    /\ engineAttached
    /\ pendingResult # NoCall
    /\ Settle(Error("cancelled"))
    /\ UNCHANGED <<made, asked, reply, fresh, lifeVars>>

\* A reply posted earlier runs on the main thread.
DeliverReply ==
    /\ \E p \in posted :
        /\ posted' = posted \ {p}
        /\ reply' = [reply EXCEPT ![p.call] = p.reply]
    /\ UNCHANGED <<made, pendingVars, asked, fresh, lifeVars>>

(***************************************************************************)
(* Device threads.                                                         *)
(***************************************************************************)

\* onDevice: with no challenge pending the device is dropped.
OnDevice(d) ==
    /\ discovery # {}
    /\ asked[d] = NoCall
    /\ pendingChallenge # NoCall
    /\ asked' = [asked EXCEPT ![d] = pendingChallenge]
    /\ UNCHANGED <<made, pendingVars, posted, reply, fresh, lifeVars>>

\* Mutant: an exception in the callback is swallowed.
DeviceFailsSilently(d) ==
    /\ asked[d] # NoCall
    /\ Settle(Response(asked[d])) \/ UNCHANGED <<pendingVars, posted>>
    /\ asked' = [asked EXCEPT ![d] = NoCall]
    /\ UNCHANGED <<made, reply, fresh, lifeVars>>

\* The callback of requestConnection: the key's response, or an exception.
DeviceAnswers(d) ==
    /\ asked[d] # NoCall
    /\ Settle(Response(asked[d])) \/ Settle(Error("device_error"))
    /\ asked' = [asked EXCEPT ![d] = NoCall]
    /\ UNCHANGED <<made, reply, fresh, lifeVars>>

-----------------------------------------------------------------------------
Next ==
    \/ \E c \in Calls : BadArgs(c) \/ Busy(c) \/ ChallengeResponse(c)
    \/ \E d \in Devices : OnDevice(d) \/ DeviceAnswers(d)
    \/ Cancel \/ DeliverReply
    \/ AttachActivity \/ DetachActivity \/ DetachEngine

\* The main thread runs what is posted to it, and a key that was asked answers
\* or fails.  Nobody has to present a key, to cancel, or to keep the activity.
Fairness == WF_vars(DeliverReply) /\ \A d \in Devices : WF_vars(DeviceAnswers(d))

Spec == Init /\ [][Next]_vars /\ Fairness

(***************************************************************************)
(* Properties.                                                             *)
(***************************************************************************)
Answered(c) == reply[c] # NoReply

\* Everything a call was or is about to be answered.
Outcomes(c) ==
    {p.reply : p \in {q \in posted : q.call = c}}
        \cup (IF Answered(c) THEN {reply[c]} ELSE {})

\* A call is pending, or has exactly one outcome: a device that answers while
\* cancel runs neither answers a second time (which makes Flutter throw) nor
\* takes the call away without an answer.  No device gets the challenge of a call
\* that is no longer pending.
OneOutcome ==
    /\ \A c \in made :
        IF pendingResult = c THEN Outcomes(c) = {}
        ELSE \E what \in Replies : Outcomes(c) = {what}
    /\ \A p \in posted : ~Answered(p.call)
    /\ pendingChallenge = pendingResult

\* A call made while no key was still computing for an earlier one is only ever
\* answered with the response to its own challenge, however it is cancelled,
\* retried, or served by two keys at once.
OwnResponse ==
    \A c \in fresh : \A what \in Outcomes(c) : what.kind = "response" => what.of = c

\* Reader mode is engaged exactly as long as there is an activity (comments at
\* lines 10-17 and 137-140), over attachments, configuration changes and calls: a
\* tap goes neither to the system's dispatcher nor to a plugin without activity.
DiscoveryFollowsActivity ==
    /\ isDiscoveryActive <=> activityBinding
    /\ discovery = IF activityBinding THEN Transports ELSE {}

\* How the calls stand, in the words of OneShot.
StatusOf(c) ==
    CASE c \notin made -> "new"
      [] c \in made /\ Answered(c) -> "answered"
      [] c \in made /\ ~Answered(c) /\ pendingResult = c -> "pending"
      [] OTHER -> "settled"

Channel == INSTANCE OneShot WITH status <- [c \in Calls |-> StatusOf(c)]

\* The plugin is a one-shot channel: refused at once or pending alone, settled
\* once, answered once.
IsOneShot == Channel!Spec

\* Once a key has been presented for a call the call gets its answer, whoever
\* settles it.
PresentedIsAnswered ==
    \A c \in Calls, d \in Devices :
        asked[d] = c /\ pendingResult = c ~> Answered(c)
=============================================================================
