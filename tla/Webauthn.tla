------------------------------ MODULE Webauthn ------------------------------
(***************************************************************************)
(* The Android half of the webauthn plugin (WebauthnPlugin.kt): one        *)
(* security-key ceremony in flight, with a watchdog.                       *)
(*                                                                         *)
(* Unlike the hardware-key plugin it starts discovery for each ceremony    *)
(* and stops it in finish(), which any thread may run: a device thread     *)
(* with a result, the main thread for cancel, for the watchdog, or when    *)
(* discovery does not start.  finish() holds the lock only while it takes  *)
(* the pending result; startCeremony holds it only to register and to      *)
(* remember its watchdog.  All the rest interleaves, one step at a time.   *)
(***************************************************************************)
CONSTANTS
    Calls,    \* the ceremonies Dart asks for (getAssertion, makeCredential)
    Devices,  \* the keys that may be presented, each served by a thread
    Main,     \* the main thread
    NoCall    \* null

ASSUME NoCallAssumption == NoCall \notin Calls
ASSUME MainAssumption == Main \notin Devices

Threads == Devices \cup {Main}

VARIABLES
    made,             \* the ceremonies asked for
    pendingResult,    \* the ceremony waiting for an answer
    pendingAction,    \* the ceremony a device is to run
    discoveryActive,  \* the code's flag
    discovery,        \* the transports that are listening
    timeoutRunnable,  \* the ceremony whose watchdog finish() will remove
    watchdogs,        \* the ceremonies whose watchdog waits in the main handler
    pc,               \* where each thread is
    work,             \* the ceremony each thread is starting or running
    took,             \* the call finish() has taken in each thread
    verdict,          \* the reply finish() is to post in each thread
    posted,           \* the replies posted to the main thread
    reply,            \* what each call was answered
    fresh,            \* the ceremonies started with nothing left of earlier ones
    engineAttached,   \* the plugin belongs to a running engine
    activityBinding,  \* the foreground activity is known
    hasNFC            \* the phone has NFC

pendingVars == <<pendingResult, pendingAction>>
discoveryVars == <<discoveryActive, discovery>>
watchdogVars == <<timeoutRunnable, watchdogs>>
finishVars == <<took, verdict>>
replyVars == <<posted, reply>>
lifeVars == <<engineAttached, activityBinding, hasNFC>>
vars == <<made, pendingVars, discoveryVars, watchdogVars, pc, work, finishVars, replyVars,
          fresh, lifeVars>>

\* "response" and "timeout" belong to a ceremony: the one that was run, the one
\* whose watchdog it was.
Outcome(kind, of) == [kind |-> kind, of |-> of]
Error(code) == Outcome(code, NoCall)
NoReply == Error("none")

ErrorCodes == {"bad_args", "no_activity", "busy", "cancelled", "ceremony_failed"}
Replies ==
    {Outcome(kind, c) : kind \in {"response", "timeout"}, c \in Calls}
        \cup {Error(code) : code \in ErrorCodes}

Starting == {"startUsb", "startNfc", "setActive", "remember", "postWatchdog"}
Finishing == {"stop", "clear"}

\* Every variable has its shape, and every ceremony somebody is busy with was
\* asked for.
TypeOK ==
    /\ made \subseteq Calls
    /\ pendingResult \in made \cup {NoCall}
    /\ pendingAction \in made \cup {NoCall}
    /\ discoveryActive \in BOOLEAN
    /\ discovery \subseteq {"usb", "nfc"}
    /\ timeoutRunnable \in made \cup {NoCall}
    /\ watchdogs \subseteq made
    /\ pc \in [Threads -> {"idle", "connecting", "running"} \cup Starting \cup Finishing]
    /\ work \in [Threads -> made \cup {NoCall}]
    /\ took \in [Threads -> made \cup {NoCall}]
    /\ verdict \in [Threads -> Replies \cup {NoReply}]
    /\ posted \subseteq [call : made, reply : Replies]
    /\ reply \in [Calls -> Replies \cup {NoReply}]
    /\ fresh \subseteq made
    /\ engineAttached \in BOOLEAN
    /\ activityBinding \in BOOLEAN
    /\ hasNFC \in BOOLEAN

Init ==
    /\ made = {}
    /\ pendingResult = NoCall /\ pendingAction = NoCall
    /\ discoveryActive = FALSE /\ discovery = {}
    /\ timeoutRunnable = NoCall /\ watchdogs = {}
    /\ pc = [t \in Threads |-> "idle"]
    /\ work = [t \in Threads |-> NoCall]
    /\ took = [t \in Threads |-> NoCall]
    /\ verdict = [t \in Threads |-> NoReply]
    /\ posted = {}
    /\ reply = [c \in Calls |-> NoReply]
    /\ fresh = {}
    /\ engineAttached = TRUE
    /\ activityBinding = FALSE
    /\ hasNFC \in BOOLEAN

Goto(t, place) == pc' = [pc EXCEPT ![t] = place]

\* The main thread is between two messages of its looper.
MainIdle == pc[Main] = "idle"

(***************************************************************************)
(* finish(), on any thread.                                                *)
(***************************************************************************)

\* Under the lock: whatever is pending by now is taken, and the remembered
\* watchdog, if it has been posted, is removed.
FinishTake(t, what, posts) ==
    /\ took' = [took EXCEPT ![t] = pendingResult]
    /\ verdict' = [verdict EXCEPT ![t] = what]
    /\ pendingResult' = NoCall
    /\ pendingAction' = NoCall
    /\ watchdogs' = posts \ {timeoutRunnable}
    /\ timeoutRunnable' = NoCall
    /\ Goto(t, "stop")

\* The taken call, if any, gets its reply posted.
Posts(t) ==
    /\ posted' = IF took[t] = NoCall THEN posted
                 ELSE posted \cup {[call |-> took[t], reply |-> verdict[t]]}
    /\ took' = [took EXCEPT ![t] = NoCall]
    /\ verdict' = [verdict EXCEPT ![t] = NoReply]
    /\ work' = [work EXCEPT ![t] = NoCall]
    /\ Goto(t, "idle")

\* stopDiscovery finds nothing to stop.
FinishUnstarted(t) ==
    /\ pc[t] = "stop"
    /\ ~discoveryActive \/ ~engineAttached
    /\ Posts(t)
    /\ UNCHANGED <<made, pendingVars, discoveryVars, watchdogVars, reply, fresh, lifeVars>>

\* stopDiscovery: NFC can only be stopped on an activity.
FinishStop(t) ==
    /\ pc[t] = "stop"
    /\ discoveryActive /\ engineAttached
    /\ discovery' = IF activityBinding THEN {} ELSE discovery \ {"usb"}
    /\ Goto(t, "clear")
    /\ UNCHANGED <<made, pendingVars, discoveryActive, watchdogVars, work, finishVars,
                   replyVars, fresh, lifeVars>>

FinishClear(t) ==
    /\ pc[t] = "clear"
    /\ discoveryActive' = FALSE
    /\ Posts(t)
    /\ UNCHANGED <<made, pendingVars, discovery, watchdogVars, reply, fresh, lifeVars>>

RestOfFinish(t) == FinishUnstarted(t) \/ FinishStop(t) \/ FinishClear(t)

(***************************************************************************)
(* The method channel.                                                     *)
(***************************************************************************)
Made(c) == MainIdle /\ engineAttached /\ c \notin made /\ made' = made \cup {c}

RefusedWith(c, code) ==
    /\ Made(c)
    /\ reply' = [reply EXCEPT ![c] = Error(code)]
    /\ UNCHANGED <<pendingVars, discoveryVars, watchdogVars, pc, work, finishVars, posted,
                   fresh, lifeVars>>

BadArgs(c) == RefusedWith(c, "bad_args")

NoActivity(c) == ~activityBinding /\ RefusedWith(c, "no_activity")

\* Mutant: the action is stored before the busy check.
BusyStoresAction(c) ==
    /\ activityBinding /\ pendingResult # NoCall
    /\ Made(c)
    /\ reply' = [reply EXCEPT ![c] = Error("busy")]
    /\ pendingAction' = c
    /\ UNCHANGED <<pendingResult, discoveryVars, watchdogVars, pc, work, finishVars, posted,
                   fresh, lifeVars>>

Busy(c) == activityBinding /\ pendingResult # NoCall /\ RefusedWith(c, "busy")

\* Nothing is under way in any thread, and no watchdog is left.
NothingLeft ==
    /\ \A t \in Threads : pc[t] = "idle"
    /\ timeoutRunnable = NoCall /\ watchdogs = {}

\* Mutant: the busy check is missing.
RegisterWhileBusy(c) ==
    /\ activityBinding
    /\ Made(c)
    /\ pendingResult' = c /\ pendingAction' = c
    /\ fresh' = IF NothingLeft THEN fresh \cup {c} ELSE fresh
    /\ work' = [work EXCEPT ![Main] = c]
    /\ Goto(Main, "startUsb")
    /\ UNCHANGED <<discoveryVars, watchdogVars, finishVars, replyVars, lifeVars>>

\* startCeremony registers the call...
Register(c) ==
    /\ activityBinding /\ pendingResult = NoCall
    /\ Made(c)
    /\ pendingResult' = c /\ pendingAction' = c
    /\ fresh' = IF NothingLeft THEN fresh \cup {c} ELSE fresh
    /\ work' = [work EXCEPT ![Main] = c]
    /\ Goto(Main, "startUsb")
    /\ UNCHANGED <<discoveryVars, watchdogVars, finishVars, replyVars, lifeVars>>

\* ... starts listening on USB, then on NFC where there is NFC...
StartDiscovery(transport, from, to) ==
    /\ pc[Main] = from
    /\ discovery' = IF transport = "usb" \/ hasNFC THEN discovery \cup {transport}
                    ELSE discovery
    /\ Goto(Main, to)
    /\ UNCHANGED <<made, pendingVars, discoveryActive, watchdogVars, work, finishVars,
                   replyVars, fresh, lifeVars>>

StartUsb == StartDiscovery("usb", "startUsb", "startNfc")
StartNfc == StartDiscovery("nfc", "startNfc", "setActive")

\* ... or an exception there ends it.
DiscoveryFails ==
    /\ pc[Main] \in {"startUsb", "startNfc"}
    /\ FinishTake(Main, Error("ceremony_failed"), watchdogs)
    /\ UNCHANGED <<made, discoveryVars, work, replyVars, fresh, lifeVars>>

\* Mutant: the flag is set where NFC has been started.
SetActiveWithNfc ==
    /\ pc[Main] = "setActive"
    /\ discoveryActive' = (discoveryActive \/ hasNFC)
    /\ Goto(Main, "remember")
    /\ UNCHANGED <<made, pendingVars, discovery, watchdogVars, work, finishVars, replyVars,
                   fresh, lifeVars>>

SetActive ==
    /\ pc[Main] = "setActive"
    /\ discoveryActive' = TRUE
    /\ Goto(Main, "remember")
    /\ UNCHANGED <<made, pendingVars, discovery, watchdogVars, work, finishVars, replyVars,
                   fresh, lifeVars>>

\* The watchdog is remembered under the lock, whether or not the ceremony is
\* over by then, and posted after it.
RememberWatchdog ==
    /\ pc[Main] = "remember"
    /\ timeoutRunnable' = work[Main]
    /\ Goto(Main, "postWatchdog")
    /\ UNCHANGED <<made, pendingVars, discoveryVars, watchdogs, work, finishVars, replyVars,
                   fresh, lifeVars>>

\* Mutant: the watchdog is never posted.
SkipWatchdog ==
    /\ pc[Main] = "postWatchdog"
    /\ work' = [work EXCEPT ![Main] = NoCall]
    /\ Goto(Main, "idle")
    /\ UNCHANGED <<made, pendingVars, discoveryVars, watchdogVars, finishVars, replyVars,
                   fresh, lifeVars>>

PostWatchdog ==
    /\ pc[Main] = "postWatchdog"
    /\ watchdogs' = watchdogs \cup {work[Main]}
    /\ work' = [work EXCEPT ![Main] = NoCall]
    /\ Goto(Main, "idle")
    /\ UNCHANGED <<made, pendingVars, discoveryVars, timeoutRunnable, finishVars, replyVars,
                   fresh, lifeVars>>

RestOfStart == StartUsb \/ StartNfc \/ SetActive \/ RememberWatchdog \/ PostWatchdog

\* cancelAssertion: finish(), even with nothing pending.
Cancel ==
    /\ MainIdle /\ engineAttached
    /\ FinishTake(Main, Error("cancelled"), watchdogs)
    /\ UNCHANGED <<made, discoveryVars, work, replyVars, fresh, lifeVars>>

\* Two minutes later: finish(), whatever is pending by then.
WatchdogFires(c) ==
    /\ MainIdle /\ c \in watchdogs
    /\ FinishTake(Main, Outcome("timeout", c), watchdogs \ {c})
    /\ UNCHANGED <<made, discoveryVars, work, replyVars, fresh, lifeVars>>

\* A reply posted earlier runs on the main thread.
DeliverReply ==
    /\ MainIdle
    /\ \E p \in posted :
        /\ posted' = posted \ {p}
        /\ reply' = [reply EXCEPT ![p.call] = p.reply]
    /\ UNCHANGED <<made, pendingVars, discoveryVars, watchdogVars, pc, work, finishVars,
                   fresh, lifeVars>>

(***************************************************************************)
(* Device threads.                                                         *)
(***************************************************************************)

\* onDevice: the pending action is captured and a connection requested.
OnDevice(d) ==
    /\ discovery # {}
    /\ pc[d] = "idle"
    /\ pendingAction # NoCall
    /\ work' = [work EXCEPT ![d] = pendingAction]
    /\ Goto(d, "connecting")
    /\ UNCHANGED <<made, pendingVars, discoveryVars, watchdogVars, finishVars, replyVars,
                   fresh, lifeVars>>

\* The connection is there: if nothing is pending any more, nothing is run.
Recheck(d) ==
    /\ pc[d] = "connecting"
    /\ IF pendingAction = NoCall
       THEN Goto(d, "idle") /\ work' = [work EXCEPT ![d] = NoCall]
       ELSE Goto(d, "running") /\ UNCHANGED work
    /\ UNCHANGED <<made, pendingVars, discoveryVars, watchdogVars, finishVars, replyVars,
                   fresh, lifeVars>>

\* The captured action returns a response or throws; or there was no connection.
ActionEnds(d) ==
    /\ pc[d] = "running"
    /\ \/ FinishTake(d, Outcome("response", work[d]), watchdogs)
       \/ FinishTake(d, Error("ceremony_failed"), watchdogs)
    /\ UNCHANGED <<made, discoveryVars, work, replyVars, fresh, lifeVars>>

DeviceWorks(d) == Recheck(d) \/ ActionEnds(d)

(***************************************************************************)
(* The life of activity and engine, on the main thread.  Discovery is left *)
(* as it is.                                                               *)
(***************************************************************************)
ActivityChanges ==
    /\ MainIdle /\ engineAttached
    /\ activityBinding' = ~activityBinding
    /\ UNCHANGED <<made, pendingVars, discoveryVars, watchdogVars, pc, work, finishVars,
                   replyVars, fresh, engineAttached, hasNFC>>

\* Flutter detaches the activity first.  No call comes in any more.
DetachEngine ==
    /\ MainIdle /\ engineAttached /\ ~activityBinding
    /\ engineAttached' = FALSE
    /\ UNCHANGED <<made, pendingVars, discoveryVars, watchdogVars, pc, work, finishVars,
                   replyVars, fresh, activityBinding, hasNFC>>

-----------------------------------------------------------------------------
Next ==
    \/ \E c \in Calls : BadArgs(c) \/ NoActivity(c) \/ Busy(c) \/ Register(c)
                        \/ WatchdogFires(c)
    \/ RestOfStart \/ DiscoveryFails
    \/ Cancel \/ DeliverReply
    \/ \E t \in Threads : RestOfFinish(t)
    \/ \E d \in Devices : OnDevice(d) \/ DeviceWorks(d)
    \/ ActivityChanges \/ DetachEngine

\* Threads get through startCeremony and finish(), and the looper gets to every
\* message posted to it, however many others come in between.  Nobody has to
\* present a key or to cancel, and a ceremony may hang on the key for good.
Fairness ==
    /\ WF_vars(RestOfStart)
    /\ \A t \in Threads : WF_vars(RestOfFinish(t))
    /\ SF_vars(DeliverReply)
    /\ \A c \in Calls : SF_vars(WatchdogFires(c))

Spec == Init /\ [][Next]_vars /\ Fairness

(***************************************************************************)
(* Properties.                                                             *)
(***************************************************************************)
Answered(c) == reply[c] # NoReply

TakenIn(c) == {t \in Threads : took[t] = c}

\* Everything a call was, or is about to be, answered.
Outcomes(c) ==
    {p.reply : p \in {q \in posted : q.call = c}}
        \cup {verdict[t] : t \in TakenIn(c)}
        \cup (IF Answered(c) THEN {reply[c]} ELSE {})

\* A ceremony started when nothing was left of earlier ones gets its own result,
\* and times out only by its own watchdog.
OwnOutcome ==
    \A c \in fresh : \A what \in Outcomes(c) :
        what.kind \in {"response", "timeout"} => what.of = c

\* While such a ceremony is pending a key can reach it and its watchdog can end
\* it: no other finish() has stopped its discovery or removed its watchdog.
PendingIsReachable ==
    \A c \in fresh :
        pendingResult = c /\ pc[Main] \notin Starting
            => "usb" \in discovery /\ discoveryActive /\ c \in watchdogs

\* How the calls stand, in the words of OneShot.
StatusOf(c) ==
    CASE c \notin made -> "new"
      [] c \in made /\ Answered(c) -> "answered"
      [] c \in made /\ ~Answered(c) /\ pendingResult = c -> "pending"
      [] OTHER -> "settled"

Channel == INSTANCE OneShot WITH status <- [c \in Calls |-> StatusOf(c)]

\* The plugin is a one-shot channel: refused at once or pending alone, settled
\* once, answered once.
IsOneShot == Channel!Spec

\* Lines 64-66: the watchdog sees to it that "pendingResult can't wedge the
\* channel into a permanent "busy" state": every ceremony ends, if no key is ever
\* presented, if the activity or the engine goes, if discovery is stopped by the
\* finish() of an earlier ceremony.
NeverWedged == \A c \in Calls : pendingResult = c ~> Answered(c)

\* Lines 156-158: "Cancelled (or timed out) between discovery and this callback -
\* don't run the ceremony or send the PIN to the key".
CancelledNeverRuns ==
    [][\A d \in Devices :
        pc[d] = "connecting" /\ pc'[d] = "running" => pendingAction = work[d]]_vars
=============================================================================
