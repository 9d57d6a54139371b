---------------------------- MODULE PortalRequest ----------------------------
(***************************************************************************)
(* Dialogs on Linux (pkg/filechooser: portal_linux.go, filechooser_linux.go, *)
(* fallback_linux.go): a request to the XDG desktop portal whose answer is *)
(* a D-Bus signal, a timer of 60 s, and zenity or kdialog where the portal *)
(* fails.                                                                  *)
(*                                                                         *)
(* The calls of one process share its session bus connection.  Calls of    *)
(* godbus are blocking; a signal goes to every channel registered on the   *)
(* connection, and where a channel is full a goroutine hands it over later. *)
(***************************************************************************)
EXTENDS Integers

CONSTANTS
    Calls,      \* calls of the dialog methods, one dialog each
    MaxLosses,  \* bound: how often the bus connection is lost
    Nobody      \* an empty channel

ASSUME PortalAssumption == MaxLosses \in Nat /\ Nobody \notin Calls

VARIABLES
    pc,          \* where each call is
    kind,        \* the method called
    subscribed,  \* calls whose channel is registered on the connection
    matched,     \* calls whose match rule is on the bus
    closed,      \* calls whose connection was lost under them
    portal,      \* the portal's dialog of each call
    bus,         \* calls whose Response signal is on its way to the connection
    slot,        \* the signal in the channel (of capacity 1) of each call
    deferred,    \* the signals that wait for room in it
    timer,       \* calls whose 60 s are over
    tool,        \* the fallback dialog of each call
    result,      \* what each call has returned: what, and whose dialog said so
    losses       \* how often the connection was lost

channels == <<bus, slot, deferred>>
dialogs == <<portal, tool>>
vars == <<pc, kind, subscribed, matched, closed, channels, dialogs, timer, result, losses>>

\* PickFile, PickFiles, PickDirectory and SaveFile ask and fall back alike, SaveFiles
\* has no fallback; OpenFile, OpenDirectory and OpenURL await no Response.
Kinds == {"Pick", "SaveFiles", "Open"}

\* Response signals by what wait and its caller make of them: a choice, code 1, an
\* error (another code, no URIs, a URI that is no file), a body that is none.
Answers == {"chosen", "canceled", "error", "malformed"}
Results == {"none", "chosen", "canceled", "error"}
Places == {"idle", "connect", "subscribe", "call", "calling", "wait", "cleanup", "fallback",
           "dialog", "done"}

Nowhere == [is |-> "none", of |-> Nobody]

\* Every variable has its shape.
TypeOK ==
    /\ pc \in [Calls -> Places] /\ kind \in [Calls -> Kinds]
    /\ subscribed \subseteq Calls /\ matched \subseteq Calls
    /\ closed \subseteq Calls /\ bus \subseteq Calls /\ timer \subseteq Calls
    /\ portal \in [Calls -> {"none", "open"} \cup Answers]
    /\ tool \in [Calls -> {"none", "open", "answered"}]
    /\ slot \in [Calls -> Calls \cup {Nobody}]
    /\ deferred \in [Calls -> SUBSET Calls]
    /\ \A c \in Calls : slot[c] = Nobody \/ slot[c] \notin deferred[c]
    /\ result \in [Calls -> [is : Results, of : Calls \cup {Nobody}]]
    /\ losses \in 0..MaxLosses

Init ==
    /\ pc = [c \in Calls |-> "idle"] /\ kind \in [Calls -> Kinds]
    /\ subscribed = {} /\ matched = {} /\ closed = {} /\ bus = {} /\ timer = {}
    /\ portal = [c \in Calls |-> "none"] /\ tool = [c \in Calls |-> "none"]
    /\ slot = [c \in Calls |-> Nobody] /\ deferred = [c \in Calls |-> {}]
    /\ result = [c \in Calls |-> Nowhere]
    /\ losses = 0

Goto(c, place) == pc' = [pc EXCEPT ![c] = place]
Settle(c, is, of) == result' = [result EXCEPT ![c] = [is |-> is, of |-> of]]
Request == <<kind, subscribed, matched, closed, timer, losses>>
Elsewhere == <<Request, channels, dialogs>>

(***************************************************************************)
(* portalFileChooser up to the portal's dialog.                            *)
(***************************************************************************)

Begin(c) ==
    /\ pc[c] = "idle"
    /\ Goto(c, "connect")
    /\ UNCHANGED <<Elsewhere, result>>

\* SaveFile with a target outside Flatpak shows no dialog.
SaveAtTarget(c) ==
    /\ pc[c] = "idle" /\ kind[c] = "Pick"
    /\ Settle(c, "chosen", c)
    /\ Goto(c, "done")
    /\ UNCHANGED Elsewhere

\* There is a bus and the portal's name has an owner; the Openers open the file now.
PortalAvailable(c) ==
    /\ pc[c] = "connect"
    /\ Goto(c, IF kind[c] = "Open" THEN "call" ELSE "subscribe")
    /\ UNCHANGED <<Elsewhere, result>>

CannotOpen(c) ==
    /\ pc[c] = "connect" /\ kind[c] = "Open"
    /\ Settle(c, "error", Nobody)
    /\ Goto(c, "done")
    /\ UNCHANGED Elsewhere

\* No bus, no portal, or AddMatch fails.
PortalMissing(c) ==
    /\ pc[c] \in {"connect", "subscribe"}
    /\ Goto(c, "fallback")
    /\ UNCHANGED <<Elsewhere, result>>

\* Mutant: the request asks without having subscribed.
NewPortalRequestBare(c) ==
    /\ pc[c] = "subscribe"
    /\ Goto(c, "call")
    /\ UNCHANGED <<Elsewhere, result>>

\* The request's path is fixed by a token of our own, so that the channel and the
\* match rule are there before the portal knows of the request.
NewPortalRequest(c) ==
    /\ pc[c] = "subscribe" /\ c \notin closed
    /\ subscribed' = subscribed \cup {c}
    /\ matched' = matched \cup {c}
    /\ Goto(c, "call")
    /\ UNCHANGED <<kind, closed, timer, losses, channels, dialogs, result>>

CallPortal(c) ==
    /\ pc[c] = "call" /\ c \notin closed
    /\ portal' = [portal EXCEPT ![c] = "open"]
    /\ Goto(c, "calling")
    /\ UNCHANGED <<Request, channels, tool, result>>

\* An opener is done with the portal's reply.
CallReturns(c) ==
    /\ pc[c] = "calling" /\ c \notin closed
    /\ IF kind[c] = "Open"
       THEN Settle(c, "chosen", c) /\ Goto(c, "done")
       ELSE Goto(c, "wait") /\ UNCHANGED result
    /\ UNCHANGED Elsewhere

\* The call may fail although the portal has got it.
CallFails(c) ==
    /\ pc[c] \in {"call", "calling"}
    /\ Goto(c, "cleanup")
    /\ UNCHANGED <<Elsewhere, result>>

(***************************************************************************)
(* The portal, the bus and godbus.                                         *)
(***************************************************************************)

Answer(c, a) ==
    /\ portal[c] = "open" /\ kind[c] # "Open"
    /\ portal' = [portal EXCEPT ![c] = a]
    /\ bus' = bus \cup {c}
    /\ UNCHANGED <<pc, Request, slot, deferred, tool, result>>

\* A signal somebody asked for is passed to every channel, another one may be.
Audiences(c) ==
    IF c \in matched THEN {subscribed \ closed} ELSE {{}, subscribed \ closed}

Deliver(c) ==
    /\ c \in bus
    /\ bus' = bus \ {c}
    /\ \E heard \in Audiences(c) :
        /\ slot' = [d \in Calls |-> IF d \in heard /\ slot[d] = Nobody THEN c ELSE slot[d]]
        /\ deferred' = [d \in Calls |->
                          IF d \in heard /\ slot[d] # Nobody THEN deferred[d] \cup {c}
                          ELSE deferred[d]]
    /\ UNCHANGED <<pc, Request, dialogs, result>>

DeliverDeferred(c, d) ==
    /\ slot[c] = Nobody /\ d \in deferred[c]
    /\ slot' = [slot EXCEPT ![c] = d]
    /\ deferred' = [deferred EXCEPT ![c] = @ \ {d}]
    /\ UNCHANGED <<pc, Request, bus, dialogs, result>>

\* Every channel of the connection is closed: from then on wait reads nil.  What a
\* channel holds stays; the next call connects anew.
BusLost ==
    /\ losses < MaxLosses
    /\ losses' = losses + 1
    /\ closed' = closed \cup {c \in Calls : pc[c] \in {"subscribe", "call", "calling", "wait"}}
    /\ bus' = {} /\ deferred' = [c \in Calls |-> {}]
    /\ UNCHANGED <<pc, kind, subscribed, matched, timer, slot, dialogs, result>>

(***************************************************************************)
(* wait, and what portalFileChooser makes of it.                           *)
(***************************************************************************)
Conclude(c, a, d) == IF a = "malformed" THEN UNCHANGED result ELSE Settle(c, a, d)

\* Mutant: any Response will do.
AwaitedAny(c) == Calls

Awaited(c) == {c}

\* Mutant: a signal for another request is left in the channel.
ReceiveOwnOnly(c) ==
    LET d == slot[c] IN
    /\ pc[c] = "wait" /\ d \in Awaited(c)
    /\ slot' = [slot EXCEPT ![c] = Nobody]
    /\ Conclude(c, portal[d], d) /\ Goto(c, "cleanup")
    /\ UNCHANGED <<Request, bus, deferred, dialogs>>

\* A signal for another request is dropped.
Receive(c) ==
    LET d == slot[c] IN
    /\ pc[c] = "wait" /\ d # Nobody
    /\ slot' = [slot EXCEPT ![c] = Nobody]
    /\ IF d \in Awaited(c)
       THEN Conclude(c, portal[d], d) /\ Goto(c, "cleanup")
       ELSE UNCHANGED <<pc, result>>
    /\ UNCHANGED <<Request, bus, deferred, dialogs>>

TimerFires(c) ==
    /\ pc[c] = "wait" /\ c \notin timer
    /\ timer' = timer \cup {c}
    /\ UNCHANGED <<pc, kind, subscribed, matched, closed, losses, channels, dialogs, result>>

\* select picks either when the answer is there as well.
GivesUp(c) == pc[c] = "wait" /\ c \in timer

TimedOut(c) ==
    /\ GivesUp(c)
    /\ Goto(c, "cleanup")
    /\ UNCHANGED <<Elsewhere, result>>

\* Mutant: only a call that has its answer cleans up.
CleanupAnswered(c) ==
    /\ pc[c] = "cleanup"
    /\ IF result[c] = Nowhere THEN UNCHANGED <<subscribed, matched, deferred>>
       ELSE /\ subscribed' = subscribed \ {c} /\ matched' = matched \ {c}
            /\ deferred' = [deferred EXCEPT ![c] = {}]
    /\ Goto(c, IF result[c] = Nowhere THEN "fallback" ELSE "done")
    /\ UNCHANGED <<kind, closed, timer, losses, bus, slot, dialogs, result>>

\* cleanup, deferred: a call without a result has found the portal unusable.
Cleanup(c) ==
    /\ pc[c] = "cleanup"
    /\ subscribed' = subscribed \ {c}
    /\ matched' = matched \ {c}
    /\ slot' = [slot EXCEPT ![c] = Nobody]
    /\ deferred' = [deferred EXCEPT ![c] = {}]
    /\ Goto(c, IF result[c] = Nowhere THEN "fallback" ELSE "done")
    /\ UNCHANGED <<kind, closed, timer, losses, bus, dialogs, result>>

(***************************************************************************)
(* The fallback: zenity, kdialog, matedialog, or xdg-open.                 *)
(***************************************************************************)
NoFallback(c) ==
    /\ pc[c] = "fallback"
    /\ Settle(c, "error", Nobody)
    /\ Goto(c, "done")
    /\ UNCHANGED Elsewhere

OpenTool(c) ==
    /\ pc[c] = "fallback" /\ kind[c] # "SaveFiles"
    /\ tool' = [tool EXCEPT ![c] = "open"]
    /\ IF kind[c] = "Open"
       THEN Settle(c, "chosen", c) /\ Goto(c, "done")
       ELSE Goto(c, "dialog") /\ UNCHANGED result
    /\ UNCHANGED <<Request, channels, portal>>

\* The exit code 1 of the tool is a cancel, another one an error.
ToolExits(c) ==
    /\ pc[c] = "dialog"
    /\ tool' = [tool EXCEPT ![c] = "answered"]
    /\ \E is \in {"chosen", "canceled", "error"} : Settle(c, is, c)
    /\ Goto(c, "done")
    /\ UNCHANGED <<Request, channels, portal>>

-----------------------------------------------------------------------------
Next ==
    \/ \E c \in Calls :
        \/ Begin(c) \/ SaveAtTarget(c) \/ PortalAvailable(c) \/ CannotOpen(c)
        \/ PortalMissing(c) \/ NewPortalRequest(c)
        \/ CallPortal(c) \/ CallReturns(c) \/ CallFails(c)
        \/ \E a \in Answers : Answer(c, a)
        \/ Deliver(c) \/ \E d \in Calls : DeliverDeferred(c, d)
        \/ Receive(c) \/ TimerFires(c) \/ TimedOut(c) \/ Cleanup(c)
        \/ NoFallback(c) \/ OpenTool(c) \/ ToolExits(c)
    \/ BusLost

\* The bus, godbus and the goroutines run; nobody has to answer a dialog, and the
\* 60 s may be long.
Fairness ==
    \A c \in Calls :
        /\ WF_vars(Deliver(c)) /\ WF_vars(\E d \in Calls : DeliverDeferred(c, d))
        /\ WF_vars(Receive(c)) /\ WF_vars(TimedOut(c)) /\ WF_vars(Cleanup(c))

Spec == Init /\ [][Next]_vars /\ Fairness

(***************************************************************************)
(* Properties.                                                             *)
(***************************************************************************)

\* A call returns what was answered in its own dialog, although every channel gets
\* every signal: a portal answer it returns is the one given to its own request.
OwnAnswer ==
    \A c \in Calls : result[c].of # Nobody =>
        /\ result[c].of = c
        /\ result[c].is \in {"chosen", "canceled"} /\ tool[c] = "none" /\ kind[c] # "Open" =>
             portal[c] \in {result[c].is, "none"}

\* While a call waits on a living connection its answer is never lost, however early
\* it was given and whatever else fills the channel.
AnswerKept ==
    \A c \in Calls :
        pc[c] \in {"calling", "wait"} /\ portal[c] \in Answers /\ c \notin closed =>
            c \in bus \/ slot[c] = c \/ c \in deferred[c]

\* A call that has left the portal leaves nothing on the shared connection.
NothingLeft ==
    \A c \in Calls : pc[c] \in {"fallback", "dialog", "done"} =>
        c \notin subscribed \cup matched /\ deferred[c] = {}

\* A call that waits goes on once its dialog is answered, whatever other signals come
\* before, or once its time is up; only on a lost connection does it need the timer.
AnswerReturned ==
    \A c \in Calls :
        pc[c] = "wait" /\ (portal[c] \in Answers \/ c \in timer)
            ~> pc[c] # "wait" \/ c \in closed \ timer
=============================================================================
