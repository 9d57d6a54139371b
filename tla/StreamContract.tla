-------------------------- MODULE StreamContract --------------------------
(***************************************************************************)
(* What a Dart Stream<T> backed by a Go Emitter promises its subscriber    *)
(* (docs/STREAMING.md, and the tests of pkg/bridge/stream_test.go), with   *)
(* nothing of how it is done: no channel, no goroutine, no port.           *)
(*                                                                         *)
(* Items are numbered in the order their Send succeeded.  The subscriber   *)
(* is shown them in that order and without gaps, except those the Dart     *)
(* side cannot decode, and sees at most one ending, after which it is      *)
(* shown nothing.  An ending the producer asked for (Close or Fail) comes  *)
(* only after everything it sent.                                          *)
(***************************************************************************)
EXTENDS Naturals, Sequences

CONSTANTS
    Streams,   \* the streams opened
    MaxItems,  \* bound of the model: items sent on one stream
    Kinds      \* what can be wrong with an item, see Stream

VARIABLES
    kind,   \* the kind of each item of each stream
    sent,   \* how many Sends have succeeded on each stream
    shown,  \* the items each subscriber was shown, in order
    phase   \* how each stream stands towards its subscriber

contractVars == <<kind, sent, shown, phase>>

Phases == {"live", "done", "failed", "broken", "gone"}

Init ==
    /\ kind \in [Streams -> [1..MaxItems -> Kinds]]
    /\ sent = [s \in Streams |-> 0]
    /\ shown = [s \in Streams |-> << >>]
    /\ phase = [s \in Streams |-> "live"]

LastShown(s) == IF shown[s] = << >> THEN 0 ELSE shown[s][Len(shown[s])]

Skippable(s, n) == kind[s][n] = "undecodable"

\* Send succeeds; never once the subscriber was told that all is done.
Accept(s) ==
    /\ phase[s] \notin {"done", "failed"}
    /\ sent[s] < MaxItems
    /\ sent' = [sent EXCEPT ![s] = @ + 1]
    /\ UNCHANGED <<kind, shown, phase>>

\* The next item reaches the subscriber.
Show(s) ==
    /\ phase[s] = "live"
    /\ \E n \in LastShown(s) + 1 .. sent[s] :
        /\ kind[s][n] = "plain"
        /\ \A m \in LastShown(s) + 1 .. n - 1 : Skippable(s, m)
        /\ shown' = [shown EXCEPT ![s] = Append(@, n)]
    /\ UNCHANGED <<kind, sent, phase>>

\* The producer's own ending, after everything it sent.
End(s) ==
    /\ phase[s] = "live"
    /\ \A m \in LastShown(s) + 1 .. sent[s] : Skippable(s, m)
    /\ \E how \in {"done", "failed"} : phase' = [phase EXCEPT ![s] = how]
    /\ UNCHANGED <<kind, sent, shown>>

\* The runtime could not carry the stream on.
Break(s) ==
    /\ phase[s] = "live"
    /\ phase' = [phase EXCEPT ![s] = "broken"]
    /\ UNCHANGED <<kind, sent, shown>>

\* Subscribers cancel, or their isolate goes away.
Leave ==
    /\ \E left \in SUBSET {s \in Streams : phase[s] = "live"} :
        phase' = [s \in Streams |-> IF s \in left THEN "gone" ELSE phase[s]]
    /\ UNCHANGED <<kind, sent, shown>>

Next ==
    \/ \E s \in Streams : Accept(s) \/ Show(s) \/ End(s) \/ Break(s)
    \/ Leave

Spec == Init /\ [][Next]_contractVars
=============================================================================
