----------------------------- MODULE AtomicFile -----------------------------
(***************************************************************************)
(* What pkg/filechooser promises of the file at an output path, whoever    *)
(* writes to it: a call replaces it with its whole output or leaves it as  *)
(* it is, says truthfully which of the two it did, and does nothing to it  *)
(* after it has said so.                                                   *)
(*                                                                         *)
(* In a crash the file may fall back, but only to what was there when the  *)
(* disk last caught up, and a call that reports success may have made sure *)
(* that the disk has its output.                                           *)
(***************************************************************************)
CONSTANTS
    Calls,   \* the calls that write to the path; each also names its whole output
    Outside  \* what other programs can leave there, nothing included

VARIABLES
    target,   \* what a reader finds at the path
    saved,    \* what a reader would find after a crash
    report,   \* what each call has reported
    replaced  \* the calls that have put their output there

Reports == {"written", "exists", "handed over", "failed", "discarded"}

Init ==
    /\ target \in Outside
    /\ saved = target
    /\ report = [c \in Calls |-> "none"]
    /\ replaced = {}

Replace(c) ==
    /\ report[c] = "none"
    /\ target' = c
    /\ replaced' = replaced \cup {c}
    /\ UNCHANGED <<saved, report>>

\* "failed" and "discarded" leave open what happened to the file.
Truthful(c, what) ==
    /\ what = "written" => c \in replaced
    /\ what \in {"exists", "handed over"} => c \notin replaced

Report(c, what) ==
    /\ report[c] = "none"
    /\ Truthful(c, what)
    /\ report' = [report EXCEPT ![c] = what]
    /\ saved' = saved \/ (what = "written" /\ saved' = target)
    /\ UNCHANGED <<target, replaced>>

OtherProgram ==
    /\ target' \in Outside
    /\ UNCHANGED <<saved, report, replaced>>

Flush ==
    /\ saved' = target
    /\ UNCHANGED <<target, report, replaced>>

\* Calls that had not reported may be lost, and then do nothing any more.
Crash ==
    /\ target' = saved
    /\ \E lost \in SUBSET {c \in Calls : report[c] = "none"} :
           report' = [c \in Calls |-> IF c \in lost THEN "lost" ELSE report[c]]
    /\ UNCHANGED <<saved, replaced>>

Next ==
    \/ OtherProgram \/ Flush \/ Crash
    \/ \E c \in Calls : Replace(c) \/ \E what \in Reports : Report(c, what)

fileVars == <<target, saved, report, replaced>>

Spec == Init /\ [][Next]_fileVars
=============================================================================
