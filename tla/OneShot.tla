------------------------------ MODULE OneShot ------------------------------
(***************************************************************************)
(* What a Flutter method channel with one operation in flight promises its *)
(* Dart callers: a call is refused at once or becomes the one pending      *)
(* call; its outcome is settled once; and it is answered once.             *)
(*                                                                         *)
(* Both security-key plugins implement it, with device threads, a cancel   *)
(* method and (WebAuthn) a watchdog all trying to settle the same call.    *)
(***************************************************************************)
CONSTANTS
    Calls   \* the calls Dart makes

VARIABLES
    status  \* how far each call has got

Statuses == {"new", "pending", "settled", "answered"}

Init == status = [c \in Calls |-> "new"]

Moves(c, from, to) ==
    /\ status[c] = from
    /\ status' = [status EXCEPT ![c] = to]

Accept(c) == (\A o \in Calls : status[o] # "pending") /\ Moves(c, "new", "pending")

Refuse(c) == Moves(c, "new", "answered")

Settle(c) == Moves(c, "pending", "settled")

Answer(c) == Moves(c, "settled", "answered")

Next == \E c \in Calls : Accept(c) \/ Refuse(c) \/ Settle(c) \/ Answer(c)

Spec == Init /\ [][Next]_status
=============================================================================
