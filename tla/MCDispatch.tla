----------------------------- MODULE MCDispatch -----------------------------
(***************************************************************************)
(* Instance of Dispatch for TLC: every type as the only parameter or among *)
(* two, every pair of result types, and some triples.                      *)
(***************************************************************************)
EXTENDS Dispatch

Params == {<<>>} \cup {<<t>> : t \in Types} \cup {<<"string", t>> : t \in {"secret", "intmap", "time"}}
Results ==
    {<<>>} \cup {<<t>> : t \in Types \ {"secret"}}
    \cup ((Types \ {"secret"}) \X (Types \ {"secret"}))
    \cup ({"error", "int"} \X {"error", "marshaler"} \X {"error", "struct"})

\* Parameters and results vary together only where both are simple.
AllMethods ==
    {[params |-> <<"secret">>, results |-> r] : r \in Results}
    \cup {[params |-> <<>>, results |-> r] : r \in Results}
    \cup {[params |-> p, results |-> r] : p \in Params, r \in {<<>>, <<"error">>, <<"string", "error">>}}
=============================================================================
