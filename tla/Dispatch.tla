------------------------------ MODULE Dispatch ------------------------------
(***************************************************************************)
(* One call of a bound method through the bridge, from the generated Dart  *)
(* wrapper and back: FlugoCall and FlugoCallSecure (pkg/bridge/bridge.go,  *)
(* handler.go, secret.go) between the two sides of the code that the       *)
(* generator writes (internal/codegen).                                    *)
(*                                                                         *)
(* The generator accepts a signature or not; the application binds its     *)
(* service at some time, not necessarily before the first call.  A method  *)
(* may do whatever its signature allows, panic, and forget its Secret.     *)
(***************************************************************************)
EXTENDS BindContract

CONSTANTS
    Methods,   \* the signatures considered
    MaxCalls   \* bound: how many calls are made

ASSUME DispatchAssumption ==
    /\ MaxCalls \in Nat
    /\ \A m \in Methods : m.params \in Seq(Types) /\ m.results \in Seq(Types)

VARIABLES
    method,    \* the bound method, and what it is given
    bound,     \* its service is in the registry
    pc,        \* where the call is
    did,       \* what the method has done: its results, or that it panicked
    response,  \* the response the bridge has made
    saw,       \* what the Dart caller gets
    copies,    \* the plaintext copies of a secret: in C memory, in Go memory
    secret,    \* the enclave of the Secret
    aborted,   \* a panic has reached the cgo boundary
    calls      \* how many calls were made

copiesAndSecret == <<copies, secret>>
vars == <<method, bound, pc, did, response, saw, copies, secret, aborted, calls>>

NoResults == <<>>
Panicked == <<"panic">>
Places == {"idle", "lookup", "decode", "seal", "invoke", "encode", "return"}

\* Every variable has its shape, and a Secret only exists once its bytes are wiped.
TypeOK ==
    /\ method \in Methods /\ Accepts(method)
    /\ bound \in BOOLEAN /\ aborted \in BOOLEAN /\ pc \in Places /\ calls \in 0..MaxCalls
    /\ copies \subseteq {"c", "go"}
    /\ secret \in {"none", "sealed", "destroyed"}
    /\ secret # "none" => "go" \notin copies

Init ==
    /\ method \in {m \in Methods : Accepts(m) /\ ~IsStream(m)}
    /\ bound \in BOOLEAN
    /\ pc = "idle" /\ did = NoResults /\ response = Ok(JSON("null", "nil")) /\ saw = "nothing"
    /\ copies = {} /\ secret = "none"
    /\ aborted = FALSE /\ calls = 0

\* init or Bind, called lazily.
Bind ==
    /\ ~bound
    /\ bound' = TRUE
    /\ UNCHANGED <<method, pc, did, response, saw, copiesAndSecret, aborted, calls>>

(***************************************************************************)
(* The generated wrapper: call or callSecure.                              *)
(***************************************************************************)
Ready == pc = "idle" /\ ~aborted /\ calls < MaxCalls

Call ==
    /\ Ready /\ ~IsSecure(method)
    /\ calls' = calls + 1
    /\ did' = NoResults /\ secret' = "none"
    /\ IF \A i \in DOMAIN method.params : Encodable(method.params[i])
       THEN pc' = "lookup" /\ saw' = "nothing"
       ELSE saw' = "throws" /\ UNCHANGED pc
    /\ UNCHANGED <<method, bound, response, copies, aborted>>

\* callSecure copies the Uint8List into C memory, FlugoCallSecure into Go memory.
CallSecure ==
    /\ Ready /\ IsSecure(method)
    /\ calls' = calls + 1
    /\ did' = NoResults /\ secret' = "none" /\ saw' = "nothing"
    /\ \E payload \in {{"c", "go"}, {}} : copies' = payload
    /\ pc' = "lookup"
    /\ UNCHANGED <<method, bound, response, aborted>>

(***************************************************************************)
(* Dispatch and DispatchSecure.                                            *)
(***************************************************************************)
Respond(r) == response' = r /\ pc' = "return"
Untouched == <<method, bound, saw, aborted, calls>>

\* A method that is not bound is an error, and the Go copy of a secret stays behind.
Lookup ==
    /\ pc = "lookup"
    /\ IF bound
       THEN pc' = (IF IsSecure(method) THEN "seal" ELSE "decode") /\ UNCHANGED response
       ELSE Respond(Failed("some"))
    /\ UNCHANGED <<Untouched, did, copiesAndSecret>>

DecodeParams ==
    /\ pc = "decode"
    /\ IF \A i \in DOMAIN method.params : Decodable(method.params[i])
       THEN pc' = "invoke" /\ UNCHANGED response
       ELSE Respond(Failed("some"))
    /\ UNCHANGED <<Untouched, did, copiesAndSecret>>

\* Mutant: the enclave is made of a copy.
SealCopy ==
    /\ pc = "seal" /\ copies # {}
    /\ secret' = "sealed"
    /\ pc' = "invoke"
    /\ UNCHANGED <<Untouched, did, response, copies>>

\* NewSecret seals the bytes and wipes them.
Seal ==
    /\ pc = "seal" /\ copies # {}
    /\ secret' = "sealed"
    /\ copies' = copies \ {"go"}
    /\ pc' = "invoke"
    /\ UNCHANGED <<Untouched, did, response>>

SealEmpty ==
    /\ pc = "seal" /\ copies = {}
    /\ Respond(Failed("some"))
    /\ UNCHANGED <<Untouched, did, copiesAndSecret>>

\* What the method returns, and whether it destroys its Secret.
ResultsOf(m) ==
    {vals \in [DOMAIN m.results -> Values] :
        \A i \in DOMAIN vals : vals[i] \in ValuesOf(m.results[i])}

Returns ==
    /\ pc = "invoke"
    /\ did' \in ResultsOf(method)
    /\ secret' \in IF secret = "sealed" THEN {"sealed", "destroyed"} ELSE {secret}
    /\ pc' = "encode"
    /\ UNCHANGED <<Untouched, response, copies>>

\* Mutant: the recovered panic is not made an error.
PanicsUnnoticed ==
    /\ pc = "invoke"
    /\ did' = Panicked
    /\ Respond(Ok(JSON("null", "nil")))
    /\ UNCHANGED <<Untouched, copiesAndSecret>>

\* callMethod recovers a panic of the method.
Panics ==
    /\ pc = "invoke"
    /\ did' = Panicked
    /\ Respond(Failed("some"))
    /\ UNCHANGED <<Untouched, copiesAndSecret>>

\* A panic of encodeResults nobody recovers.
Encode ==
    /\ pc = "encode"
    /\ Respond(EncodeResults(method, did))
    /\ aborted' = (response' = Abort)
    /\ UNCHANGED <<method, bound, saw, calls, did, copiesAndSecret>>

\* Mutant: callSecure frees its buffer as it is.
ReturnUnwiped ==
    /\ pc = "return" /\ ~aborted
    /\ saw' = DecodeResponse(method, response)
    /\ pc' = "idle"
    /\ UNCHANGED <<method, bound, did, response, copies, secret, aborted, calls>>

\* callSecure wipes the C buffer; the response is decoded.
Return ==
    /\ pc = "return" /\ ~aborted
    /\ saw' = DecodeResponse(method, response)
    /\ copies' = copies \ {"c"}
    /\ pc' = "idle"
    /\ UNCHANGED <<method, bound, did, response, secret, aborted, calls>>

-----------------------------------------------------------------------------
Next ==
    \/ Bind \/ Call \/ CallSecure \/ Lookup \/ DecodeParams \/ Seal \/ SealEmpty
    \/ Returns \/ Panics \/ Encode \/ Return

Spec == Init /\ [][Next]_vars

(***************************************************************************)
(* Properties.                                                             *)
(***************************************************************************)
Answered == pc = "idle" /\ saw # "nothing"
Ran == Answered /\ did # NoResults /\ did # Panicked

\* The signatures README.md:209 lists: an error comes last.  The plain types are those
\* of README.md's table.
ErrorIsLast == \A i \in DOMAIN method.results : method.results[i] = "error" => i = Len(method.results)
Plain == {"string", "int", "uint64", "float", "bool", "bytes", "slice", "strmap", "intmap", "struct"}

\* A value of a plain type arrives as it is, nil as the zero value, and an error as an
\* exception, unless it has no message; what does not arrive is an exception or, of an
\* integer beyond 63 bits, the greatest one.
ResultsArrive ==
    Ran /\ ErrorIsLast =>
        LET results == method.results
            errors == {did[i] : i \in {j \in DOMAIN did : results[j] = "error"}} \ {"nil"}
        IN
        /\ errors = {"some"} => saw = "exception"
        /\ errors = {} /\ results # <<>> /\ results[1] \in Plain =>
             saw = CASE did[1] = "nil" -> "zero"
                     [] did[1] = "nan" -> "exception"
                     [] did[1] = "huge" -> "clamped"
                     [] OTHER -> did[1]

\* A failure before, in or of the method is an exception in Dart, never a value: a call
\* that comes before Bind, parameters that do not fit, a panic, an empty secret.
FailuresAreThrown ==
    Answered /\ (did = Panicked \/ (did = NoResults /\ method.results # <<>>)) =>
        saw \in {"exception", "throws"}

\* Once a bound secure method has been called, no plaintext is left where the bridge
\* has put it, whatever the method did.
NothingReadableLeft ==
    Answered /\ (secret # "none" \/ did # NoResults) => copies = {}

=============================================================================
