---------------------------- MODULE BindContract ----------------------------
(***************************************************************************)
(* What the generator (internal/codegen) and the bridge (pkg/bridge) make  *)
(* of a bound method: which signatures are accepted, how a result travels  *)
(* as JSON, and how the generated Dart code reads it back.                 *)
(*                                                                         *)
(* A type stands for all types treated like it, a value for its class:     *)
(* "nil", "zero", or "some"; "huge" is an integer beyond 63 bits, "nan" no *)
(* number, "blank" an error without a message.                             *)
(***************************************************************************)
EXTENDS Naturals, Sequences, SequencesExt, FiniteSets

\* uint8s is []uint8, which go/types does not name byte; struct has json tags on all
\* fields, untagged has none; errno implements error without being a pointer or an
\* interface; marshaler has a MarshalJSON that may panic, time one that gives a string.
Basics == {"string", "int", "uint64", "float", "bool", "errno"}
Structs == {"struct", "pointer", "untagged", "time", "marshaler"}
Types == Basics \cup Structs \cup
         {"bytes", "uint8s", "slice", "strmap", "intmap", "any", "chan",
          "error", "emitter", "secret"}

Values == {"nil", "zero", "some", "huge", "nan", "blank", "panics"}
ValuesOf(t) ==
    CASE t = "uint64" -> {"some", "huge"}
      [] t = "float" -> {"some", "nan"}
      [] t = "error" -> {"nil", "blank", "some"}
      [] t = "marshaler" -> {"some", "panics"}
      [] t \in {"pointer", "bytes", "uint8s", "slice", "strmap", "intmap", "any"} -> {"nil", "some"}
      [] OTHER -> {"zero", "some"}

\* A signature: the types of the parameters after the receiver, and of the results.
IsSecretParam(t) == t = "secret"
IsSecure(m) == Len(m.params) = 1 /\ IsSecretParam(m.params[1])
IsStream(m) == Contains(m.results, "emitter")

\* Where the results are that are no error; the code counts them.
NonErrors(m) == {i \in DOMAIN m.results : m.results[i] # "error"}

ValidSecret(m) == IsSecure(m) \/ \A i \in DOMAIN m.params : ~IsSecretParam(m.params[i])
ValidStream(m) == IsStream(m) => Cardinality(NonErrors(m)) = 1 /\ ~IsSecure(m)

ValidReturn(m) == ~IsStream(m) => Cardinality(NonErrors(m)) <= 1

\* flugo generate writes code for m.
Accepts(m) == ValidSecret(m) /\ ValidStream(m) /\ ValidReturn(m)

(***************************************************************************)
(* goTypeFromTypesType: the kind the generated Dart code goes by.          *)
(***************************************************************************)
Kind(t) ==
    CASE t \in {"string", "bool"} -> t
      [] t \in {"int", "uint64", "float", "errno"} -> "number"
      [] t \in Structs \cup {"secret"} -> "struct"
      [] t \in {"uint8s", "slice"} -> "slice"
      [] t \in {"strmap", "intmap"} -> "map"
      [] t \in {"bytes", "error"} -> t
      [] t = "emitter" -> "stream"
      [] OTHER -> "dynamic"

\* The value the wrapper returns is typed by the last result that is no error.
ResultKind(m) == IF NonErrors(m) = {} THEN "void" ELSE Kind(m.results[Max(NonErrors(m))])

(***************************************************************************)
(* encoding/json.                                                          *)
(***************************************************************************)
JSON(form, val) == [form |-> form, val |-> val]

Form(t) ==
    CASE t \in {"string", "bytes", "uint8s", "time"} -> "string"
      [] t \in {"int", "uint64", "float", "errno"} -> "number"
      [] t = "bool" -> "bool"
      [] t = "slice" -> "list"
      [] OTHER -> "object"

\* Without a tag the key is the Go name, and the Dart code looks for another one.
Marshal(t, v) ==
    IF v = "nil" THEN JSON("null", "nil")
    ELSE IF v = "panics" THEN JSON("panics", v)
    ELSE IF t = "chan" \/ v = "nan" THEN JSON("fails", v)
    ELSE IF t = "untagged" THEN JSON("object", "renamed")
    ELSE JSON(Form(t), v)

(***************************************************************************)
(* encodeResults and isErrorType: a response carries an error or a result. *)
(***************************************************************************)
Ok(json) == [error |-> "none", result |-> json]
Failed(msg) == [error |-> msg, result |-> JSON("null", "nil")]
Abort == Failed("abort")

IsErrorType(t) == t \in {"error", "errno"}

SuccessResponse(json) ==
    CASE json.form = "fails" -> Failed("some")
      [] json.form = "panics" -> Abort
      [] OTHER -> Ok(json)

\* reflect's IsNil panics on a type that cannot be nil, and nobody recovers.
ErrorOr(t, v, otherwise) ==
    IF ~IsErrorType(t) THEN otherwise
    ELSE IF t = "errno" THEN Abort
    ELSE IF v = "nil" THEN otherwise
    ELSE Failed(v)

Packed(m, vals) ==
    LET forms == {Marshal(m.results[i], vals[i]).form : i \in DOMAIN vals} IN
    SuccessResponse(IF "panics" \in forms THEN JSON("panics", "some")
                    ELSE IF "fails" \in forms THEN JSON("fails", "some")
                    ELSE JSON("list", "packed"))

\* Mutant: with two results the error is looked for in the first place.
EncodeResultsFirst(m, vals) ==
    CASE Len(vals) = 0 -> Ok(JSON("null", "nil"))
      [] Len(vals) = 1 -> ErrorOr(m.results[1], vals[1], SuccessResponse(Marshal(m.results[1], vals[1])))
      [] Len(vals) = 2 -> ErrorOr(m.results[1], vals[1], SuccessResponse(Marshal(m.results[2], vals[2])))
      [] OTHER -> Packed(m, vals)

EncodeResults(m, vals) ==
    CASE Len(vals) = 0 -> Ok(JSON("null", "nil"))
      [] Len(vals) = 1 -> ErrorOr(m.results[1], vals[1], SuccessResponse(Marshal(m.results[1], vals[1])))
      [] Len(vals) = 2 -> ErrorOr(m.results[2], vals[2], SuccessResponse(Marshal(m.results[1], vals[1])))
      [] OTHER -> Packed(m, vals)

(***************************************************************************)
(* decodeResponse and dartFromJSON.                                        *)
(***************************************************************************)
Wanted(kind) ==
    CASE kind \in {"string", "bool", "number"} -> kind
      [] kind = "bytes" -> "string"
      [] kind = "slice" -> "list"
      [] kind \in {"struct", "map"} -> "object"

\* null is the zero value of everything but a struct; what has another form than the
\* cast expects throws a TypeError; toInt clamps; a key that is not there is null.
FromJSON(kind, json) ==
    IF kind \in {"dynamic", "stream"} THEN json.val
    ELSE IF json.form = "null" /\ kind # "struct" THEN "zero"
    ELSE IF json.form # Wanted(kind) THEN "throws"
    ELSE IF json.val = "huge" THEN "clamped"
    ELSE IF json.val = "renamed" THEN "zero"
    ELSE json.val

\* An error without a message reads as no error.
DecodeResponse(m, response) ==
    IF response.error \notin {"none", "blank"} THEN "exception"
    ELSE IF ResultKind(m) = "void" THEN "void"
    ELSE FromJSON(ResultKind(m), response.result)

(***************************************************************************)
(* dartToJSON and json.Unmarshal, for a parameter.                         *)
(***************************************************************************)

\* jsonEncode throws on keys that are no strings, and on a Stream.
Encodable(t) == t \notin {"intmap", "emitter"}

\* time has no fields in Dart and wants a string in Go.
Decodable(t) == t \notin {"time", "chan", "error"}
=============================================================================
