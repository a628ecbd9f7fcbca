------------------------------- MODULE Values -------------------------------
(***************************************************************************)
(* Inputs, outputs and errors as handlers see them: the `any` values of       *)
(* protocol/types.go, the errors of internal/errors, and the accessors of      *)
(* service/helpers.go.                                                        *)
(*                                                                           *)
(* A value is tagged with its kind, as an `any` of the code is: text, a      *)
(* number, a flag, a list, or an object (a function of member or key names).  *)
(***************************************************************************)
EXTENDS Integers, FiniteSets, SequencesExt

\* ------------------------------- values ---------------------------------

Str(s) == [text |-> s]
Int64(i) == [number |-> i]
Bool(b) == [flag |-> b]
Items(s) == [items |-> s]
Obj(f) == [object |-> f]

Is(kind, value) == kind \in DOMAIN value

\* Numbers written and read as decimal text; those the instances use are small.
Digits == 0..24
Numerals == {<<ToString(i), i>> : i \in Digits}
FromText(raw) == {numeral[2] : numeral \in {n \in Numerals : n[1] = raw}}

FormatPrimitive(value) ==
  CASE Is("text", value) -> value.text
    [] Is("number", value) -> ToString(value.number)
    [] Is("flag", value) -> IF value.flag THEN "true" ELSE "false"

\* ------------------------------- errors ---------------------------------

New(code) == [code |-> code, status |-> 400, fault |-> "Sender"]

InternalError == [code |-> "InternalError", status |-> 500, fault |-> "Receiver"]

Failure(error) == [error |-> error]
Success(output) == [output |-> output]

\* ------------------------ what a handler reads --------------------------

stringValue(input, name) ==
  IF name \notin DOMAIN input.object THEN ""
  ELSE FormatPrimitive(input.object[name])

\* A set: empty when the value is no integer.
int64Value(input, name, fallback) ==
  IF name \notin DOMAIN input.object THEN {fallback}
  ELSE CASE Is("number", input.object[name]) -> {input.object[name].number}
         [] Is("text", input.object[name]) -> FromText(input.object[name].text)
         [] OTHER -> {}

stringMapValue(input, name) ==
  IF name \notin DOMAIN input.object THEN <<>>
  ELSE LET entries == input.object[name].object
       IN  [key \in DOMAIN entries |-> FormatPrimitive(entries[key])]
=============================================================================
