------------------------------- MODULE Types -------------------------------
(***************************************************************************)
(* The types a rule's slots carry, and when two of them are "the same"     *)
(* (links, sameType and dereference of src/paircheck/bind.go).             *)
(*                                                                         *)
(* A type is a term [con, of, parts]: its construction, what two of them   *)
(* must share beside their parts (the declaration of a named type, the     *)
(* number of parameters of a signature, the length of an array), and the   *)
(* types it is built from.  The type parameters of two functions are       *)
(* different types.                                                        *)
(*                                                                         *)
(* What goes down a term is a parameter here: Correspondence says what the *)
(* code and go/types make of it.                                           *)
(***************************************************************************)
EXTENDS Integers, Sequences, FiniteSets

CONSTANTS
    unaliased(_),       \* types.Unalias
    plain(_),           \* the type with no alias at any depth
    generic(_),         \* mentionsTypeParameter
    corresponds(_, _)   \* correspond

Term(con, of, parts) == [con |-> con, of |-> of, parts |-> parts]
Named(name, arguments) == Term("named", name, arguments)
Pointer(type) == Term("pointer", "", <<type>>)
\* A function type; count is the number of its parameters, as text.
Signature(count, types) == Term("signature", count, types)

errorType == Named("error", <<>>)
contextType == Named("context.Context", <<>>)

\* types.Identical looks through aliases.
Identical(first, second) == plain(first) = plain(second)

pointed(actual) == IF actual.con = "pointer" THEN unaliased(actual.parts[1]) ELSE actual

dereference(type) == pointed(unaliased(type))

isFunction(type) == unaliased(type).con = "signature"

isContext(type) == unaliased(type) = contextType

\* One level of pointer aside, and a generic type by its declaration.
sameActual(first, second) ==
    IF first.con = "named" /\ second.con = "named"
    THEN first.of = second.of
    ELSE Identical(first, second)

sameType(first, second) == sameActual(dereference(first), dereference(second))

=============================================================================
