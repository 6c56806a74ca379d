--------------------------- MODULE Correspondence ---------------------------
(***************************************************************************)
(* What a pass makes of the terms Types compares: aliases, which types     *)
(* mention a type parameter, and correspond, which pairs the type          *)
(* parameters of two types one to one (src/paircheck/correspondence.go).   *)
(* All of it goes down the terms, so it is kept apart from the modules the *)
(* theorems are of.                                                        *)
(***************************************************************************)
EXTENDS Types

Slice(type) == Term("slice", "", <<type>>)
MapOf(key, element) == Term("map", "", <<key, element>>)
Parameter(name) == Term("parameter", name, <<>>)
Alias(name, actual) == Term("alias", name, <<actual>>)

----------------------------------------------------------------------------
(* go/types.                                                               *)

RECURSIVE Unalias(_)
Unalias(type) == IF type.con = "alias" THEN Unalias(type.parts[1]) ELSE type

\* The type with no alias at any depth: types.Identical looks through them.
RECURSIVE Plain(_)
Plain(type) ==
    LET actual == Unalias(type)
    IN  Term(actual.con, actual.of, [i \in DOMAIN actual.parts |-> Plain(actual.parts[i])])

----------------------------------------------------------------------------
(* decompose and mentionsTypeParameter.                                    *)

Composite == {"pointer", "slice", "map", "named", "signature"}

Shape(type) == IF type.con \in Composite THEN <<type.con, type.of>> ELSE <<>>

Parts(type) == IF type.con \in Composite THEN type.parts ELSE <<>>

RECURSIVE mentionsTypeParameter(_)
mentionsTypeParameter(type) ==
    LET actual == Unalias(type)
    IN  \/ actual.con = "parameter"
        \/ \E i \in DOMAIN Parts(actual) : mentionsTypeParameter(Parts(actual)[i])

----------------------------------------------------------------------------
(* correspond: a correspondence is the set of pairs <<first, second>> its  *)
(* forward and backward maps hold, each the inverse of the other.  The     *)
(* result of unify is whether it succeeds and the pairs it leaves.         *)

Agreed(paired) == [agrees |-> TRUE, paired |-> paired]
Refused(paired) == [agrees |-> FALSE, paired |-> paired]

\* A mutant of pair: it keeps no backward map.
pairForward(paired, first, second) ==
    IF \E known \in paired : known[1] = first /\ known[2] # second
    THEN Refused(paired)
    ELSE Agreed(paired \union {<<first, second>>})

pair(paired, first, second) ==
    CASE \E known \in paired : known[1] = first ->
            IF <<first, second>> \in paired THEN Agreed(paired) ELSE Refused(paired)
      [] /\ \A known \in paired : known[1] # first
         /\ \E known \in paired : known[2] = second -> Refused(paired)
      [] OTHER -> Agreed(paired \union {<<first, second>>})

RECURSIVE unify(_, _, _), unifyActual(_, _, _), unifyParts(_, _, _)

unify(paired, first, second) == unifyActual(paired, Unalias(first), Unalias(second))

unifyActual(paired, first, second) ==
    CASE first.con = "parameter" ->
            IF second.con = "parameter" THEN pair(paired, first, second) ELSE Refused(paired)
      [] first.con \notin Composite \union {"parameter"} ->
            IF Plain(first) = Plain(second) THEN Agreed(paired) ELSE Refused(paired)
      [] OTHER ->
            IF /\ Shape(first) = Shape(second)
               /\ Len(Parts(first)) = Len(Parts(second))
            THEN unifyParts(paired, Parts(first), Parts(second))
            ELSE Refused(paired)

unifyParts(paired, firsts, seconds) ==
    IF firsts = <<>> THEN Agreed(paired)
    ELSE LET met == unify(paired, Head(firsts), Head(seconds))
         IN  IF met.agrees THEN unifyParts(met.paired, Tail(firsts), Tail(seconds)) ELSE met

correspond(first, second) == unify({}, first, second).agrees

----------------------------------------------------------------------------
(* What correspond stands for: the one type is the other with its type     *)
(* parameters renamed, no two to the same.                                 *)

RECURSIVE Parameters(_)
Parameters(type) ==
    IF type.con = "parameter" THEN {type}
    ELSE UNION {Parameters(type.parts[i]) : i \in DOMAIN type.parts}

RECURSIVE Rename(_, _)
Rename(type, renaming) ==
    IF type.con = "parameter" THEN renaming[type]
    ELSE [type EXCEPT !.parts = [i \in DOMAIN type.parts |-> Rename(type.parts[i], renaming)]]

Renamings(first, second) ==
    {renaming \in [Parameters(first) -> Parameters(second)] :
        \A one, other \in Parameters(first) :
            renaming[one] = renaming[other] => one = other}

SameUpToNames(first, second) ==
    \E renaming \in Renamings(Plain(first), Plain(second)) :
        Rename(Plain(first), renaming) = Plain(second)

=============================================================================
