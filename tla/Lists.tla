---- MODULE Lists ----
(***************************************************************************)
(* The lists the driver and the passes go through.                         *)
(***************************************************************************)
EXTENDS Naturals, Sequences, SequencesExt, FiniteSets

\* The elements of a list that are in a set, in their order: those of its first
\* n, and of them all.
onlyAmong(list, set) ==
    LET among[n \in 0 .. Len(list)] ==
            IF n = 0 THEN <<>>
            ELSE IF list[n] \in set THEN Append(among[n - 1], list[n]) ELSE among[n - 1]
    IN  among
only(list, set) == onlyAmong(list, set)[Len(list)]

\* What is in the sets of a list, each once, set after set: what is in its first
\* n, and in them all.
onceAmong(sets) ==
    LET among[n \in 0 .. Len(sets)] ==
            IF n = 0 THEN <<>>
            ELSE among[n - 1] \o SetToSeq(sets[n] \ Range(among[n - 1]))
    IN  among
once(sets) == onceAmong(sets)[Len(sets)]
====
