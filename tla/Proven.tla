-------------------------------- MODULE Proven --------------------------------
(***************************************************************************)
(* proven (src/paircheck/success.go): the set of the errors a search knows  *)
(* to have happened, kept as a string of bytes, one bit for each error.     *)
(*                                                                          *)
(* The memo of the search is keyed by a state, of which the closures        *)
(* deferred are such a string, and holds the failures known, another        *)
(* (flow.go, explore).  A set that had two spellings would be two keys, and *)
(* one that ended in a zero byte included by none that is shorter: either   *)
(* way a point would be searched again.  The other modules have sets where  *)
(* the code has these strings; here is why they may.                        *)
(*                                                                          *)
(* A byte is the set of its bits, and a string the sequence of its bytes.   *)
(***************************************************************************)
EXTENDS Naturals, Sequences

Bits == 0..7

Byte == SUBSET Bits

\* The byte of an index, counted from one, and its bit.
byteOf(index) == index \div 8 + 1

bitOf(index) == index % 8

---------------------------------------------------------------------------
has(p, index) == byteOf(index) <= Len(p) /\ bitOf(index) \in p[byteOf(index)]

\* The longer of two lengths, as the loop that appends zero bytes reaches it.
longer(m, n) == IF m < n THEN n ELSE m

shorter(m, n) == IF m < n THEN m ELSE n

with(p, index) ==
    [n \in 1..longer(Len(p), byteOf(index)) |->
       (IF n <= Len(p) THEN p[n] ELSE {})
         \union (IF n = byteOf(index) THEN {bitOf(index)} ELSE {})]

includes(p, other) ==
    Len(other) <= Len(p) /\ \A n \in 1..Len(other) : other[n] \subseteq p[n]

\* p without the zero bytes it ends in (strings.TrimRight).
IsTrimmedAt(p, n) ==
    /\ n = 0 \/ p[n] # {}
    /\ \A m \in (n + 1)..Len(p) : p[m] = {}

trimRight(p) == SubSeq(p, 1, CHOOSE n \in 0..Len(p) : IsTrimmedAt(p, n))

common(p, other) ==
    trimRight([n \in 1..shorter(Len(p), Len(other)) |-> p[n] \intersect other[n]])

without(p, index) ==
    IF ~has(p, index) THEN p
    ELSE trimRight([p EXCEPT ![byteOf(index)] = @ \ {bitOf(index)}])

\* What the search has: it starts from "", and no string ends in a zero byte.
Spelled == {p \in Seq(Byte) : p = << >> \/ p[Len(p)] # {}}

\* The set a string stands for.
held(p) == {index \in Nat : has(p, index)}
=============================================================================
