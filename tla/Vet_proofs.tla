---- MODULE Vet_proofs ----
(***************************************************************************)
(* Whatever go vet keeps of the runs before, a run that ends shows every   *)
(* error and every finding, and shows what the command prints.  In five    *)
(* parts: what only takes of a list; what the filters keep, which is what  *)
(* survives each of them; what the tool reports of it, and what the        *)
(* command reads; the filters with every file read, and with the rules     *)
(* used alone; and the runs of go vet.  Their invariant has two halves:    *)
(* what a key of the cache says of the code it was kept for, and what this *)
(* run did with the packages it is done with.                              *)
(***************************************************************************)
EXTENDS Vet, FiniteSetTheorems, WellFoundedInduction, TLAPS

---------------------------------------------------------------------------
(* Lists, and the elements of one that are in a set.                       *)

\* What holds of 0, and of the next number where it holds of one, holds of all.
LEMMA SetInduction ==
    ASSUME NEW S, 0 \in S, \A n \in Nat : n \in S => n + 1 \in S
    PROVE  Nat \subseteq S
  <1> DEFINE R == OpToRel(<, Nat)
             T == Nat \ S
  <1> SUFFICES ASSUME T # {} PROVE FALSE
    OBVIOUS
  <1>1. \A m, n \in Nat : m < n => <<m, n>> \in R
    BY DEF OpToRel
  <1>2. IsWellFoundedOn(R, Nat)
    BY NatLessThanWellFounded
  <1> HIDE DEF R
  <1>3. PICK n \in T : \A m \in T : <<m, n>> \notin R
    BY <1>2, WFMin
  <1>4. n # 0 /\ n \in Nat
    OBVIOUS
  <1>5. n - 1 \in Nat /\ n - 1 < n /\ (n - 1) + 1 = n
    BY <1>4
  <1>6. n - 1 \in T
    BY <1>4, <1>5
  <1> QED
    BY <1>1, <1>3, <1>4, <1>5, <1>6

\* The steps r of a function from a base, as far as m.
Leads(r, m, S, base, step) ==
    /\ r \in [0..m -> S] /\ r[0] = base
    /\ \A n \in 1..m : r[n] = step[<<n, r[n - 1]>>]

\* Steps taken one after the other lead somewhere, any number of them.
LEMMA StepsLead ==
    ASSUME NEW S, NEW base \in S, NEW step \in [Nat \X S -> S]
    PROVE  \A m \in Nat : \E r : Leads(r, m, S, base, step)
  <1> DEFINE T == {m \in Nat : \E r : Leads(r, m, S, base, step)}
  <1>1. 0 \in T
    <2> DEFINE r == [n \in 0..0 |-> base]
    <2>1. Leads(r, 0, S, base, step)
      BY DEF Leads
    <2> QED
      BY <2>1
  <1>2. ASSUME NEW m \in Nat, m \in T
        PROVE  m + 1 \in T
    <2>1. PICK before : Leads(before, m, S, base, step)
      BY <1>2
    <2> DEFINE last == step[<<m + 1, before[m]>>]
               r == [n \in 0..(m + 1) |-> IF n = m + 1 THEN last ELSE before[n]]
    <2>2. before[m] \in S /\ <<m + 1, before[m]>> \in Nat \X S /\ last \in S
      BY <2>1 DEF Leads
    <2> HIDE DEF last
    <2>3. r \in [0..(m + 1) -> S] /\ r[0] = base
      BY <2>1, <2>2 DEF Leads
    <2>4. ASSUME NEW n \in 1..(m + 1)
          PROVE  r[n] = step[<<n, r[n - 1]>>]
      <3>1. CASE n = m + 1
        <4>1. r[n] = last /\ r[n - 1] = before[m]
          BY <3>1
        <4> QED
          BY <3>1, <4>1 DEF last
      <3>2. CASE n # m + 1
        <4>1. n \in 1..m /\ r[n] = before[n] /\ r[n - 1] = before[n - 1]
          BY <3>2
        <4> QED
          BY <2>1, <4>1 DEF Leads
      <3> QED
        BY <3>1, <3>2
    <2> HIDE DEF r
    <2>5. Leads(r, m + 1, S, base, step)
      BY <2>3, <2>4 DEF Leads
    <2> QED
      BY <2>5
  <1> HIDE DEF T
  <1>3. Nat \subseteq T
    BY <1>1, <1>2, SetInduction
  <1> QED
    BY <1>3 DEF T

\* What an element adds to those of a set before it.
taking(list, set, n, before) == IF list[n] \in set THEN Append(before, list[n]) ELSE before

\* onlyAmong takes the elements one after the other.
LEMMA OnlySteps ==
    ASSUME NEW X, NEW list \in Seq(X), NEW set
    PROVE  /\ onlyAmong(list, set) \in [0..Len(list) -> Seq(X)]
           /\ onlyAmong(list, set)[0] = <<>>
           /\ \A n \in 1..Len(list) :
                onlyAmong(list, set)[n] = taking(list, set, n, onlyAmong(list, set)[n - 1])
  <1> DEFINE m == Len(list)
             IsOnly(r) ==
               r = [n \in 0..m |-> IF n = 0 THEN <<>> ELSE taking(list, set, n, r[n - 1])]
             step == [a \in Nat \X Seq(X) |->
                        IF a[1] \in 1..m THEN taking(list, set, a[1], a[2]) ELSE a[2]]
  <1>1. m \in Nat /\ \A n \in 1..m : list[n] \in X
    OBVIOUS
  <1>2. \A r : IsOnly(r) <=>
          r = [n \in 0..m |-> IF n = 0 THEN <<>>
                              ELSE IF list[n] \in set THEN Append(r[n - 1], list[n]) ELSE r[n - 1]]
    BY DEF taking
  <1>3. onlyAmong(list, set) = CHOOSE r : IsOnly(r)
    BY DEF onlyAmong, taking
  <1> HIDE DEF m
  <1>4. <<>> \in Seq(X)
    OBVIOUS
  <1>5. step \in [Nat \X Seq(X) -> Seq(X)]
    <2>1. ASSUME NEW n \in 1..m, NEW s \in Seq(X) PROVE taking(list, set, n, s) \in Seq(X)
      BY <1>1 DEF taking
    <2> QED
      BY <2>1
  <1>6. \A n \in 1..m : \A s \in Seq(X) : step[<<n, s>>] = taking(list, set, n, s)
    <2>1. \A n \in 1..m : n \in Nat
      BY <1>1
    <2> QED
      BY <2>1
  <1> HIDE DEF step
  <1>7. \E q : Leads(q, m, Seq(X), <<>>, step)
    <2> DEFINE S == Seq(X)
               base == <<>>
    <2>1. base \in S /\ step \in [Nat \X S -> S]
      BY <1>4, <1>5
    <2> HIDE DEF S, base, IsOnly
    <2>2. \A k \in Nat : \E q : Leads(q, k, S, base, step)
      BY <2>1, StepsLead
    <2>3. \E q : Leads(q, m, S, base, step)
      BY <1>1, <2>2
    <2> QED
      BY <2>3 DEF S, base
  <1>8. PICK q \in [0..m -> Seq(X)] :
           q[0] = <<>> /\ \A n \in 1..m : q[n] = step[<<n, q[n - 1]>>]
    BY <1>7 DEF Leads
  <1>9. \A n \in 1..m : q[n] = taking(list, set, n, q[n - 1])
    <2>1. \A n \in 1..m : n - 1 \in 0..m
      BY <1>1
    <2> QED
      BY <1>6, <1>8, <2>1
  <1>10. IsOnly(q)
    <2>1. \A n \in 0..m : n # 0 => n \in 1..m
      BY <1>1
    <2> QED
      BY <1>8, <1>9, <2>1
  <1>11. IsOnly(onlyAmong(list, set))
    BY <1>3, <1>10
  <1> DEFINE r == onlyAmong(list, set)
  <1> HIDE DEF r
  <1>12. r = [n \in 0..m |-> IF n = 0 THEN <<>> ELSE taking(list, set, n, r[n - 1])]
    BY <1>11 DEF r
  <1>13. r[0] = <<>> /\ \A n \in 1..m : r[n] = taking(list, set, n, r[n - 1])
    <2>1. 0 \in 0..m /\ \A n \in 1..m : n \in 0..m /\ n # 0
      BY <1>1
    <2> QED
      BY <1>12, <2>1
  <1>14. \A n \in Nat : n <= m => r[n] \in Seq(X)
    <2> DEFINE T == {n \in Nat : n <= m => r[n] \in Seq(X)}
    <2>1. 0 \in T
      BY <1>4, <1>13
    <2>2. ASSUME NEW n \in Nat, n \in T PROVE n + 1 \in T
      <3> SUFFICES ASSUME n + 1 <= m PROVE r[n + 1] \in Seq(X)
        OBVIOUS
      <3>1. r[n] \in Seq(X) /\ n + 1 \in 1..m /\ (n + 1) - 1 = n /\ list[n + 1] \in X
        BY <1>1, <2>2
      <3>2. r[n + 1] = taking(list, set, n + 1, r[n])
        BY <1>13, <3>1
      <3> QED
        BY <3>1, <3>2 DEF taking
    <2> HIDE DEF T
    <2>3. Nat \subseteq T
      BY <2>1, <2>2, SetInduction
    <2> QED
      BY <2>3 DEF T
  <1>15. r \in [0..m -> Seq(X)]
    BY <1>1, <1>12, <1>14
  <1> QED
    BY <1>13, <1>15 DEF r, m

\* What onlyAmong takes of the first n elements depends on no other.
LEMMA OnlyAlike ==
    ASSUME NEW X, NEW list \in Seq(X), NEW other \in Seq(X), NEW set, NEW that,
           NEW m \in Nat, m <= Len(list), m <= Len(other),
           \A n \in 1..m : list[n] = other[n] /\ (list[n] \in set <=> list[n] \in that)
    PROVE  onlyAmong(list, set)[m] = onlyAmong(other, that)[m]
  <1> DEFINE r == onlyAmong(list, set)
             q == onlyAmong(other, that)
             T == {n \in Nat : n <= m => r[n] = q[n]}
  <1>1. /\ r[0] = <<>> /\ \A n \in 1..Len(list) : r[n] = taking(list, set, n, r[n - 1])
        /\ q[0] = <<>> /\ \A n \in 1..Len(other) : q[n] = taking(other, that, n, q[n - 1])
    BY OnlySteps
  <1> HIDE DEF r, q
  <1>2. 0 \in T
    BY <1>1
  <1>3. ASSUME NEW n \in Nat, n \in T PROVE n + 1 \in T
    <2> SUFFICES ASSUME n + 1 <= m PROVE r[n + 1] = q[n + 1]
      OBVIOUS
    <2>1. /\ r[n] = q[n] /\ (n + 1) - 1 = n /\ n + 1 \in 1..m
          /\ n + 1 \in 1..Len(list) /\ n + 1 \in 1..Len(other)
      BY <1>3
    <2>2. r[n + 1] = taking(list, set, n + 1, r[n]) /\ q[n + 1] = taking(other, that, n + 1, q[n])
      BY <1>1, <2>1
    <2> QED
      BY <2>1, <2>2 DEF taking
  <1> HIDE DEF T
  <1>4. Nat \subseteq T
    BY <1>2, <1>3, SetInduction
  <1> QED
    BY <1>4 DEF T, r, q

\* What an element more holds.
LEMMA RangeMore ==
    ASSUME NEW X, NEW s \in Seq(X), NEW e \in X
    PROVE  Range(Append(s, e)) = Range(s) \cup {e}
  <1>1. /\ Len(s) \in Nat /\ DOMAIN s = 1..Len(s) /\ DOMAIN Append(s, e) = 1..(Len(s) + 1)
        /\ \A n \in 1..Len(s) : Append(s, e)[n] = s[n]
        /\ Append(s, e)[Len(s) + 1] = e
    OBVIOUS
  <1>2. \A n \in 1..(Len(s) + 1) : n \in 1..Len(s) \/ n = Len(s) + 1
    BY <1>1
  <1>3. \A n \in 1..Len(s) : n \in 1..(Len(s) + 1)
    BY <1>1
  <1>4. Len(s) + 1 \in 1..(Len(s) + 1)
    BY <1>1
  <1> HIDE DEF Range
  <1>5. Range(Append(s, e)) \subseteq Range(s) \cup {e}
    BY <1>1, <1>2 DEF Range
  <1>6. Range(s) \subseteq Range(Append(s, e)) /\ e \in Range(Append(s, e))
    BY <1>1, <1>3, <1>4 DEF Range
  <1> QED
    BY <1>5, <1>6

\* It takes the elements of the set, of those it has met.
LEMMA OnlyHolds ==
    ASSUME NEW X, NEW list \in Seq(X), NEW set, NEW m \in 0..Len(list)
    PROVE  Range(onlyAmong(list, set)[m]) = {list[n] : n \in 1..m} \cap set
  <1> DEFINE r == onlyAmong(list, set)
             met(n) == {list[k] : k \in 1..n}
             T == {n \in Nat : n <= Len(list) => Range(r[n]) = met(n) \cap set}
  <1>1. /\ r \in [0..Len(list) -> Seq(X)]
        /\ r[0] = <<>> /\ \A n \in 1..Len(list) : r[n] = taking(list, set, n, r[n - 1])
    BY OnlySteps
  <1> HIDE DEF r
  <1>2. 0 \in T
    <2>1. Range(<<>>) = {}
      BY DEF Range
    <2>2. met(0) = {}
      OBVIOUS
    <2> HIDE DEF met
    <2> QED
      BY <1>1, <2>1, <2>2
  <1>3. ASSUME NEW n \in Nat, n \in T PROVE n + 1 \in T
    <2> SUFFICES ASSUME n + 1 <= Len(list) PROVE Range(r[n + 1]) = met(n + 1) \cap set
      OBVIOUS
    <2>1. /\ n \in 0..Len(list) /\ n + 1 \in 1..Len(list) /\ (n + 1) - 1 = n
          /\ list[n + 1] \in X
      OBVIOUS
    <2>2. Range(r[n]) = met(n) \cap set
      BY <1>3, <2>1
    <2>3. r[n + 1] = taking(list, set, n + 1, r[n]) /\ r[n] \in Seq(X)
      BY <1>1, <2>1
    <2>4. met(n + 1) = met(n) \cup {list[n + 1]}
      <3>1. 1..(n + 1) = 1..n \cup {n + 1}
        OBVIOUS
      <3> QED
        BY <3>1
    <2> HIDE DEF met
    <2>5. Range(Append(r[n], list[n + 1])) = Range(r[n]) \cup {list[n + 1]}
      BY <2>1, <2>3, RangeMore
    <2> QED
      BY <2>2, <2>3, <2>4, <2>5 DEF taking
  <1> HIDE DEF T
  <1>4. Nat \subseteq T
    BY <1>2, <1>3, SetInduction
  <1>5. m \in Nat /\ m <= Len(list)
    OBVIOUS
  <1> QED
    BY <1>4, <1>5 DEF T, r

LEMMA OnlyRange ==
    ASSUME NEW X, NEW list \in Seq(X), NEW set
    PROVE  only(list, set) \in Seq(X) /\ Range(only(list, set)) = Range(list) \cap set
  <1>1. Len(list) \in Nat /\ Len(list) \in 0..Len(list) /\ DOMAIN list = 1..Len(list)
    OBVIOUS
  <1>2. only(list, set) \in Seq(X)
    <2>1. onlyAmong(list, set) \in [0..Len(list) -> Seq(X)]
      BY OnlySteps
    <2> QED
      BY <1>1, <2>1 DEF only
  <1>3. Range(only(list, set)) = {list[n] : n \in 1..Len(list)} \cap set
    BY <1>1, OnlyHolds DEF only
  <1> QED
    BY <1>1, <1>2, <1>3 DEF Range

\* What it has taken it keeps.
LEMMA OnlyGrows ==
    ASSUME NEW X, NEW list \in Seq(X), NEW set, NEW n \in 0..Len(list), NEW m \in n..Len(list)
    PROVE  /\ Len(onlyAmong(list, set)[n]) <= Len(onlyAmong(list, set)[m])
           /\ \A k \in 1..Len(onlyAmong(list, set)[n]) :
                onlyAmong(list, set)[m][k] = onlyAmong(list, set)[n][k]
  <1> DEFINE r == onlyAmong(list, set)
             Grown(s, t) == Len(s) <= Len(t) /\ \A k \in 1..Len(s) : t[k] = s[k]
             T == {j \in Nat : j \in n..Len(list) => Grown(r[n], r[j])}
  <1>1. /\ r \in [0..Len(list) -> Seq(X)]
        /\ \A j \in 1..Len(list) : r[j] = taking(list, set, j, r[j - 1])
    BY OnlySteps
  <1> HIDE DEF r
  <1>2. n \in Nat /\ Len(list) \in Nat /\ r[n] \in Seq(X)
    BY <1>1
  <1>3. \A s \in Seq(X) : Grown(s, s)
    OBVIOUS
  <1>4. 0 \in T
    BY <1>2, <1>3
  <1>5. ASSUME NEW j \in Nat, j \in T PROVE j + 1 \in T
    <2> SUFFICES ASSUME j + 1 \in n..Len(list) PROVE Grown(r[n], r[j + 1])
      OBVIOUS
    <2>1. CASE j + 1 = n
      BY <1>2, <1>3, <2>1
    <2>2. CASE j + 1 # n
      <3>1. /\ j \in n..Len(list) /\ j \in 0..Len(list) /\ j + 1 \in 1..Len(list)
            /\ (j + 1) - 1 = j /\ list[j + 1] \in X
        BY <1>2, <2>2
      <3>2. Grown(r[n], r[j])
        BY <1>5, <3>1
      <3>3. r[j] \in Seq(X) /\ r[j + 1] = taking(list, set, j + 1, r[j])
        BY <1>1, <3>1
      <3> DEFINE s == r[n]
                 t == r[j]
                 e == list[j + 1]
      <3> HIDE DEF s, t, e
      <3>4. s \in Seq(X) /\ t \in Seq(X) /\ e \in X /\ Grown(s, t)
        BY <1>2, <3>1, <3>2, <3>3 DEF s, t, e
      <3>5. Grown(s, Append(t, e))
        <4>1. Len(s) \in Nat /\ Len(t) \in Nat /\ Len(Append(t, e)) = Len(t) + 1
          BY <3>4
        <4>2. \A k \in 1..Len(s) : k \in 1..Len(t) /\ Append(t, e)[k] = t[k]
          BY <3>4, <4>1
        <4> QED
          BY <3>4, <4>1, <4>2
      <3> HIDE DEF Grown
      <3> QED
        BY <3>2, <3>3, <3>5 DEF taking, s, t, e
    <2> QED
      BY <2>1, <2>2
  <1> HIDE DEF T
  <1>6. Nat \subseteq T
    BY <1>4, <1>5, SetInduction
  <1>7. m \in Nat
    BY <1>2
  <1> QED
    BY <1>6, <1>7 DEF T, r

\* What a list keeps of a set begins with what its first elements keep.
LEMMA OnlyBegins ==
    ASSUME NEW X, NEW list \in Seq(X), NEW set, NEW n \in 0..Len(list)
    PROVE  /\ Len(onlyAmong(list, set)[n]) <= Len(only(list, set))
           /\ \A k \in 1..Len(onlyAmong(list, set)[n]) :
                only(list, set)[k] = onlyAmong(list, set)[n][k]
  <1>1. Len(list) \in n..Len(list)
    OBVIOUS
  <1> DEFINE last == Len(list)
             r == onlyAmong(list, set)
  <1>2. last \in n..Len(list) /\ only(list, set) = r[last]
    BY <1>1 DEF only
  <1> HIDE DEF last
  <1>3. \A k \in 1..Len(r[n]) : r[last][k] = r[n][k]
    BY <1>2, OnlyGrows
  <1>4. Len(r[n]) \in Nat /\ Len(r[last]) \in Nat
    <2>1. r \in [0..Len(list) -> Seq(X)]
      BY OnlySteps
    <2>2. last \in 0..Len(list)
      BY <1>2
    <2> HIDE DEF r
    <2> QED
      BY <2>1, <2>2
  <1>5. Len(r[n]) <= Len(r[last])
    BY <1>2, <1>4, OnlyGrows
  <1> HIDE DEF r
  <1> QED
    BY <1>2, <1>3, <1>5 DEF r

\* One element more, and what of it is taken.
LEMMA OnlyMore ==
    ASSUME NEW X, NEW s \in Seq(X), NEW e \in X, NEW set
    PROVE  only(Append(s, e), set) = IF e \in set THEN Append(only(s, set), e) ELSE only(s, set)
  <1> DEFINE t == Append(s, e)
             m == Len(s)
  <1>1. /\ t \in Seq(X) /\ m \in Nat /\ Len(t) = m + 1 /\ t[m + 1] = e
        /\ \A n \in 1..m : t[n] = s[n]
    OBVIOUS
  <1> HIDE DEF t, m
  <1>2. m + 1 \in 1..Len(t) /\ (m + 1) - 1 = m /\ m <= Len(t) /\ m <= Len(s)
    BY <1>1 DEF m
  <1>3. onlyAmong(t, set)[m + 1] = taking(t, set, m + 1, onlyAmong(t, set)[m])
    <2>1. \A n \in 1..Len(t) : onlyAmong(t, set)[n] = taking(t, set, n, onlyAmong(t, set)[n - 1])
      BY <1>1, OnlySteps
    <2> QED
      BY <1>2, <2>1
  <1>4. onlyAmong(t, set)[m] = onlyAmong(s, set)[m]
    BY <1>1, <1>2, OnlyAlike
  <1> QED
    BY <1>1, <1>3, <1>4 DEF only, taking, t, m

\* Of those in one set, those in another.
LEMMA OnlyOfOnly ==
    ASSUME NEW X, NEW list \in Seq(X), NEW set, NEW that
    PROVE  only(only(list, set), that) = only(list, set \cap that)
  <1> DEFINE r == onlyAmong(list, set)
             q == onlyAmong(list, set \cap that)
             T == {n \in Nat : n <= Len(list) => only(r[n], that) = q[n]}
  <1>1. /\ r \in [0..Len(list) -> Seq(X)]
        /\ r[0] = <<>> /\ \A n \in 1..Len(list) : r[n] = taking(list, set, n, r[n - 1])
        /\ q[0] = <<>> /\ \A n \in 1..Len(list) : q[n] = taking(list, set \cap that, n, q[n - 1])
    BY OnlySteps
  <1>2. Len(list) \in Nat /\ only(list, set) = r[Len(list)]
        /\ only(list, set \cap that) = q[Len(list)]
    BY DEF only
  <1> HIDE DEF r, q
  <1>3. 0 \in T
    <2>1. only(<<>>, that) = <<>>
      <3>1. <<>> \in Seq(X) /\ Len(<<>>) = 0
        OBVIOUS
      <3>2. onlyAmong(<<>>, that)[0] = <<>>
        BY <3>1, OnlySteps
      <3> QED
        BY <3>1, <3>2 DEF only
    <2> QED
      BY <1>1, <2>1
  <1>4. ASSUME NEW n \in Nat, n \in T PROVE n + 1 \in T
    <2> SUFFICES ASSUME n + 1 <= Len(list) PROVE only(r[n + 1], that) = q[n + 1]
      OBVIOUS
    <2>1. /\ only(r[n], that) = q[n] /\ n \in 0..Len(list) /\ n + 1 \in 1..Len(list)
          /\ (n + 1) - 1 = n /\ list[n + 1] \in X
      BY <1>2, <1>4
    <2>2. /\ r[n] \in Seq(X) /\ r[n + 1] = taking(list, set, n + 1, r[n])
          /\ q[n + 1] = taking(list, set \cap that, n + 1, q[n])
      BY <1>1, <2>1
    <2> DEFINE s == r[n]
               e == list[n + 1]
    <2>3. s \in Seq(X) /\ e \in X
      BY <2>1, <2>2
    <2> HIDE DEF s, e
    <2>4. only(Append(s, e), that) = IF e \in that THEN Append(only(s, that), e) ELSE only(s, that)
      BY <2>3, OnlyMore
    <2> QED
      BY <2>1, <2>2, <2>4 DEF taking, s, e
  <1> HIDE DEF T
  <1>5. Nat \subseteq T
    BY <1>3, <1>4, SetInduction
  <1> QED
    BY <1>2, <1>5 DEF T

---------------------------------------------------------------------------
(* What the filters keep.                                                  *)

Located(s, f) == ~s.files[f.position.file].outside /\ ~excludes(s, f.position.file)
Unread(s, f) == s.files[f.position.file].unreadable
Silenced(s, f) ==
    \E silence \in silencesIn(s.files[f.position.file]) : covers(silence, f.position.line)
\* A finding passes generated.go, of the findings it is with.
Written(s, findings, f) ==
    \/ s.disabled \/ \E g \in findings : Located(s, g) /\ Unread(s, g)
    \/ ~s.files[f.position.file].generated
Survives(s, findings, f) ==
    Located(s, f) /\ Written(s, findings, f) /\ droppedBy(s, f) = 0 /\ ~Silenced(s, f)

\* Some of what was taken.
LEMMA OnlyWithin ==
    ASSUME NEW X, NEW list \in Seq(X), NEW set, set \subseteq Range(list),
           NEW that, that \subseteq set
    PROVE  /\ only(list, set) \in Seq(X) /\ Range(only(list, set)) = set
           /\ only(only(list, set), that) = only(list, that)
  <1>1. set \cap that = that /\ Range(list) \cap set = set
    OBVIOUS
  <1>2. only(list, set) \in Seq(X) /\ Range(only(list, set)) = Range(list) \cap set
    BY OnlyRange
  <1>3. only(only(list, set), that) = only(list, set \cap that)
    BY OnlyOfOnly
  <1> QED
    BY <1>1, <1>2, <1>3

\* The filters one after the other keep what survives them, in its order.
LEMMA KeptIsOnly ==
    ASSUME NEW X, NEW list \in Seq(X), NEW s
    PROVE  /\ kept(s, list) = only(list, {f \in Range(list) : Survives(s, Range(list), f)})
           /\ kept(s, list) \in Seq(X)
           /\ Range(kept(s, list)) = {f \in Range(list) : Survives(s, Range(list), f)}
           /\ Range(reachRules(s, list)) =
                {f \in Range(list) : Located(s, f) /\ Written(s, Range(list), f)}
  <1> DEFINE R == Range(list)
             A == {f \in R : Located(s, f)}
             B == {f \in A : Written(s, R, f)}
             C == {f \in B : droppedBy(s, f) = 0}
             D == {f \in C : ~Silenced(s, f)}
             Filtered(t, S) == t = only(list, S) /\ t \in Seq(X) /\ Range(t) = S
  <1>1. Filtered(located(s, list), A)
    BY OnlyWithin DEF located, Located
  <1>2. Filtered(reachRules(s, list), B)
    <2> DEFINE t == located(s, list)
    <2>1. t = only(list, A) /\ Range(t) = A
      BY <1>1
    <2> HIDE DEF t
    <2>2. CASE s.disabled \/ \E f \in A : Unread(s, f)
      <3>1. B = A
        BY <2>2 DEF Written
      <3>2. ungenerated(s, t) = t
        BY <2>1, <2>2 DEF ungenerated, Unread
      <3> QED
        BY <1>1, <3>1, <3>2 DEF reachRules, t
    <2>3. CASE ~(s.disabled \/ \E f \in A : Unread(s, f))
      <3>1. B = {f \in A : ~s.files[f.position.file].generated}
        BY <2>3 DEF Written
      <3>2. ungenerated(s, t) = only(t, B)
        BY <2>1, <2>3, <3>1 DEF ungenerated, Unread
      <3> HIDE DEF A, B
      <3>3. A \subseteq Range(list) /\ B \subseteq A
        BY DEF A, B
      <3>4. Filtered(only(t, B), B)
        BY <2>1, <3>3, OnlyWithin
      <3> QED
        BY <3>2, <3>4 DEF reachRules, t
    <2> QED
      BY <2>2, <2>3
  <1>3. Filtered(unmatched(s, reachRules(s, list)), C)
    <2> DEFINE t == reachRules(s, list)
    <2>1. t = only(list, B) /\ Range(t) = B
      BY <1>2
    <2>2. unmatched(s, t) = only(t, C)
      BY <2>1 DEF unmatched
    <2>3. B \subseteq Range(list) /\ C \subseteq B
      OBVIOUS
    <2> HIDE DEF t, A, B, C
    <2>4. Filtered(only(t, C), C)
      BY <2>1, <2>3, OnlyWithin
    <2> QED
      BY <2>2, <2>4 DEF t
  <1>4. Filtered(kept(s, list), D)
    <2> DEFINE t == unmatched(s, reachRules(s, list))
    <2>1. t = only(list, C) /\ Range(t) = C
      BY <1>3
    <2>2. kept(s, list) = only(t, D)
      BY <2>1 DEF kept, unsilenced, Silenced
    <2>3. C \subseteq Range(list) /\ D \subseteq C
      OBVIOUS
    <2> HIDE DEF t, A, B, C, D
    <2>4. Filtered(only(t, D), D)
      BY <2>1, <2>3, OnlyWithin
    <2> QED
      BY <2>2, <2>4
  <1>5. D = {f \in R : Survives(s, R, f)}
    BY DEF Survives
  <1> QED
    BY <1>2, <1>4, <1>5

\* A set of numbers that has one has a least.
LEMMA LeastIsOne ==
    ASSUME NEW S \in SUBSET Nat, S # {}
    PROVE  Min(S) \in S
  <1> DEFINE R == OpToRel(<, Nat)
  <1>1. \A m, n \in Nat : m < n => <<m, n>> \in R
    BY DEF OpToRel
  <1>2. IsWellFoundedOn(R, Nat)
    BY NatLessThanWellFounded
  <1> HIDE DEF R
  <1>3. PICK n \in S : \A m \in S : <<m, n>> \notin R
    BY <1>2, WFMin
  <1>4. ASSUME NEW m \in S PROVE n <= m
    <2>1. m \in Nat /\ n \in Nat /\ ~(m < n)
      BY <1>1, <1>3
    <2> QED
      BY <2>1
  <1> QED
    BY <1>4 DEF Min

\* A rule drops a finding if one matches it, and the rule it is said to be
\* dropped by is one that does.
LEMMA DroppedByOne ==
    ASSUME NEW s, s.rules \in Seq(Range(s.rules)), NEW f
    PROVE  /\ droppedBy(s, f) = 0 <=> \A i \in DOMAIN s.rules : ~ruleMatches(s, s.rules[i], f)
           /\ droppedBy(s, f) # 0 => /\ droppedBy(s, f) \in DOMAIN s.rules
                                     /\ ruleMatches(s, s.rules[droppedBy(s, f)], f)
  <1> DEFINE M == {i \in DOMAIN s.rules : ruleMatches(s, s.rules[i], f)}
  <1>1. DOMAIN s.rules \subseteq Nat \ {0}
    <2>1. DOMAIN s.rules = 1..Len(s.rules) /\ Len(s.rules) \in Nat
      OBVIOUS
    <2> QED
      BY <2>1
  <1>2. M \in SUBSET Nat
    BY <1>1
  <1>3. droppedBy(s, f) = IF M = {} THEN 0 ELSE Min(M)
    BY DEF droppedBy
  <1>4. M # {} => Min(M) \in M
    <2> HIDE DEF M
    <2> QED
      BY <1>2, LeastIsOne
  <1> QED
    BY <1>1, <1>3, <1>4

---------------------------------------------------------------------------
(* What the tool reports of the findings kept.                             *)

\* What a diagnostic adds to those aligned before it.
aligning(s, diagnostics, findings, n, before) ==
    IF /\ before.taken < Len(findings)
       /\ same(findings[before.taken + 1], finding(s, diagnostics[n]))
    THEN [taken |-> before.taken + 1,
          printed |-> Append(before.printed, printedOf(s, diagnostics[n]))]
    ELSE before

\* aligned takes the diagnostics one after the other.
LEMMA AlignedSteps ==
    ASSUME NEW X, NEW list \in Seq(X), NEW s, NEW findings
    PROVE  /\ aligned(s, list, findings)[0] = [taken |-> 0, printed |-> <<>>]
           /\ \A n \in 1..Len(list) : aligned(s, list, findings)[n] =
                aligning(s, list, findings, n, aligned(s, list, findings)[n - 1])
  <1> DEFINE m == Len(list)
             P == {printedOf(s, d) : d \in X}
             S == [taken : Nat, printed : Seq(P)]
             base == [taken |-> 0, printed |-> <<>>]
             IsAligned(r) == r = [n \in 0..m |-> IF n = 0 THEN base
                                    ELSE aligning(s, list, findings, n, r[n - 1])]
             step == [a \in Nat \X S |->
                        IF a[1] \in 1..m THEN aligning(s, list, findings, a[1], a[2]) ELSE a[2]]
  <1>1. m \in Nat /\ \A n \in 1..m : list[n] \in X
    OBVIOUS
  <1>2. aligned(s, list, findings) = CHOOSE r : IsAligned(r)
    BY DEF aligned, aligning
  <1> HIDE DEF m
  <1>3. base \in S
    OBVIOUS
  <1>4. ASSUME NEW n \in 1..m, NEW b \in S PROVE aligning(s, list, findings, n, b) \in S
    <2>1. printedOf(s, list[n]) \in P
      BY <1>1
    <2> HIDE DEF P
    <2>2. b.taken + 1 \in Nat /\ Append(b.printed, printedOf(s, list[n])) \in Seq(P)
      BY <2>1
    <2> QED
      BY <2>2 DEF aligning
  <1> HIDE DEF S
  <1>5. step \in [Nat \X S -> S]
    BY <1>4
  <1>6. \A n \in 1..m : \A b \in S : step[<<n, b>>] = aligning(s, list, findings, n, b)
    <2>1. \A n \in 1..m : n \in Nat
      BY <1>1
    <2> QED
      BY <2>1
  <1> HIDE DEF step, base, IsAligned
  <1>7. \E q : Leads(q, m, S, base, step)
    <2>1. \A k \in Nat : \E q : Leads(q, k, S, base, step)
      BY <1>3, <1>5, StepsLead
    <2> QED
      BY <1>1, <2>1
  <1>8. PICK q : Leads(q, m, S, base, step)
    BY <1>7
  <1>9. q \in [0..m -> S] /\ q[0] = base /\ \A n \in 1..m : q[n] = step[<<n, q[n - 1]>>]
    BY <1>8 DEF Leads
  <1>10. \A n \in 1..m : q[n] = aligning(s, list, findings, n, q[n - 1])
    <2>1. \A n \in 1..m : n - 1 \in 0..m
      BY <1>1
    <2> QED
      BY <1>6, <1>9, <2>1
  <1>11. IsAligned(q)
    <2>1. \A n \in 0..m : n # 0 => n \in 1..m
      BY <1>1
    <2> QED
      BY <1>9, <1>10, <2>1 DEF IsAligned
  <1> DEFINE r == aligned(s, list, findings)
  <1>12. IsAligned(r)
    BY <1>2, <1>11
  <1> HIDE DEF r
  <1>13. 0 \in 0..m /\ \A n \in 1..m : n \in 0..m /\ n # 0
    BY <1>1
  <1>14. r[0] = base /\ \A n \in 1..m : r[n] = aligning(s, list, findings, n, r[n - 1])
    BY <1>12, <1>13 DEF IsAligned
  <1> QED
    BY <1>14 DEF r, m, base

\* The position printed is the one the command places the diagnostic at.
LEMMA PrintedWherePlaced ==
    ASSUME NEW s, NEW d
    PROVE  printedOf(s, d) = [position |-> placed(s, d), message |-> d.message, fix |-> d.fix]
  BY DEF printedOf, printedAt, placed

\* The diagnostics of the findings a list takes are those printed, one for
\* each: what stands next in the findings kept is that of the next diagnostic
\* whose finding is one of them.
LEMMA AlignKeeps ==
    ASSUME NEW X, NEW list \in Seq(X), NEW s, NEW K
    PROVE  LET expected == only(list, {d \in Range(list) : finding(s, d) \in K})
               findings == only(foundIn(s, list), K)
           IN  align(s, list, findings) =
                 [i \in 1..Len(expected) |-> printedOf(s, expected[i])]
  <1> DEFINE F == foundIn(s, list)
             Y == {finding(s, d) : d \in X}
             E == {d \in Range(list) : finding(s, d) \in K}
             e == onlyAmong(list, E)
             k == onlyAmong(F, K)
             findings == only(F, K)
             a == aligned(s, list, findings)
             prints(t) == [i \in 1..Len(t) |-> printedOf(s, t[i])]
             T == {n \in Nat : n <= Len(list) => a[n] = [taken |-> Len(k[n]), printed |-> prints(e[n])]}
  <1>1. /\ F \in Seq(Y) /\ Len(F) = Len(list) /\ Len(list) \in Nat
        /\ \A n \in 1..Len(list) : /\ F[n] = finding(s, list[n]) /\ list[n] \in X
                                   /\ list[n] \in E <=> finding(s, list[n]) \in K
    <2>1. DOMAIN list = 1..Len(list) /\ Len(list) \in Nat /\ \A n \in 1..Len(list) : list[n] \in X
      OBVIOUS
    <2>2. F = [n \in 1..Len(list) |-> finding(s, list[n])]
      BY <2>1 DEF foundIn
    <2>3. \A n \in 1..Len(list) : finding(s, list[n]) \in Y
      BY <2>1
    <2> HIDE DEF Y, F
    <2>4. F \in Seq(Y) /\ Len(F) = Len(list)
      BY <2>1, <2>2, <2>3
    <2>5. \A n \in 1..Len(list) : list[n] \in Range(list)
      BY <2>1 DEF Range
    <2> QED
      BY <2>1, <2>2, <2>4, <2>5
  <1> HIDE DEF F, Y, E
  <1>2. /\ e \in [0..Len(list) -> Seq(X)] /\ e[0] = <<>>
        /\ \A n \in 1..Len(list) : e[n] = taking(list, E, n, e[n - 1])
    BY OnlySteps
  <1>3. /\ k \in [0..Len(list) -> Seq(Y)] /\ k[0] = <<>>
        /\ \A n \in 1..Len(list) : k[n] = taking(F, K, n, k[n - 1])
    <2>1. /\ k \in [0..Len(F) -> Seq(Y)] /\ k[0] = <<>>
          /\ \A n \in 1..Len(F) : k[n] = taking(F, K, n, k[n - 1])
      BY <1>1, OnlySteps
    <2> QED
      BY <1>1, <2>1
  <1>4. findings = k[Len(list)] /\ only(list, E) = e[Len(list)]
        /\ findings \in Seq(Y) /\ Range(findings) = Range(F) \cap K
    <2>1. findings \in Seq(Y) /\ Range(findings) = Range(F) \cap K
      BY <1>1, OnlyRange
    <2>2. findings = k[Len(list)] /\ only(list, E) = e[Len(list)]
      BY <1>1 DEF only
    <2> QED
      BY <2>1, <2>2
  <1>5. /\ a[0] = [taken |-> 0, printed |-> <<>>]
        /\ \A n \in 1..Len(list) : a[n] = aligning(s, list, findings, n, a[n - 1])
    BY AlignedSteps
  <1>6. ASSUME NEW n \in 1..Len(list)
        PROVE  Len(k[n]) <= Len(findings) /\ \A j \in 1..Len(k[n]) : findings[j] = k[n][j]
    <2>1. F \in Seq(Y) /\ n \in 0..Len(F)
      BY <1>1
    <2> QED
      BY <2>1, OnlyBegins
  <1> HIDE DEF e, k, findings, a
  <1>7. 0 \in T
    <2>1. Len(<<>>) = 0 /\ prints(<<>>) = <<>>
      OBVIOUS
    <2> HIDE DEF prints
    <2> QED
      BY <1>2, <1>3, <1>5, <2>1
  <1>8. ASSUME NEW n \in Nat, n \in T PROVE n + 1 \in T
    <2> SUFFICES ASSUME n + 1 <= Len(list)
                 PROVE  a[n + 1] = [taken |-> Len(k[n + 1]), printed |-> prints(e[n + 1])]
      OBVIOUS
    <2>1. /\ n \in 0..Len(list) /\ n + 1 \in 1..Len(list) /\ (n + 1) - 1 = n /\ n <= Len(list)
      BY <1>1
    <2> DEFINE d == list[n + 1]
               f == finding(s, d)
    <2>2. /\ a[n] = [taken |-> Len(k[n]), printed |-> prints(e[n])]
          /\ a[n + 1] = aligning(s, list, findings, n + 1, a[n])
          /\ e[n] \in Seq(X) /\ e[n + 1] = taking(list, E, n + 1, e[n])
          /\ k[n] \in Seq(Y) /\ k[n + 1] = taking(F, K, n + 1, k[n])
          /\ F[n + 1] = f /\ d \in X /\ (d \in E <=> f \in K)
      BY <1>1, <1>2, <1>3, <1>5, <1>8, <2>1
    <2>3. Len(k[n]) \in Nat /\ Len(findings) \in Nat
      BY <1>4, <2>2
    <2>4. CASE f \in K
      <3>1. k[n + 1] = Append(k[n], f) /\ e[n + 1] = Append(e[n], d)
        BY <2>2, <2>4 DEF taking
      <3>2. Len(Append(k[n], f)) = Len(k[n]) + 1 /\ Append(k[n], f)[Len(k[n]) + 1] = f
        BY <2>2
      <3>3. Len(k[n]) < Len(findings) /\ findings[Len(k[n]) + 1] = f
        <4> DEFINE t == k[n]
                   u == k[n + 1]
        <4>1. /\ Len(u) = Len(t) + 1 /\ u[Len(t) + 1] = f /\ Len(t) \in Nat
              /\ Len(u) <= Len(findings) /\ \A j \in 1..Len(u) : findings[j] = u[j]
          BY <1>6, <2>1, <2>3, <3>1, <3>2
        <4> HIDE DEF t, u, f
        <4>2. Len(t) + 1 \in 1..Len(u) /\ Len(t) < Len(findings)
          BY <2>3, <4>1
        <4> QED
          BY <4>1, <4>2 DEF t
      <3>4. prints(Append(e[n], d)) = Append(prints(e[n]), printedOf(s, d))
        <4> DEFINE t == e[n]
        <4>1. t \in Seq(X) /\ d \in X
          BY <2>2
        <4> HIDE DEF t, d
        <4>2. /\ Len(t) \in Nat /\ Len(Append(t, d)) = Len(t) + 1
              /\ \A i \in 1..Len(t) : Append(t, d)[i] = t[i]
              /\ Append(t, d)[Len(t) + 1] = d
          BY <4>1
        <4>3. \A i \in 1..(Len(t) + 1) : i \in 1..Len(t) \/ i = Len(t) + 1
          BY <4>2
        <4>4. Len(prints(t)) = Len(t)
          BY <4>2
        <4>5. Append(prints(t), printedOf(s, d)) =
                [i \in 1..(Len(t) + 1) |-> IF i = Len(t) + 1 THEN printedOf(s, d) ELSE prints(t)[i]]
          <5>1. prints(t) \in Seq({printedOf(s, x) : x \in {t[i] : i \in 1..Len(t)}})
            BY <4>2
          <5> QED
            BY <4>4, <5>1
        <4>6. \A i \in 1..(Len(t) + 1) :
                (IF i = Len(t) + 1 THEN printedOf(s, d) ELSE prints(t)[i])
                  = printedOf(s, Append(t, d)[i])
          BY <4>2, <4>3
        <4> QED
          BY <4>2, <4>5, <4>6 DEF t
      <3> HIDE DEF prints, d, f
      <3>5. aligning(s, list, findings, n + 1, a[n]) =
              [taken |-> Len(k[n]) + 1, printed |-> Append(prints(e[n]), printedOf(s, d))]
        BY <2>2, <3>3 DEF aligning, same, d, f
      <3> QED
        BY <2>2, <3>1, <3>2, <3>4, <3>5
    <2>5. CASE f \notin K
      <3>1. k[n + 1] = k[n] /\ e[n + 1] = e[n]
        BY <2>2, <2>5 DEF taking
      <3>2. Len(k[n]) < Len(findings) => findings[Len(k[n]) + 1] # f
        <4> SUFFICES ASSUME Len(k[n]) < Len(findings) PROVE findings[Len(k[n]) + 1] # f
          OBVIOUS
        <4>1. Len(k[n]) + 1 \in DOMAIN findings
          BY <1>4, <2>3
        <4>2. findings[Len(k[n]) + 1] \in Range(findings)
          BY <4>1 DEF Range
        <4> QED
          BY <1>4, <2>5, <4>2
      <3> HIDE DEF prints, d, f
      <3>3. aligning(s, list, findings, n + 1, a[n]) = a[n]
        BY <2>2, <3>2 DEF aligning, same, d, f
      <3> QED
        BY <2>2, <3>1, <3>3
    <2> QED
      BY <2>4, <2>5
  <1> HIDE DEF T
  <1>9. Nat \subseteq T
    BY <1>7, <1>8, SetInduction
  <1>10. a[Len(list)] = [taken |-> Len(k[Len(list)]), printed |-> prints(e[Len(list)])]
    <2>1. Len(list) \in T /\ Len(list) <= Len(list)
      BY <1>1, <1>9
    <2> HIDE DEF prints
    <2> QED
      BY <2>1 DEF T
  <1>11. align(s, list, findings) = prints(only(list, E))
    BY <1>4, <1>10 DEF align, a
  <1> QED
    BY <1>11 DEF E, findings, F

\* The findings of a list are those of its diagnostics.
LEMMA FoundOfEach ==
    ASSUME NEW X, NEW list \in Seq(X), NEW s
    PROVE  /\ foundIn(s, list) \in Seq({finding(s, d) : d \in X})
           /\ Range(foundIn(s, list)) = {finding(s, d) : d \in Range(list)}
  <1> DEFINE Y == {finding(s, d) : d \in X}
             F == foundIn(s, list)
  <1>1. DOMAIN list = 1..Len(list) /\ Len(list) \in Nat /\ \A n \in 1..Len(list) : list[n] \in X
    OBVIOUS
  <1>2. F = [n \in 1..Len(list) |-> finding(s, list[n])]
    BY <1>1 DEF foundIn
  <1>3. \A n \in 1..Len(list) : finding(s, list[n]) \in Y
    BY <1>1
  <1> HIDE DEF Y, F
  <1>4. F \in Seq(Y) /\ DOMAIN F = 1..Len(list)
    BY <1>1, <1>2, <1>3
  <1>5. Range(F) = {finding(s, d) : d \in Range(list)}
    BY <1>1, <1>2, <1>4 DEF Range
  <1> QED
    BY <1>4, <1>5 DEF Y, F

\* What the tool reports of a package, of the findings kept.
LEMMA RunReports ==
    ASSUME NEW X, NEW diagnostics \in Seq(X), NEW s, NEW tests
    PROVE  LET list == reported(s, tests, diagnostics)
               K == Range(kept(s, foundIn(s, list)))
               expected == only(list, {d \in Range(list) : finding(s, d) \in K})
           IN  /\ run(s, tests, diagnostics) =
                    [i \in DOMAIN expected |->
                       [position |-> placed(s, expected[i]), message |-> expected[i].message,
                        fix |-> expected[i].fix]]
               /\ {[position |-> d.position, message |-> d.message] :
                     d \in Range(run(s, tests, diagnostics))} = K
  <1> DEFINE list == reported(s, tests, diagnostics)
             F == foundIn(s, list)
             K == Range(kept(s, F))
             E == {d \in Range(list) : finding(s, d) \in K}
             expected == only(list, E)
             printed == run(s, tests, diagnostics)
  <1>1. list \in Seq(X)
    BY OnlyRange DEF reported
  <1>2. printed = align(s, list, kept(s, F))
    BY DEF run
  <1> HIDE DEF list, printed
  <1>3. /\ F \in Seq({finding(s, d) : d \in X})
        /\ Range(F) = {finding(s, d) : d \in Range(list)}
    <2> HIDE DEF K, E, expected
    <2>1. \A l \in Seq(X) : /\ foundIn(s, l) \in Seq({finding(s, d) : d \in X})
                            /\ Range(foundIn(s, l)) = {finding(s, d) : d \in Range(l)}
      BY FoundOfEach
    <2> QED
      BY <1>1, <2>1
  <1>4. kept(s, F) = only(F, K) /\ K \subseteq Range(F)
    <2> DEFINE Y == {finding(s, d) : d \in X}
    <2> HIDE DEF F, Y
    <2>1. F \in Seq(Y)
      BY <1>3 DEF Y
    <2> QED
      BY <2>1, KeptIsOnly
  <1>5. expected \in Seq(X) /\ Range(expected) = E
    <2>1. expected \in Seq(X) /\ Range(expected) = Range(list) \cap E
      BY <1>1, OnlyRange
    <2> QED
      BY <2>1
  <1>6. DOMAIN expected = 1..Len(expected) /\ Len(expected) \in Nat
    BY <1>5
  <1>7. align(s, list, only(F, K)) = [i \in 1..Len(expected) |-> printedOf(s, expected[i])]
    <2> HIDE DEF K
    <2> QED
      BY <1>1, AlignKeeps
  <1> HIDE DEF F, K, E, expected
  <1>8. printed = [i \in DOMAIN expected |-> printedOf(s, expected[i])]
    BY <1>2, <1>4, <1>6, <1>7
  <1>9. printed = [i \in DOMAIN expected |->
                     [position |-> placed(s, expected[i]), message |-> expected[i].message,
                      fix |-> expected[i].fix]]
    BY <1>8, PrintedWherePlaced
  <1>10. {[position |-> d.position, message |-> d.message] : d \in Range(printed)} = K
    <2>1. Range(printed) = {printedOf(s, d) : d \in Range(expected)}
      BY <1>8 DEF Range
    <2>2. \A d : [position |-> printedOf(s, d).position, message |-> printedOf(s, d).message]
                   = finding(s, d)
      BY PrintedWherePlaced DEF finding
    <2>3. {[position |-> d.position, message |-> d.message] : d \in Range(printed)}
            = {finding(s, d) : d \in Range(expected)}
      BY <2>1, <2>2
    <2>4. {finding(s, d) : d \in E} = K
      BY <1>3, <1>4 DEF E
    <2> QED
      BY <1>5, <2>3, <2>4
  <1> QED
    BY <1>9, <1>10 DEF printed, expected, E, K, F, list

---------------------------------------------------------------------------
(* What the command reads.                                                 *)

\* The findings of a list in a Go file.
LEMMA GoFound ==
    ASSUME NEW X, NEW list \in Seq(X), NEW s
    PROVE  /\ goFindings(s, list) \in Seq({finding(s, d) : d \in X})
           /\ Range(goFindings(s, list)) =
                {f \in {finding(s, d) : d \in Range(list)} : s.files[f.position.file].go}
  <1> DEFINE F == foundIn(s, list)
             Y == {finding(s, d) : d \in X}
             G == {f \in Range(F) : s.files[f.position.file].go}
  <1>1. goFindings(s, list) = only(F, G)
    BY DEF goFindings, foundIn
  <1>2. F \in Seq(Y) /\ Range(F) = {finding(s, d) : d \in Range(list)}
    <2> HIDE DEF G
    <2>1. \A l \in Seq(X) : /\ foundIn(s, l) \in Seq({finding(s, d) : d \in X})
                            /\ Range(foundIn(s, l)) = {finding(s, d) : d \in Range(l)}
      BY FoundOfEach
    <2> QED
      BY <2>1
  <1> HIDE DEF F, Y, G
  <1>3. only(F, G) \in Seq(Y) /\ Range(only(F, G)) = Range(F) \cap G
    BY <1>2, OnlyRange
  <1>4. Range(F) \cap G = {f \in {finding(s, d) : d \in Range(list)} : s.files[f.position.file].go}
    BY <1>2 DEF G
  <1> QED
    BY <1>1, <1>3, <1>4 DEF Y

\* What a finding more adds to those seen.
joining(more, n, before) ==
    IF more[n] \in Range(before) THEN before ELSE Append(before, more[n])

\* The findings together are those of each.
LEMMA TogetherHolds ==
    ASSUME NEW X, NEW seen0 \in Seq(X), NEW more \in Seq(X)
    PROVE  /\ together(seen0, more) \in Seq(X)
           /\ Range(together(seen0, more)) = Range(seen0) \cup Range(more)
  <1> DEFINE m == Len(more)
             S == Seq(X)
             IsTogether(r) ==
               r = [n \in 0..m |-> IF n = 0 THEN seen0 ELSE joining(more, n, r[n - 1])]
             step == [a \in Nat \X S |->
                        IF a[1] \in 1..m THEN joining(more, a[1], a[2]) ELSE a[2]]
  <1>1. m \in Nat /\ DOMAIN more = 1..m /\ \A n \in 1..m : more[n] \in X
    OBVIOUS
  <1> DEFINE r == CHOOSE r : IsTogether(r)
  <1>2. together(seen0, more) = r[m]
    BY DEF together, joining
  <1> HIDE DEF m
  <1>3. \A n \in 1..m : \A b \in S :
          joining(more, n, b) \in S /\ Range(joining(more, n, b)) = Range(b) \cup {more[n]}
    <2>1. ASSUME NEW n \in 1..m, NEW b \in Seq(X)
          PROVE  /\ joining(more, n, b) \in Seq(X)
                 /\ Range(joining(more, n, b)) = Range(b) \cup {more[n]}
      <3> DEFINE e == more[n]
      <3>1. e \in X
        BY <1>1
      <3> HIDE DEF e
      <3>2. Append(b, e) \in Seq(X) /\ Range(Append(b, e)) = Range(b) \cup {e}
        BY <3>1, RangeMore
      <3> QED
        BY <3>2 DEF joining, e
    <2> QED
      BY <2>1
  <1>4. seen0 \in S
    OBVIOUS
  <1> HIDE DEF S
  <1>5. step \in [Nat \X S -> S]
    BY <1>3
  <1>6. \A n \in 1..m : \A b \in S : step[<<n, b>>] = joining(more, n, b)
    <2>1. \A n \in 1..m : n \in Nat
      BY <1>1
    <2> QED
      BY <2>1
  <1> HIDE DEF step
  <1>7. PICK q : Leads(q, m, S, seen0, step)
    <2>1. \A k \in Nat : \E q : Leads(q, k, S, seen0, step)
      BY <1>4, <1>5, StepsLead
    <2> QED
      BY <1>1, <2>1
  <1>8. q \in [0..m -> S] /\ q[0] = seen0 /\ \A n \in 1..m : q[n] = step[<<n, q[n - 1]>>]
    BY <1>7 DEF Leads
  <1>9. \A n \in 1..m : q[n] = joining(more, n, q[n - 1]) /\ n - 1 \in 0..m
    <2>1. \A n \in 1..m : n - 1 \in 0..m
      BY <1>1
    <2>2. \A n \in 1..m : q[n - 1] \in S
      BY <1>8, <2>1
    <2> QED
      BY <1>6, <1>8, <2>1, <2>2
  <1>10. \A n \in 0..m : n # 0 => n \in 1..m
    BY <1>1
  <1>11. IsTogether(q)
    BY <1>8, <1>9, <1>10
  <1>12. IsTogether(r)
    BY <1>11
  <1> HIDE DEF r
  <1>13. 0 \in 0..m /\ \A n \in 1..m : n \in 0..m /\ n # 0 /\ n - 1 \in 0..m
    BY <1>1
  <1>14. r[0] = seen0 /\ \A n \in 1..m : r[n] = joining(more, n, r[n - 1])
    BY <1>12, <1>13
  <1> DEFINE T == {n \in Nat : n <= m =>
                     r[n] \in S /\ Range(r[n]) = Range(seen0) \cup {more[i] : i \in 1..n}}
  <1> HIDE DEF IsTogether
  <1>15. 0 \in T
    <2>1. {more[i] : i \in 1..0} = {}
      OBVIOUS
    <2> QED
      BY <1>4, <1>14, <2>1
  <1>16. ASSUME NEW n \in Nat, n \in T PROVE n + 1 \in T
    <2> DEFINE M(k) == {more[i] : i \in 1..k}
    <2> SUFFICES ASSUME n + 1 <= m
                 PROVE  r[n + 1] \in S /\ Range(r[n + 1]) = Range(seen0) \cup M(n + 1)
      OBVIOUS
    <2>1. n + 1 \in 1..m /\ (n + 1) - 1 = n /\ n <= m
      BY <1>1
    <2>2. M(n + 1) = M(n) \cup {more[n + 1]}
      <3>1. 1..(n + 1) = 1..n \cup {n + 1}
        OBVIOUS
      <3> QED
        BY <3>1
    <2>3. r[n] \in S /\ Range(r[n]) = Range(seen0) \cup M(n)
      BY <1>16, <2>1
    <2> HIDE DEF M
    <2>4. r[n + 1] = joining(more, n + 1, r[n])
      BY <1>14, <2>1
    <2> QED
      BY <1>3, <2>1, <2>2, <2>3, <2>4
  <1> HIDE DEF T
  <1>17. Nat \subseteq T
    BY <1>15, <1>16, SetInduction
  <1>18. r[m] \in S /\ Range(r[m]) = Range(seen0) \cup {more[i] : i \in 1..m}
    <2>1. m \in T /\ m <= m
      BY <1>1, <1>17
    <2> QED
      BY <2>1 DEF T
  <1>19. {more[i] : i \in 1..m} = Range(more)
    BY <1>1 DEF Range
  <1> QED
    BY <1>2, <1>18, <1>19 DEF S

\* What the findings of a list add to those of the lists before it.
placing(s, lists, n, before) == together(before, goFindings(s, lists[n]))

\* The findings placed are those of each list in a Go file.
LEMMA PlacedHolds ==
    ASSUME NEW X, NEW lists \in Seq(Seq(X)), NEW s
    PROVE  /\ placedFindings(s, lists) \in Seq({finding(s, d) : d \in X})
           /\ Range(placedFindings(s, lists)) =
                UNION {Range(goFindings(s, lists[i])) : i \in 1..Len(lists)}
  <1> DEFINE m == Len(lists)
             Y == {finding(s, d) : d \in X}
             S == Seq(Y)
             G(n) == Range(goFindings(s, lists[n]))
             IsPlaced(r) ==
               r = [n \in 0..m |-> IF n = 0 THEN <<>> ELSE placing(s, lists, n, r[n - 1])]
             step == [a \in Nat \X S |->
                        IF a[1] \in 1..m THEN placing(s, lists, a[1], a[2]) ELSE a[2]]
  <1>1. m \in Nat /\ \A n \in 1..m : lists[n] \in Seq(X)
    OBVIOUS
  <1> DEFINE r == CHOOSE r : IsPlaced(r)
  <1>2. placedFindings(s, lists) = r[m]
    BY DEF placedFindings, placing
  <1> HIDE DEF m
  <1>3. \A n \in 1..m : \A b \in S :
          placing(s, lists, n, b) \in S /\ Range(placing(s, lists, n, b)) = Range(b) \cup G(n)
    <2>1. ASSUME NEW n \in 1..m, NEW b \in Seq(Y)
          PROVE  /\ placing(s, lists, n, b) \in Seq(Y)
                 /\ Range(placing(s, lists, n, b)) = Range(b) \cup G(n)
      <3>1. goFindings(s, lists[n]) \in Seq(Y)
        <4>1. \A l \in Seq(X) : goFindings(s, l) \in Seq({finding(s, d) : d \in X})
          BY GoFound
        <4> QED
          BY <1>1, <4>1
      <3> HIDE DEF Y
      <3> QED
        BY <3>1, TogetherHolds DEF placing
    <2> QED
      BY <2>1
  <1>4. <<>> \in S
    OBVIOUS
  <1> HIDE DEF S, G
  <1>5. step \in [Nat \X S -> S]
    BY <1>3
  <1>6. \A n \in 1..m : \A b \in S : step[<<n, b>>] = placing(s, lists, n, b)
    <2>1. \A n \in 1..m : n \in Nat
      BY <1>1
    <2> QED
      BY <2>1
  <1> HIDE DEF step
  <1>7. PICK q : Leads(q, m, S, <<>>, step)
    <2> DEFINE base == <<>>
    <2>1. base \in S
      BY <1>4
    <2> HIDE DEF base
    <2>2. \A k \in Nat : \E q : Leads(q, k, S, base, step)
      BY <1>5, <2>1, StepsLead
    <2> QED
      BY <1>1, <2>2 DEF base
  <1>8. q \in [0..m -> S] /\ q[0] = <<>> /\ \A n \in 1..m : q[n] = step[<<n, q[n - 1]>>]
    BY <1>7 DEF Leads
  <1>9. \A n \in 1..m : q[n] = placing(s, lists, n, q[n - 1]) /\ n - 1 \in 0..m
    <2>1. \A n \in 1..m : n - 1 \in 0..m
      BY <1>1
    <2> QED
      BY <1>6, <1>8, <2>1
  <1>10. \A n \in 0..m : n # 0 => n \in 1..m
    BY <1>1
  <1>11. IsPlaced(q)
    BY <1>8, <1>9, <1>10
  <1>12. IsPlaced(r)
    BY <1>11
  <1> HIDE DEF r
  <1>13. 0 \in 0..m /\ \A n \in 1..m : n \in 0..m /\ n # 0 /\ n - 1 \in 0..m
    BY <1>1
  <1>14. r[0] = <<>> /\ \A n \in 1..m : r[n] = placing(s, lists, n, r[n - 1])
    BY <1>12, <1>13
  <1> DEFINE T == {n \in Nat : n <= m => r[n] \in S /\ Range(r[n]) = UNION {G(i) : i \in 1..n}}
  <1> HIDE DEF IsPlaced
  <1>15. 0 \in T
    <2>1. Range(<<>>) = {} /\ UNION {G(i) : i \in 1..0} = {}
      BY DEF Range
    <2> QED
      BY <1>4, <1>14, <2>1
  <1>16. ASSUME NEW n \in Nat, n \in T PROVE n + 1 \in T
    <2> DEFINE M(k) == UNION {G(i) : i \in 1..k}
    <2> SUFFICES ASSUME n + 1 <= m
                 PROVE  r[n + 1] \in S /\ Range(r[n + 1]) = M(n + 1)
      OBVIOUS
    <2>1. n + 1 \in 1..m /\ (n + 1) - 1 = n /\ n <= m
      BY <1>1
    <2>2. M(n + 1) = M(n) \cup G(n + 1)
      <3>1. 1..(n + 1) = 1..n \cup {n + 1}
        OBVIOUS
      <3> QED
        BY <3>1
    <2>3. r[n] \in S /\ Range(r[n]) = M(n)
      BY <1>16, <2>1
    <2> HIDE DEF M
    <2>4. r[n + 1] = placing(s, lists, n + 1, r[n])
      BY <1>14, <2>1
    <2> QED
      BY <1>3, <2>1, <2>2, <2>3, <2>4
  <1> HIDE DEF T
  <1>17. Nat \subseteq T
    BY <1>15, <1>16, SetInduction
  <1>18. r[m] \in S /\ Range(r[m]) = UNION {G(i) : i \in 1..m}
    <2>1. m \in T /\ m <= m
      BY <1>1, <1>17
    <2> QED
      BY <2>1 DEF T
  <1> QED
    BY <1>2, <1>18 DEF S, G, m

\* A finite set in some order.
LEMMA EachInOrder ==
    ASSUME NEW S, IsFiniteSet(S)
    PROVE  /\ Cardinality(S) \in Nat
           /\ SetToSeq(S) \in [1..Cardinality(S) -> S]
           /\ S = {SetToSeq(S)[i] : i \in 1..Cardinality(S)}
  <1> DEFINE n == Cardinality(S)
             g == SetToSeq(S)
  <1>1. n \in Nat /\ Bijection(1..n, S) # {}
    BY FS_CardinalityType DEF ExistsBijection
  <1>2. \E f \in [1..n -> S] : IsInjective(f)
    BY <1>1 DEF Bijection, Injection
  <1>3. g \in [1..n -> S] /\ IsInjective(g)
    BY <1>2 DEF SetToSeq
  <1> HIDE DEF g
  <1>4. IsFiniteSet(1..n) /\ Cardinality(1..n) = n
    <2>1. IsFiniteSet(1..n) /\ Cardinality(1..n) = IF 1 > n THEN 0 ELSE n - 1 + 1
      BY <1>1, FS_Interval
    <2> HIDE DEF n
    <2> QED
      BY <1>1, <2>1
  <1>5. g \in Surjection(1..n, S)
    <2>1. g \in Injection(1..n, S)
      BY <1>3 DEF Injection
    <2> QED
      BY <1>4, <2>1, FS_Injection
  <1>6. \A e \in S : \E i \in 1..n : g[i] = e
    BY <1>5 DEF Surjection
  <1> QED
    BY <1>1, <1>3, <1>6 DEF g

---------------------------------------------------------------------------
(* The filters under other files, and other rules.                         *)

\* A finding is in a file of the setting.
LEMMA FoundInFile ==
    ASSUME NEW s, NEW list, IsList(s, list)
    PROVE  \A d \in Range(list) : finding(s, d).position.file \in DOMAIN s.files
  <1> SUFFICES ASSUME NEW d \in Range(list)
               PROVE  finding(s, d).position.file \in DOMAIN s.files
    OBVIOUS
  <1>1. d.compiled.file \in DOMAIN s.files /\ d.mapped.file \in DOMAIN s.files
    BY DEF IsList
  <1>2. placed(s, d) = d.compiled \/ placed(s, d) = d.mapped
    BY DEF placed
  <1> QED
    BY <1>1, <1>2 DEF finding

\* With every file read, the setting.
Reads(s) == [s EXCEPT !.files = [f \in DOMAIN @ |-> [@[f] EXCEPT !.unreadable = FALSE]]]

LEMMA ReadsTheRest ==
    ASSUME NEW s, IsSetting(s)
    PROVE  /\ Reads(s).paths = s.paths /\ Reads(s).pathsExcept = s.pathsExcept
           /\ Reads(s).rules = s.rules /\ Reads(s).disabled = s.disabled
           /\ \A file \in DOMAIN s.files :
                LET now == Reads(s).files[file]
                    was == s.files[file]
                IN  /\ now.unreadable = FALSE
                    /\ now.outside = was.outside /\ now.generated = was.generated
                    /\ now.lines = was.lines /\ now.silences = was.silences
                    /\ now.nodes = was.nodes
  <1>1. DOMAIN s = {"paths", "pathsExcept", "rules", "disabled", "files"}
    BY DEF IsSetting
  <1>2. /\ Reads(s).paths = s.paths /\ Reads(s).pathsExcept = s.pathsExcept
        /\ Reads(s).rules = s.rules /\ Reads(s).disabled = s.disabled
        /\ Reads(s).files = [f \in DOMAIN s.files |-> [s.files[f] EXCEPT !.unreadable = FALSE]]
    BY <1>1 DEF Reads
  <1>3. ASSUME NEW file \in DOMAIN s.files
        PROVE  LET now == [s.files[file] EXCEPT !.unreadable = FALSE]
                   was == s.files[file]
               IN  /\ now.unreadable = FALSE
                   /\ now.outside = was.outside /\ now.generated = was.generated
                   /\ now.lines = was.lines /\ now.silences = was.silences
                   /\ now.nodes = was.nodes
    <2>1. IsFile(s.files[file], DOMAIN s.files)
      BY DEF IsSetting
    <2> DEFINE r == s.files[file]
    <2>2. {"unreadable", "outside", "generated", "lines", "silences", "nodes"} \subseteq DOMAIN r
      BY <2>1 DEF IsFile
    <2> HIDE DEF r
    <2> QED
      BY <2>2 DEF r
  <1> HIDE DEF Reads
  <1> QED
    BY <1>2, <1>3

\* What is kept with every file read is kept with some not read.
LEMMA ReadableKeepsFewer ==
    ASSUME NEW s, IsSetting(s), NEW X, NEW list \in Seq(X),
           \A f \in Range(list) : f.position.file \in DOMAIN s.files
    PROVE  Range(kept(Reads(s), list)) \subseteq Range(kept(s, list))
  <1> DEFINE t == Reads(s)
             R == Range(list)
  <1>1. /\ t.paths = s.paths /\ t.pathsExcept = s.pathsExcept
        /\ t.rules = s.rules /\ t.disabled = s.disabled
        /\ \A file \in DOMAIN s.files :
             /\ t.files[file].unreadable = FALSE
             /\ t.files[file].outside = s.files[file].outside
             /\ t.files[file].generated = s.files[file].generated
             /\ t.files[file].lines = s.files[file].lines
             /\ t.files[file].silences = s.files[file].silences
             /\ t.files[file].nodes = s.files[file].nodes
    BY ReadsTheRest
  <1> HIDE DEF t
  <1>2. /\ Range(kept(t, list)) = {f \in R : Survives(t, R, f)}
        /\ Range(kept(s, list)) = {f \in R : Survives(s, R, f)}
    <2>1. Range(kept(t, list)) = {f \in R : Survives(t, R, f)}
      BY KeptIsOnly
    <2>2. Range(kept(s, list)) = {f \in R : Survives(s, R, f)}
      BY KeptIsOnly
    <2> QED
      BY <2>1, <2>2
  <1>3. ASSUME NEW f \in R, Survives(t, R, f) PROVE Survives(s, R, f)
    <2>1. f.position.file \in DOMAIN s.files /\ \A g \in R : g.position.file \in DOMAIN s.files
      OBVIOUS
    <2> DEFINE file == f.position.file
    <2>2. Located(t, f) /\ Written(t, R, f) /\ droppedBy(t, f) = 0 /\ ~Silenced(t, f)
      BY <1>3 DEF Survives
    <2> HIDE DEF R
    <2>3. Located(s, f)
      BY <1>1, <2>1, <2>2 DEF Located, excludes
    <2>4. Written(s, R, f)
      <3>1. \A g \in R : ~Unread(t, g)
        BY <1>1, <2>1 DEF Unread
      <3> QED
        BY <1>1, <2>1, <2>2, <3>1 DEF Written
    <2>5. droppedBy(s, f) = 0
      <3>1. s.rules \in Seq(Range(s.rules)) /\ \A rule \in Range(s.rules) : IsRule(rule, DOMAIN s.files)
        BY DEF IsSetting
      <3>2. \A i \in DOMAIN s.rules : ~ruleMatches(t, s.rules[i], f)
        BY <1>1, <2>2, <3>1, DroppedByOne
      <3>3. ASSUME NEW i \in DOMAIN s.rules, ruleMatches(s, s.rules[i], f)
            PROVE  ruleMatches(t, s.rules[i], f)
        <4> DEFINE rule == s.rules[i]
        <4>1. IsRule(rule, DOMAIN s.files)
          BY <3>1 DEF Range
        <4>2. rule.source # Unwritten => rule.source \subseteq STRING
          BY <4>1 DEF IsRule
        <4> HIDE DEF rule
        <4>3. rule.source # Unwritten => sourceLine(s, f.position) # Unwritten
          BY <3>3, <4>2, UnwrittenAssumption DEF ruleMatches, rule
        <4>4. sourceLine(s, f.position) # Unwritten => sourceLine(t, f.position) = sourceLine(s, f.position)
          BY <1>1, <2>1 DEF sourceLine
        <4> QED
          BY <3>3, <4>3, <4>4 DEF ruleMatches, rule
      <3>4. \A i \in DOMAIN s.rules : ~ruleMatches(s, s.rules[i], f)
        BY <3>2, <3>3
      <3> QED
        BY <3>1, <3>4, DroppedByOne
    <2>6. ~Silenced(s, f)
      <3>1. silencesIn(s.files[file]) \subseteq silencesIn(t.files[file])
        BY <1>1, <2>1 DEF silencesIn
      <3> QED
        BY <2>2, <3>1 DEF Silenced
    <2> QED
      BY <2>3, <2>4, <2>5, <2>6 DEF Survives
  <1> QED
    BY <1>2, <1>3 DEF t

\* With some of its rules alone, the setting.
Ruled(s, used) == [s EXCEPT !.rules = [i \in DOMAIN used |-> s.rules[used[i]]]]

\* The rules that drop something are enough.
LEMMA UsedRulesSuffice ==
    ASSUME NEW s, IsSetting(s), NEW X, NEW list \in Seq(X),
           NEW used \in Seq(DOMAIN s.rules),
           usedRules(s, reachRules(s, list)) \subseteq Range(used)
    PROVE  kept(Ruled(s, used), list) = kept(s, list)
  <1> DEFINE t == Ruled(s, used)
             R == Range(list)
  <1>1. DOMAIN s = {"paths", "pathsExcept", "rules", "disabled", "files"}
        /\ s.rules \in Seq(Range(s.rules))
    BY DEF IsSetting
  <1>2. /\ t.paths = s.paths /\ t.pathsExcept = s.pathsExcept /\ t.disabled = s.disabled
        /\ t.files = s.files /\ t.rules = [i \in DOMAIN used |-> s.rules[used[i]]]
    BY <1>1 DEF Ruled
  <1>3. DOMAIN used = 1..Len(used) /\ Len(used) \in Nat /\ \A i \in DOMAIN used : used[i] \in DOMAIN s.rules
    OBVIOUS
  <1>4. t.rules \in Seq(Range(t.rules)) /\ DOMAIN t.rules = DOMAIN used
    <2>1. DOMAIN t.rules = 1..Len(used) /\ t.rules = [i \in 1..Len(used) |-> t.rules[i]]
      BY <1>2, <1>3
    <2>2. \A i \in 1..Len(used) : t.rules[i] \in Range(t.rules)
      BY <2>1 DEF Range
    <2> DEFINE q == t.rules
    <2> HIDE DEF t, q
    <2>3. q \in Seq(Range(q))
      BY <1>3, <2>1, <2>2 DEF q
    <2> QED
      BY <1>3, <2>1, <2>3 DEF q
  <1> HIDE DEF t
  <1>5. \A f, rule : ruleMatches(t, rule, f) <=> ruleMatches(s, rule, f)
    BY <1>2 DEF ruleMatches, sourceLine
  <1>6. \A f : /\ Located(t, f) <=> Located(s, f)
               /\ Written(t, R, f) <=> Written(s, R, f)
               /\ Silenced(t, f) <=> Silenced(s, f)
    <2>1. \A f : (Located(t, f) <=> Located(s, f)) /\ (Unread(t, f) <=> Unread(s, f))
      BY <1>2 DEF Located, excludes, Unread
    <2>2. \A f : Written(t, R, f) <=> Written(s, R, f)
      <3> HIDE DEF R
      <3> QED
        BY <1>2, <2>1 DEF Written
    <2>3. \A f : Silenced(t, f) <=> Silenced(s, f)
      BY <1>2 DEF Silenced
    <2> QED
      BY <2>1, <2>2, <2>3
  <1>7. ASSUME NEW f \in R, Located(s, f), Written(s, R, f)
        PROVE  droppedBy(t, f) = 0 <=> droppedBy(s, f) = 0
    <2>1. ASSUME droppedBy(s, f) = 0 PROVE droppedBy(t, f) = 0
      <3>1. \A i \in DOMAIN s.rules : ~ruleMatches(s, s.rules[i], f)
        BY <1>1, <2>1, DroppedByOne
      <3>2. \A i \in DOMAIN t.rules : ~ruleMatches(t, t.rules[i], f)
        BY <1>2, <1>3, <1>4, <1>5, <3>1
      <3> QED
        BY <1>4, <3>2, DroppedByOne
    <2>2. ASSUME droppedBy(s, f) # 0 PROVE droppedBy(t, f) # 0
      <3> DEFINE m == droppedBy(s, f)
      <3>1. m \in DOMAIN s.rules /\ ruleMatches(s, s.rules[m], f)
        BY <1>1, <2>2, DroppedByOne
      <3>2. f \in Range(reachRules(s, list))
        BY <1>7, KeptIsOnly
      <3>3. m \in usedRules(s, reachRules(s, list))
        BY <2>2, <3>2 DEF usedRules
      <3> HIDE DEF m
      <3>4. PICK i \in DOMAIN used : used[i] = m
        BY <3>3 DEF Range
      <3>5. i \in DOMAIN t.rules /\ ruleMatches(t, t.rules[i], f)
        BY <1>2, <1>4, <1>5, <3>1, <3>4
      <3> QED
        BY <1>4, <3>5, DroppedByOne
    <2> QED
      BY <2>1, <2>2
  <1>8. \A f \in R : Survives(t, R, f) <=> Survives(s, R, f)
    <2> HIDE DEF R
    <2> QED
      BY <1>6, <1>7 DEF Survives
  <1>9. {f \in R : Survives(t, R, f)} = {f \in R : Survives(s, R, f)}
    BY <1>8
  <1>10. /\ kept(t, list) = only(list, {f \in R : Survives(t, R, f)})
         /\ kept(s, list) = only(list, {f \in R : Survives(s, R, f)})
    BY KeptIsOnly
  <1> QED
    BY <1>9, <1>10 DEF t

\* More findings to read keep no fewer of them, and no more where every file
\* can be read.
LEMMA KeptOfMore ==
    ASSUME NEW s, NEW few, NEW many, few \subseteq many, NEW f
    PROVE  /\ Survives(s, few, f) => Survives(s, many, f)
           /\ (\A g \in many : ~Unread(s, g)) => (Survives(s, many, f) => Survives(s, few, f))
  BY DEF Survives, Written

---------------------------------------------------------------------------
(* The runs of go vet.                                                     *)

\* What the tool reports of a version of a package, given the facts of all it
\* imports.
ReportOf(v) == run(project.setting, project.tests, v.diagnostics)

\* What go vet keeps is of a package that was analyzed with no finding: its
\* code fails nothing and, when every import had its facts, reports nothing.
CacheInv == \A k \in cache :
    LET v == project.versions[k.package][k.code[k.package]]
    IN  /\ ~v.fails
        /\ k.facts = project.imports[k.package] => ReportOf(v) = <<>>

\* This run has an error of the packages that fail, facts of the others it is
\* done with, and the report of those whose imports all had facts.
SeenInv ==
    /\ seen \subseteq Package
    /\ \A p \in seen : project.imports[p] \subseteq seen
    /\ errors = {p \in seen : Fails(p)}
    /\ facts = seen \ errors
    /\ \A p \in seen : ~Fails(p) /\ project.imports[p] \subseteq facts =>
          shown[p] = ReportOf(version(p))
    /\ \A p \in Package \ seen : shown[p] = <<>>

VetInv ==
    /\ project \in Projects
    /\ refused => cache = {}
    /\ DOMAIN shown = Package
    /\ code \in [Package -> {1, 2}]
    /\ phase \in {"idle", "running", "complete"}
    /\ CacheInv
    /\ phase # "idle" => SeenInv
    /\ phase = "complete" => seen = Package

\* A package needs itself and what it imports.
LEMMA NeedsImports ==
    ASSUME project \in Projects, NEW p \in Package
    PROVE  /\ p \in Needs(p)
           /\ project.imports[p] \subseteq Needs(p)
  BY ProjectsAssumption DEF Needs, Package

\* A key says the version of the package it was made of.
LEMMA KeyOfCode ==
    ASSUME project \in Projects, NEW p \in Package
    PROVE  /\ key(p).package = p
           /\ key(p).code[p] = code[p]
           /\ key(p).facts = project.imports[p] \cap facts
  BY NeedsImports DEF key

\* What go vet keeps of this run is what CacheInv says of a key.
LEMMA KeepsCacheInv ==
    ASSUME VetInv, NEW p \in Package, ~version(p).fails,
           project.imports[p] \subseteq facts => ReportOf(version(p)) = <<>>
    PROVE  \A k \in cache \cup {key(p)} :
             LET v == project.versions[k.package][k.code[k.package]]
             IN  /\ ~v.fails
                 /\ k.facts = project.imports[k.package] => ReportOf(v) = <<>>
  <1>1. project \in Projects
    BY DEF VetInv
  <1>2. /\ key(p).package = p
        /\ key(p).code[p] = code[p]
        /\ key(p).facts = project.imports[p] \cap facts
    BY <1>1, KeyOfCode
  <1>3. key(p).facts = project.imports[p] => project.imports[p] \subseteq facts
    BY <1>2
  <1> QED
    BY <1>2, <1>3 DEF VetInv, CacheInv, version

\* The steps of one run leave the cache of the others as it says.
LEMMA CachedStep ==
    ASSUME VetInv, NEW p \in Package, Cached(p)
    PROVE  VetInv'
  <1>1. /\ phase = "running" /\ project' = project /\ refused' = refused
        /\ code' = code /\ cache' = cache /\ phase' = phase /\ errors' = errors
        /\ shown' = shown /\ seen' = seen \cup {p} /\ facts' = facts \cup {p}
        /\ p \notin seen /\ project.imports[p] \subseteq seen /\ key(p) \in cache
    BY DEF Cached, Ready
  <1>2. SeenInv /\ CacheInv /\ ~refused /\ project \in Projects
    BY <1>1 DEF VetInv
  <1>3. /\ ~version(p).fails
        /\ project.imports[p] \subseteq facts => ReportOf(version(p)) = <<>>
    <2>1. /\ key(p).package = p /\ key(p).code[p] = code[p]
          /\ key(p).facts = project.imports[p] \cap facts
      BY <1>2, KeyOfCode
    <2>2. project.versions[key(p).package][key(p).code[key(p).package]] = version(p)
      BY <2>1 DEF version
    <2>3. /\ ~version(p).fails
          /\ key(p).facts = project.imports[key(p).package] => ReportOf(version(p)) = <<>>
      BY <1>1, <1>2, <2>2 DEF CacheInv
    <2> QED
      BY <2>1, <2>3
  <1>4. Fails(p) = FALSE
    BY <1>2, <1>3 DEF Fails
  <1>5. SeenInv'
    <2>1. \A q \in Package : /\ Fails(q)' = Fails(q) /\ version(q)' = version(q)
                             /\ ReportOf(version(q))' = ReportOf(version(q))
      BY <1>1 DEF Fails, version, ReportOf
    <2>2. errors' = {q \in seen' : Fails(q)'}
      BY <1>1, <1>2, <1>4, <2>1 DEF SeenInv, Package
    <2>3. facts' = seen' \ errors'
      BY <1>1, <1>2, <1>4 DEF SeenInv
    <2>4. ASSUME NEW q \in seen', ~Fails(q)', project'.imports[q] \subseteq facts'
          PROVE  shown'[q] = ReportOf(version(q))'
      <3>1. CASE q = p
        BY <1>1, <1>2, <1>3, <2>1, <2>4, <3>1 DEF SeenInv
      <3>2. CASE q # p
        <4>1. q \in seen /\ project.imports[q] \subseteq facts
          BY <1>1, <1>2, <2>4, <3>2 DEF SeenInv
        <4> QED
          BY <1>1, <1>2, <2>1, <2>4, <4>1 DEF SeenInv
      <3> QED
        BY <3>1, <3>2
    <2> QED
      BY <1>1, <1>2, <2>2, <2>3, <2>4 DEF SeenInv, Package
  <1> QED
    BY <1>1, <1>2, <1>5 DEF VetInv, CacheInv, Package, ReportOf

LEMMA ToolStep ==
    ASSUME VetInv, NEW p \in Package, Tool(p)
    PROVE  VetInv'
  <1> DEFINE failed == refused \/ version(p).fails
  <1>1. /\ phase = "running" /\ project' = project /\ refused' = refused
        /\ code' = code /\ phase' = phase /\ seen' = seen \cup {p}
        /\ p \notin seen /\ project.imports[p] \subseteq seen
    BY DEF Tool, Ready
  <1>2. SeenInv /\ CacheInv /\ project \in Projects /\ DOMAIN shown = Package
    BY <1>1 DEF VetInv
  <1>3. PICK printed : /\ failed => /\ errors' = errors \cup {p} /\ cache' = cache
                                    /\ facts' = facts /\ shown' = shown
                       /\ ~failed => /\ errors' = errors
                                     /\ shown' = [shown EXCEPT ![p] = printed]
                                     /\ facts' = facts \cup {p}
                                     /\ cache' = IF printed = <<>>
                                                 THEN cache \cup {key(p)} ELSE cache
                       /\ project.imports[p] \subseteq facts =>
                             printed = ReportOf(version(p))
    <2>1. CASE failed
      BY <2>1 DEF Tool, errorStatus
    <2>2. CASE ~failed
      <3>1. PICK diagnostics \in Analyzed(p) :
              LET printed == run(project.setting, project.tests, diagnostics)
              IN  /\ shown' = [shown EXCEPT ![p] = printed]
                  /\ IF printed = <<>> THEN Keep(p)
                     ELSE facts' = facts \cup {p} /\ UNCHANGED cache
        BY <2>2 DEF Tool
      <3>2. project.imports[p] \subseteq facts => diagnostics = version(p).diagnostics
        BY DEF Analyzed
      <3>3. WITNESS run(project.setting, project.tests, diagnostics)
      <3> QED
        BY <2>2, <3>1, <3>2 DEF Tool, Keep, ReportOf
    <2> QED
      BY <2>1, <2>2
  <1>4. failed = Fails(p)
    BY DEF Fails
  <1>5. \A q \in Package : /\ Fails(q)' = Fails(q) /\ version(q)' = version(q)
                           /\ ReportOf(version(q))' = ReportOf(version(q))
    BY <1>1 DEF Fails, version, ReportOf
  <1>6. SeenInv'
    <2>1. errors' = {q \in seen' : Fails(q)'}
      BY <1>1, <1>2, <1>3, <1>4, <1>5 DEF SeenInv, Package
    <2>2. facts' = seen' \ errors'
      BY <1>1, <1>2, <1>3 DEF SeenInv
    <2>3. ASSUME NEW q \in seen', ~Fails(q)', project'.imports[q] \subseteq facts'
          PROVE  shown'[q] = ReportOf(version(q))'
      <3>1. CASE q = p
        BY <1>1, <1>2, <1>3, <1>4, <1>5, <2>3, <3>1 DEF SeenInv
      <3>2. CASE q # p
        <4>1. q \in seen /\ project.imports[q] \subseteq facts
          BY <1>1, <1>2, <1>3, <2>3, <3>2 DEF SeenInv
        <4> QED
          BY <1>1, <1>2, <1>3, <1>5, <2>3, <3>2, <4>1 DEF SeenInv
      <3> QED
        BY <3>1, <3>2
    <2>4. \A q \in Package \ seen' : shown'[q] = <<>>
      BY <1>1, <1>2, <1>3 DEF SeenInv
    <2> QED
      BY <1>1, <1>2, <2>1, <2>2, <2>3, <2>4 DEF SeenInv, Package
  <1>7. CacheInv'
    <2>1. CASE cache' = cache
      BY <1>1, <1>2, <2>1 DEF CacheInv, ReportOf
    <2>2. CASE ~failed /\ printed = <<>>
      BY <1>1, <1>3, <2>2, KeepsCacheInv DEF CacheInv, ReportOf
    <2> QED
      BY <1>3, <2>1, <2>2
  <1>8. refused' => cache' = {}
    BY <1>1, <1>3 DEF VetInv
  <1> QED
    BY <1>1, <1>2, <1>3, <1>6, <1>7, <1>8 DEF VetInv, Package

---------------------------------------------------------------------------
\* The initial states have nothing kept, and every step keeps the invariant.
LEMMA VetInvHolds == Spec => []VetInv
  <1>1. Init => VetInv
    BY DEF Init, VetInv, CacheInv, Package
  <1>2. VetInv /\ [Next]_vars => VetInv'
    <2> SUFFICES ASSUME VetInv, [Next]_vars
                 PROVE  VetInv'
      OBVIOUS
    <2>1. CASE Start
      BY <2>1 DEF Start, VetInv, CacheInv, SeenInv, Package, ReportOf
    <2>2. CASE End
      BY <2>2 DEF End, VetInv, CacheInv, SeenInv, Package, ReportOf, Fails, version
    <2>3. CASE Interrupt
      BY <2>3 DEF Interrupt, VetInv, CacheInv, Package, ReportOf
    <2>4. CASE PutRight
      BY <2>4 DEF PutRight, VetInv, CacheInv, Package, ReportOf
    <2>5. ASSUME NEW p \in Package, Cached(p)
          PROVE  VetInv'
      BY <2>5, CachedStep
    <2>6. ASSUME NEW p \in Package, Tool(p)
          PROVE  VetInv'
      BY <2>6, ToolStep
    <2>7. ASSUME NEW p \in Package, Edit(p)
          PROVE  VetInv'
      <3>1. code' \in [Package -> {1, 2}]
        <4>1. code \in [Package -> {1, 2}] /\ code' = [code EXCEPT ![p] = 3 - code[p]]
          BY <2>7 DEF Edit, VetInv
        <4>2. 3 - code[p] \in {1, 2}
          BY <4>1
        <4> QED
          BY <4>1, <4>2
      <3> QED
        BY <2>7, <3>1 DEF Edit, VetInv, CacheInv, Package, ReportOf
    <2>8. CASE UNCHANGED vars
      BY <2>8 DEF vars, VetInv, CacheInv, SeenInv, Package, ReportOf, Fails, version
    <2> QED
      BY <2>1, <2>2, <2>3, <2>4, <2>5, <2>6, <2>7, <2>8 DEF Next
  <1> QED
    BY <1>1, <1>2, PTL DEF Spec

\* Whatever was run, interrupted, failed and edited before, a run of go vet
\* that ends shows the error of every package with one, and of a package none
\* of whose needs has one what a run from nothing would show (vet.go:61).
THEOREM NothingIsHidden == Spec => []NothingHidden
  <1>1. VetInv => NothingHidden
    <2> SUFFICES ASSUME VetInv, phase = "complete", NEW p \in Package
                 PROVE  /\ (p \in errors) = Fails(p)
                        /\ (\A q \in Needs(p) : ~Fails(q)) =>
                              shown[p] = ReportOf(version(p))
      BY DEF NothingHidden, ReportOf
    <2>1. SeenInv /\ seen = Package /\ project \in Projects
      BY DEF VetInv
    <2>2. (p \in errors) = Fails(p)
      BY <2>1 DEF SeenInv, Fails
    <2>3. ASSUME \A q \in Needs(p) : ~Fails(q)
          PROVE  shown[p] = ReportOf(version(p))
      <3>1. ~Fails(p) /\ \A q \in project.imports[p] : ~Fails(q)
        BY <2>1, <2>3, NeedsImports
      <3>2. project.imports[p] \subseteq facts
        BY <2>1, <3>1 DEF SeenInv
      <3> QED
        BY <2>1, <3>1, <3>2 DEF SeenInv
    <2> QED
      BY <2>2, <2>3
  <1> QED
    BY <1>1, VetInvHolds, PTL

\* The diagnostics of a package are a list, in files of the setting.
LEMMA DiagnosticsAreListed ==
    ASSUME VetInv, NEW p \in Package
    PROVE  IsSetting(project.setting) /\ IsList(project.setting, version(p).diagnostics)
  <1>1. project \in Projects /\ code[p] \in {1, 2}
    BY DEF VetInv
  <1> QED
    BY <1>1, ProjectsAssumption DEF Package, version

\* What the command reads of a package, and of them all.
ReadOf(p) == Range(goFindings(project.setting, CommandList(p)))
CommandReads == [i \in 1..Cardinality(Package) |-> CommandList(SetToSeq(Package)[i])]

LEMMA ReadsEach ==
    ASSUME VetInv
    PROVE  LET M == placedFindings(project.setting, CommandReads)
           IN  /\ \E Y : M \in Seq(Y)
               /\ Range(M) = UNION {ReadOf(p) : p \in Package}
               /\ \A p \in Package : ReadOf(p) =
                    {f \in {finding(project.setting, d) : d \in Range(CommandList(p))} :
                       project.setting.files[f.position.file].go}
               /\ \A f \in Range(M) : f.position.file \in DOMAIN project.setting.files
  <1> DEFINE s == project.setting
             X == UNION {Range(version(p).diagnostics) : p \in Package}
             Y == {finding(s, d) : d \in X}
             n == Cardinality(Package)
             order == SetToSeq(Package)
             lists == CommandReads
             M == placedFindings(s, lists)
  <1>1. \A p \in Package : /\ IsList(s, version(p).diagnostics)
                           /\ Range(version(p).diagnostics) \subseteq X
    BY DiagnosticsAreListed
  <1>2. \A p \in Package : CommandList(p) \in Seq(X)
                           /\ Range(CommandList(p)) \subseteq Range(version(p).diagnostics)
    <2> SUFFICES ASSUME NEW p \in Package
                 PROVE  CommandList(p) \in Seq(X)
                        /\ Range(CommandList(p)) \subseteq Range(version(p).diagnostics)
      OBVIOUS
    <2> DEFINE l == version(p).diagnostics
               K == {d \in Range(l) : project.tests \/ ~project.setting.files[d.compiled.file].test}
    <2>1. l \in Seq(Range(l)) /\ Range(l) \subseteq X
      BY <1>1 DEF IsList
    <2>2. CommandList(p) = only(l, K)
      BY DEF CommandList
    <2> HIDE DEF l, K, X
    <2>3. l \in Seq(X)
      <3>1. Len(l) \in Nat /\ l = [i \in 1..Len(l) |-> l[i]] /\ \A i \in 1..Len(l) : l[i] \in Range(l)
        BY <2>1
      <3> QED
        BY <2>1, <3>1
    <2>4. only(l, K) \in Seq(X) /\ Range(only(l, K)) = Range(l) \cap K
      BY <2>3, OnlyRange
    <2> QED
      BY <2>2, <2>4 DEF l
  <1> HIDE DEF X
  <1>3. n \in Nat /\ order \in [1..n -> Package] /\ Package = {order[i] : i \in 1..n}
    <2>1. IsFiniteSet(Package)
      BY ProjectsAssumption DEF Package, VetInv
    <2> QED
      BY <2>1, EachInOrder
  <1>4. lists = [i \in 1..n |-> CommandList(order[i])]
    BY DEF CommandReads
  <1> HIDE DEF n, order, lists
  <1>5. lists \in Seq(Seq(X)) /\ Len(lists) = n
    <2>1. \A i \in 1..n : CommandList(order[i]) \in Seq(X)
      BY <1>2, <1>3
    <2> DEFINE S == Seq(X)
    <2>2. \A i \in 1..n : CommandList(order[i]) \in S
      BY <2>1
    <2> HIDE DEF S
    <2>3. lists \in Seq(S) /\ Len(lists) = n
      BY <1>3, <1>4, <2>2
    <2> QED
      BY <2>3 DEF S
  <1>6. M \in Seq(Y) /\ Range(M) = UNION {Range(goFindings(s, lists[i])) : i \in 1..n}
    <2>1. \A t, A : \A ls \in Seq(Seq(A)) :
            /\ placedFindings(t, ls) \in Seq({finding(t, d) : d \in A})
            /\ Range(placedFindings(t, ls)) =
                 UNION {Range(goFindings(t, ls[i])) : i \in 1..Len(ls)}
      BY PlacedHolds
    <2> QED
      BY <1>5, <2>1
  <1>7. Range(M) = UNION {ReadOf(p) : p \in Package}
    <2>1. \A i \in 1..n : Range(goFindings(s, lists[i])) = ReadOf(order[i])
      BY <1>4 DEF ReadOf
    <2>2. UNION {Range(goFindings(s, lists[i])) : i \in 1..n} = UNION {ReadOf(order[i]) : i \in 1..n}
      BY <2>1
    <2>3. {ReadOf(order[i]) : i \in 1..n} = {ReadOf(p) : p \in Package}
      BY <1>3
    <2> HIDE DEF M
    <2> QED
      BY <1>6, <2>2, <2>3
  <1>8. \A p \in Package : ReadOf(p) =
          {f \in {finding(s, d) : d \in Range(CommandList(p))} : s.files[f.position.file].go}
    <2>1. \A l \in Seq(X) : Range(goFindings(s, l)) =
            {f \in {finding(s, d) : d \in Range(l)} : s.files[f.position.file].go}
      BY GoFound
    <2> QED
      BY <1>2, <2>1 DEF ReadOf
  <1>9. \A f \in Range(M) : f.position.file \in DOMAIN s.files
    <2> SUFFICES ASSUME NEW p \in Package, NEW f \in ReadOf(p)
                 PROVE  f.position.file \in DOMAIN s.files
      BY <1>7
    <2>1. PICK d \in Range(version(p).diagnostics) : f = finding(s, d)
      BY <1>2, <1>8
    <2> QED
      BY <1>1, <2>1, FoundInFile
  <1>10. \E Z : M \in Seq(Z)
    BY <1>6
  <1> QED
    BY <1>7, <1>8, <1>9, <1>10 DEF M, lists, s

\* What the tool keeps of a package is what survives of what the command reads
\* of it.
LEMMA ToolKeeps ==
    ASSUME VetInv, NEW p \in Package
    PROVE  LET s == project.setting
               list == reported(s, project.tests, version(p).diagnostics)
           IN  Range(kept(s, foundIn(s, list))) = {f \in ReadOf(p) : Survives(s, ReadOf(p), f)}
  <1> DEFINE s == project.setting
             l == version(p).diagnostics
             D == {d \in Range(l) : /\ project.tests \/ ~s.files[d.compiled.file].test
                                    /\ s.files[placed(s, d).file].go}
             C == {d \in Range(l) : project.tests \/ ~s.files[d.compiled.file].test}
             list == reported(s, project.tests, l)
             F == foundIn(s, list)
             X == Range(l)
             Y == {finding(s, d) : d \in X}
  <1>1. l \in Seq(X)
    BY DiagnosticsAreListed DEF IsList
  <1>2. list = only(l, D) /\ CommandList(p) = only(l, C)
    BY DEF reported, CommandList
  <1>3. list \in Seq(X) /\ Range(list) = D /\ Range(CommandList(p)) = C
    <2>1. D \subseteq Range(l) /\ C \subseteq Range(l)
      OBVIOUS
    <2> HIDE DEF l, D, C, X, list
    <2>2. only(l, D) \in Seq(X) /\ Range(only(l, D)) = Range(l) \cap D
          /\ Range(only(l, C)) = Range(l) \cap C
      BY <1>1, OnlyRange
    <2> QED
      BY <1>2, <2>1, <2>2
  <1>4. ReadOf(p) = {finding(s, d) : d \in D}
    <2>1. ReadOf(p) = {f \in {finding(s, d) : d \in Range(CommandList(p))} :
                         s.files[f.position.file].go}
      BY ReadsEach
    <2>2. \A d : finding(s, d).position = placed(s, d)
      BY DEF finding
    <2> HIDE DEF s
    <2>3. {f \in {finding(s, d) : d \in C} : s.files[f.position.file].go} = {finding(s, d) : d \in D}
      BY <2>2
    <2> HIDE DEF C, D
    <2> QED
      BY <1>3, <2>1, <2>3 DEF s
  <1> HIDE DEF s, l, list, D, C, X
  <1>5. F \in Seq(Y) /\ Range(F) = {finding(s, d) : d \in D}
    <2>1. \A t, A : \A k \in Seq(A) : foundIn(t, k) \in Seq({finding(t, d) : d \in A})
      BY FoundOfEach
    <2>2. \A t, k : Range(foundIn(t, k)) = {finding(t, d) : d \in Range(k)}
      BY DEF foundIn, Range
    <2>3. F \in Seq(Y)
      BY <1>3, <2>1
    <2>4. Range(F) = {finding(s, d) : d \in Range(list)}
      BY <1>3, <2>2
    <2> QED
      BY <1>3, <2>3, <2>4
  <1> HIDE DEF F, Y
  <1>6. Range(kept(s, F)) = {f \in Range(F) : Survives(s, Range(F), f)}
    BY <1>5, KeptIsOnly
  <1> QED
    BY <1>4, <1>5, <1>6 DEF F, list, l, s

\* Of each diagnostic the filter keeps the finding of, and of no other, the
\* tool prints all there is to print, where the command does (vet.go:198).
THEOREM ReportsAreKept == Spec => []VetReportsKept
  <1>1. VetInv => VetReportsKept
    <2> SUFFICES ASSUME VetInv, NEW p \in Package
                 PROVE  LET s == project.setting
                            list == reported(s, project.tests, version(p).diagnostics)
                            findings == Range(kept(s, foundIn(s, list)))
                            expected == only(list, {d \in Range(list) : finding(s, d) \in findings})
                        IN  run(s, project.tests, version(p).diagnostics) =
                              [i \in DOMAIN expected |->
                                 [position |-> placed(s, expected[i]),
                                  message |-> expected[i].message, fix |-> expected[i].fix]]
      BY DEF VetReportsKept
    <2>1. version(p).diagnostics \in Seq(Range(version(p).diagnostics))
      BY DiagnosticsAreListed DEF IsList
    <2> QED
      BY <2>1, RunReports
  <1> QED
    BY <1>1, VetInvHolds, PTL

\* What go vet shows in a run with no error the command prints, and the same
\* where every file can be read: each package filtered alone, or all together
\* (report.go:62).
THEOREM VetAndCommandAgree == Spec => []CommandAgrees
  <1>1. VetInv => CommandAgrees
    <2> DEFINE s == project.setting
               K(p) == {f \in ReadOf(p) : Survives(s, ReadOf(p), f)}
               R == UNION {ReadOf(p) : p \in Package}
               printed(p) == {[position |-> d.position, message |-> d.message] :
                                d \in Range(shown[p])}
               findings == UNION {printed(p) : p \in Package}
    <2> SUFFICES ASSUME VetInv, phase = "complete", errors = {}
                 PROVE  /\ findings \subseteq CommandPrints
                        /\ (\A f \in Range(s.files) : ~f.unreadable) => findings = CommandPrints
      BY DEF CommandAgrees
    <2>1. SeenInv /\ seen = Package /\ project \in Projects
      BY DEF VetInv
    <2>2. ASSUME NEW p \in Package PROVE printed(p) = K(p)
      <3>1. shown[p] = ReportOf(version(p))
        <4>1. facts = Package /\ ~Fails(p)
          BY <2>1 DEF SeenInv
        <4>2. project.imports[p] \subseteq facts
          BY <2>1, <4>1 DEF SeenInv
        <4> QED
          BY <2>1, <4>1, <4>2 DEF SeenInv
      <3>2. version(p).diagnostics \in Seq(Range(version(p).diagnostics))
        BY DiagnosticsAreListed DEF IsList
      <3>3. {[position |-> d.position, message |-> d.message] :
               d \in Range(run(s, project.tests, version(p).diagnostics))}
              = Range(kept(s, foundIn(s, reported(s, project.tests, version(p).diagnostics))))
        BY <3>2, RunReports
      <3> QED
        BY <3>1, <3>3, ToolKeeps DEF ReportOf
    <2>3. findings = UNION {K(p) : p \in Package}
      <3> HIDE DEF K, printed
      <3> QED
        BY <2>2
    <2>4. CommandPrints = {f \in R : Survives(s, R, f)}
      <3> DEFINE M == placedFindings(s, CommandReads)
      <3>1. CommandPrints = Range(kept(s, M))
        BY DEF CommandPrints, report, CommandReads
      <3>2. PICK Y : M \in Seq(Y)
        BY ReadsEach
      <3>3. Range(M) = R
        BY ReadsEach
      <3> HIDE DEF M, R, s
      <3>4. Range(kept(s, M)) = {f \in Range(M) : Survives(s, Range(M), f)}
        BY <3>2, KeptIsOnly
      <3> QED
        BY <3>1, <3>3, <3>4
    <2>5. \A f \in R : f.position.file \in DOMAIN s.files
      BY ReadsEach
    <2>6. \A p \in Package : ReadOf(p) \subseteq R
      OBVIOUS
    <2> HIDE DEF findings, s
    <2>7. findings \subseteq CommandPrints
      <3> SUFFICES ASSUME NEW p \in Package, NEW f \in K(p)
                   PROVE  f \in CommandPrints
        BY <2>3
      <3> HIDE DEF R
      <3> QED
        BY <2>4, <2>6, KeptOfMore
    <2>8. ASSUME \A f \in Range(s.files) : ~f.unreadable
          PROVE  CommandPrints \subseteq findings
      <3>1. \A g \in R : ~Unread(s, g)
        BY <2>5, <2>8 DEF Unread, Range
      <3> SUFFICES ASSUME NEW f \in R, Survives(s, R, f)
                   PROVE  f \in findings
        BY <2>4
      <3>2. PICK p \in Package : f \in ReadOf(p)
        OBVIOUS
      <3>3. Survives(s, ReadOf(p), f)
        <4> HIDE DEF R
        <4> QED
          BY <2>6, <3>1, KeptOfMore
      <3> QED
        BY <2>3, <3>2, <3>3
    <2> QED
      BY <2>7, <2>8 DEF s, findings
  <1> QED
    BY <1>1, VetInvHolds, PTL

\* Nothing kept when every file can be read is lost when some cannot
\* (report.go:62, exclusions.go:133).
THEOREM UnreadHidesNothing == Spec => []FailuresHideNothing
  <1>1. VetInv => FailuresHideNothing
    <2> SUFFICES ASSUME VetInv, NEW p \in Package
                 PROVE  LET list == goFindings(project.setting, version(p).diagnostics)
                        IN  Range(kept(Reads(project.setting), list))
                              \subseteq Range(kept(project.setting, list))
      BY DEF FailuresHideNothing, Reads
    <2> DEFINE s == project.setting
               l == version(p).diagnostics
               list == goFindings(s, l)
               X == {finding(s, d) : d \in Range(l)}
    <2>1. IsSetting(s) /\ IsList(s, l) /\ l \in Seq(Range(l))
      BY DiagnosticsAreListed DEF IsList
    <2>2. list \in Seq(X) /\ Range(list) = {f \in X : s.files[f.position.file].go}
      <3>1. \A k \in Seq(Range(l)) :
              /\ goFindings(s, k) \in Seq({finding(s, d) : d \in Range(l)})
              /\ Range(goFindings(s, k)) =
                   {f \in {finding(s, d) : d \in Range(k)} : s.files[f.position.file].go}
        BY GoFound
      <3> QED
        BY <2>1, <3>1
    <2>3. \A f \in Range(list) : f.position.file \in DOMAIN s.files
      BY <2>1, <2>2, FoundInFile
    <2> HIDE DEF s, l, list, X
    <2>4. Range(kept(Reads(s), list)) \subseteq Range(kept(s, list))
      BY <2>1, <2>2, <2>3, ReadableKeepsFewer
    <2> QED
      BY <2>4 DEF s, l, list
  <1> QED
    BY <1>1, VetInvHolds, PTL

\* Without the rules warned of as unused the command keeps the same
\* (exclusions.go:100).
THEOREM UnusedRulesDropNothing == Spec => []UnusedRulesIdle
  <1>1. VetInv => UnusedRulesIdle
    <2> DEFINE s == project.setting
               list == placedFindings(s, CommandReads)
               unused == unusedRules(s, reachRules(s, list))
               all == [i \in DOMAIN s.rules |-> i]
               used == only(all, DOMAIN s.rules \ unused)
    <2> SUFFICES ASSUME VetInv PROVE kept(Ruled(s, used), list) = kept(s, list)
      BY DEF UnusedRulesIdle, CommandReads, Ruled
    <2>1. CASE Package = {}
      <3>1. PICK Y : list \in Seq(Y)
        BY ReadsEach
      <3>2. Range(list) = {}
        BY <2>1, ReadsEach
      <3> DEFINE t == Ruled(s, used)
      <3> HIDE DEF s, list, t
      <3>3. /\ kept(t, list) = only(list, {f \in Range(list) : Survives(t, Range(list), f)})
            /\ kept(s, list) = only(list, {f \in Range(list) : Survives(s, Range(list), f)})
        BY <3>1, KeptIsOnly
      <3> QED
        BY <3>2, <3>3 DEF t
    <2>2. CASE Package # {}
      <3>1. PICK p : p \in Package
        BY <2>2
      <3>2. IsSetting(s)
        BY <3>1, DiagnosticsAreListed
      <3>3. DOMAIN s.rules = 1..Len(s.rules) /\ Len(s.rules) \in Nat
        BY <3>2 DEF IsSetting
      <3>4. PICK Y : list \in Seq(Y)
        BY ReadsEach
      <3> HIDE DEF s, list
      <3>5. all \in Seq(DOMAIN s.rules) /\ Range(all) = DOMAIN s.rules
        <4> DEFINE m == Len(s.rules)
        <4>1. all = [i \in 1..m |-> i] /\ m \in Nat
          BY <3>3
        <4> HIDE DEF m, all
        <4>2. all \in Seq(1..m) /\ Range(all) = 1..m
          BY <4>1 DEF Range
        <4> QED
          BY <3>3, <4>2 DEF m
      <3> HIDE DEF all, unused
      <3>6. used \in Seq(DOMAIN s.rules) /\ Range(used) = DOMAIN s.rules \ unused
        <4> DEFINE X == DOMAIN s.rules
                   U == DOMAIN s.rules \ unused
        <4> HIDE DEF X, U
        <4>1. all \in Seq(X)
          BY <3>5 DEF X
        <4>2. only(all, U) \in Seq(X) /\ Range(only(all, U)) = Range(all) \cap U
          BY <4>1, OnlyRange
        <4> QED
          BY <3>5, <4>2 DEF X, U
      <3> HIDE DEF used
      <3>7. usedRules(s, reachRules(s, list)) \subseteq DOMAIN s.rules
        <4>1. s.rules \in Seq(Range(s.rules))
          BY <3>2 DEF IsSetting
        <4> QED
          BY <4>1, DroppedByOne DEF usedRules
      <3>8. usedRules(s, reachRules(s, list)) \cap unused = {}
        BY DEF unusedRules, unused
      <3>9. usedRules(s, reachRules(s, list)) \subseteq Range(used)
        BY <3>6, <3>7, <3>8
      <3> QED
        BY <3>2, <3>4, <3>6, <3>9, UsedRulesSuffice
    <2> QED
      BY <2>1, <2>2
  <1> QED
    BY <1>1, VetInvHolds, PTL

====
