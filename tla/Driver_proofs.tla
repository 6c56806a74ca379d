---- MODULE Driver_proofs ----
(***************************************************************************)
(* What the passes of a run promise, for every graph of packages and every *)
(* list of rules: they never disturb the names each other reads, always    *)
(* have a module to resolve them in, and learn of the functions they call  *)
(* what is so; what they analyze is all of the project; and what failed is *)
(* told, whoever waited on it.                                             *)
(*                                                                         *)
(* The first invariant follows a pass through its rules: the lists behind  *)
(* its place are resolved, the one it is in is resolved up to its element, *)
(* and the arrays of the rules are as they were compiled.  A step of one   *)
(* pass writes to an array of its own, so it leaves what is said of the    *)
(* others.  What is said of what a package sees, or tells, goes from the   *)
(* packages it imports to it, since none imports itself.                   *)
(***************************************************************************)
EXTENDS Driver, FiniteSetTheorems, TLAPS

\* The rules have the arrays they were compiled with.
RulesKept == \A k \in DOMAIN run.rules, f \in DOMAIN Field :
    /\ ruleArray(k, f) \in DOMAIN heap
    /\ heap[ruleArray(k, f)] = run.rules[k][Field[f]]

\* The list f of the rule k, resolved up to its element i.
UpTo(list, module, i) == [j \in 1 .. Len(list) |->
    IF j < i THEN sideWithin(list[j], module) ELSE list[j]]
Partly(p, k, f, i) == UpTo(Original(p, k, f), run.packages[p].module, i)

\* Whether a place is past the list f of the rule k, or in it.
Behind(at, k, f) == k < at.k \/ (k = at.k /\ f < at.f)
Within(at, k, f) == k = at.k /\ f = at.f

Resolved(p) ==
    LET at == passes[p].at
    IN  \A k \in rulesOf(p), f \in DOMAIN Field :
            /\ Behind(at, k, f) => /\ clone(p, k, f) \in DOMAIN heap
                                   /\ heap[clone(p, k, f)] = Own(p, k, f)
            /\ Within(at, k, f) => /\ clone(p, k, f) \in DOMAIN heap
                                   /\ heap[clone(p, k, f)] = Partly(p, k, f, at.i)

PassInv(p) ==
    /\ DOMAIN passes[p] = {"stage", "at", "error", "facts"}
    /\ passes[p].at \in [k : Nat \ {0}, f : 0 .. 3, i : Nat \ {0}]
    /\ passes[p].stage = "done" => passes[p].at.k > Len(run.rules)
    /\ Resolved(p)

PassesInv ==
    /\ run \in Runs
    /\ DOMAIN passes = Packages
    /\ RulesKept
    /\ \A p \in Packages : PassInv(p)

---------------------------------------------------------------------------
(* Lists.                                                                  *)

\* What holds of 0, and of the next number where it holds of one, holds of all.
LEMMA SetInduction ==
    ASSUME NEW S, 0 \in S, \A n \in Nat : n \in S => n + 1 \in S
    PROVE  Nat \subseteq S
  <1> DEFINE R == OpToRel(<, Nat)
             T == Nat \ S
  <1> SUFFICES ASSUME T # {} PROVE FALSE
    OBVIOUS
  <1>1. \A m, n \in Nat : m < n => <<m, n>> \in R
    BY DEF OpToRel
  <1>2. IsWellFoundedOn(R, Nat)
    BY NatLessThanWellFounded
  <1> HIDE DEF R
  <1>3. PICK n \in T : \A m \in T : <<m, n>> \notin R
    BY <1>2, WFMin
  <1>4. n # 0 /\ n \in Nat
    OBVIOUS
  <1>5. n - 1 \in Nat /\ n - 1 < n /\ (n - 1) + 1 = n
    BY <1>4
  <1>6. n - 1 \in T
    BY <1>4, <1>5
  <1> QED
    BY <1>1, <1>3, <1>4, <1>5, <1>6

\* A set of numbers that has one has a least.
LEMMA LeastOf ==
    ASSUME NEW S \in SUBSET Nat, S # {}
    PROVE  Min(S) \in S /\ \A m \in S : Min(S) <= m
  <1> DEFINE R == OpToRel(<, Nat)
  <1>1. \A m, n \in Nat : m < n => <<m, n>> \in R
    BY DEF OpToRel
  <1>2. IsWellFoundedOn(R, Nat)
    BY NatLessThanWellFounded
  <1> HIDE DEF R
  <1>3. PICK n \in S : \A m \in S : <<m, n>> \notin R
    BY <1>2, WFMin
  <1>4. ASSUME NEW m \in S PROVE n <= m
    <2>1. m \in Nat /\ n \in Nat /\ ~(m < n)
      BY <1>1, <1>3
    <2> QED
      BY <2>1
  <1> QED
    BY <1>4 DEF Min

\* The steps r of a function from a base, as far as m.
Leads(r, m, S, base, step) ==
    /\ r \in [0..m -> S] /\ r[0] = base
    /\ \A n \in 1..m : r[n] = step[<<n, r[n - 1]>>]

\* Steps taken one after the other lead somewhere, any number of them.
LEMMA StepsLead ==
    ASSUME NEW S, NEW base \in S, NEW step \in [Nat \X S -> S]
    PROVE  \A m \in Nat : \E r : Leads(r, m, S, base, step)
  <1> DEFINE T == {m \in Nat : \E r : Leads(r, m, S, base, step)}
  <1>1. 0 \in T
    <2> DEFINE r == [n \in 0..0 |-> base]
    <2>1. Leads(r, 0, S, base, step)
      BY DEF Leads
    <2> QED
      BY <2>1
  <1>2. ASSUME NEW m \in Nat, m \in T
        PROVE  m + 1 \in T
    <2>1. PICK before : Leads(before, m, S, base, step)
      BY <1>2
    <2> DEFINE last == step[<<m + 1, before[m]>>]
               r == [n \in 0..(m + 1) |-> IF n = m + 1 THEN last ELSE before[n]]
    <2>2. before[m] \in S /\ <<m + 1, before[m]>> \in Nat \X S /\ last \in S
      BY <2>1 DEF Leads
    <2> HIDE DEF last
    <2>3. r \in [0..(m + 1) -> S] /\ r[0] = base
      BY <2>1, <2>2 DEF Leads
    <2>4. ASSUME NEW n \in 1..(m + 1)
          PROVE  r[n] = step[<<n, r[n - 1]>>]
      <3>1. CASE n = m + 1
        <4>1. r[n] = last /\ r[n - 1] = before[m]
          BY <3>1
        <4> QED
          BY <3>1, <4>1 DEF last
      <3>2. CASE n # m + 1
        <4>1. n \in 1..m /\ r[n] = before[n] /\ r[n - 1] = before[n - 1]
          BY <3>2
        <4> QED
          BY <2>1, <4>1 DEF Leads
      <3> QED
        BY <3>1, <3>2
    <2> HIDE DEF r
    <2>5. Leads(r, m + 1, S, base, step)
      BY <2>3, <2>4 DEF Leads
    <2> QED
      BY <2>5
  <1> HIDE DEF T
  <1>3. Nat \subseteq T
    BY <1>1, <1>2, SetInduction
  <1> QED
    BY <1>3 DEF T

\* What an element adds to those of a set before it.
taking(list, set, n, before) == IF list[n] \in set THEN Append(before, list[n]) ELSE before

\* onlyAmong takes the elements one after the other.
LEMMA OnlySteps ==
    ASSUME NEW list, IsList(list), NEW set
    PROVE  /\ onlyAmong(list, set) \in [0..Len(list) -> Seq(Range(list))]
           /\ onlyAmong(list, set)[0] = <<>>
           /\ \A n \in 1..Len(list) :
                onlyAmong(list, set)[n] = taking(list, set, n, onlyAmong(list, set)[n - 1])
  <1> DEFINE m == Len(list)
             S == Seq(Range(list))
             IsOnly(r) ==
               r = [n \in 0..m |-> IF n = 0 THEN <<>> ELSE taking(list, set, n, r[n - 1])]
             step == [a \in Nat \X S |->
                        IF a[1] \in 1..m THEN taking(list, set, a[1], a[2]) ELSE a[2]]
             r == CHOOSE r : IsOnly(r)
  <1>1. m \in Nat /\ \A n \in 1..m : list[n] \in Range(list)
    BY DEF IsList, Range
  <1>2. onlyAmong(list, set) = r
    BY DEF onlyAmong, taking
  <1> HIDE DEF m
  <1>3. <<>> \in S /\ \A n \in 1..m : \A b \in S : taking(list, set, n, b) \in S
    BY <1>1 DEF taking
  <1> HIDE DEF S
  <1>4. step \in [Nat \X S -> S]
    BY <1>3
  <1>5. \A n \in 1..m : n \in Nat /\ n - 1 \in 0..m
    BY <1>1
  <1>6. \A n \in 1..m : \A b \in S : step[<<n, b>>] = taking(list, set, n, b)
    BY <1>5
  <1> HIDE DEF step
  <1>7. PICK q : Leads(q, m, S, <<>>, step)
    <2> DEFINE base == <<>>
    <2>1. base \in S
      BY <1>3
    <2> HIDE DEF base
    <2>2. \A k \in Nat : \E q : Leads(q, k, S, base, step)
      BY <1>4, <2>1, StepsLead
    <2> QED
      BY <1>1, <2>2 DEF base
  <1>8. q \in [0..m -> S] /\ q[0] = <<>> /\ \A n \in 1..m : q[n] = step[<<n, q[n - 1]>>]
    BY <1>7 DEF Leads
  <1>9. \A n \in 1..m : q[n] = taking(list, set, n, q[n - 1])
    BY <1>5, <1>6, <1>8
  <1>10. \A n \in 0..m : n # 0 => n \in 1..m
    BY <1>1
  <1>11. IsOnly(q)
    BY <1>8, <1>9, <1>10
  <1>12. IsOnly(r)
    BY <1>11
  <1> HIDE DEF r
  <1>13. 0 \in 0..m /\ \A n \in 1..m : n \in 0..m /\ n # 0
    BY <1>1
  <1>14. r[0] = <<>> /\ \A n \in 1..m : r[n] = taking(list, set, n, r[n - 1])
    BY <1>12, <1>13
  <1>15. DOMAIN r = 0..m /\ r = [n \in 0..m |-> r[n]]
    BY <1>12
  <1> DEFINE T == {n \in Nat : n <= m => r[n] \in S}
  <1> HIDE DEF IsOnly
  <1>16. 0 \in T
    BY <1>3, <1>14
  <1>17. ASSUME NEW n \in Nat, n \in T PROVE n + 1 \in T
    <2> SUFFICES ASSUME n + 1 <= m PROVE r[n + 1] \in S
      OBVIOUS
    <2>1. n + 1 \in 1..m /\ (n + 1) - 1 = n /\ r[n] \in S
      BY <1>1, <1>17
    <2> QED
      BY <1>3, <1>14, <2>1
  <1> HIDE DEF T
  <1>18. Nat \subseteq T
    BY <1>16, <1>17, SetInduction
  <1>19. \A n \in 0..m : r[n] \in S
    BY <1>1, <1>18 DEF T
  <1>20. r \in [0..m -> S]
    BY <1>15, <1>19
  <1> QED
    BY <1>2, <1>14, <1>20 DEF m, S

\* What an element more holds.
LEMMA RangeMore ==
    ASSUME NEW X, NEW s \in Seq(X), NEW e \in X
    PROVE  Range(Append(s, e)) = Range(s) \cup {e}
  <1>1. /\ Len(s) \in Nat /\ DOMAIN s = 1..Len(s) /\ DOMAIN Append(s, e) = 1..(Len(s) + 1)
        /\ \A n \in 1..Len(s) : Append(s, e)[n] = s[n]
        /\ Append(s, e)[Len(s) + 1] = e
    OBVIOUS
  <1>2. \A n \in 1..(Len(s) + 1) : n \in 1..Len(s) \/ n = Len(s) + 1
    BY <1>1
  <1>3. \A n \in 1..Len(s) : n \in 1..(Len(s) + 1)
    BY <1>1
  <1>4. Len(s) + 1 \in 1..(Len(s) + 1)
    BY <1>1
  <1> HIDE DEF Range
  <1>5. Range(Append(s, e)) \subseteq Range(s) \cup {e}
    BY <1>1, <1>2 DEF Range
  <1>6. Range(s) \subseteq Range(Append(s, e)) /\ e \in Range(Append(s, e))
    BY <1>1, <1>3, <1>4 DEF Range
  <1> QED
    BY <1>5, <1>6

\* It takes the elements of the set, and no other.
LEMMA OnlyRange ==
    ASSUME NEW list, IsList(list), NEW set
    PROVE  only(list, set) \in Seq(Range(list)) /\ Range(only(list, set)) = Range(list) \cap set
  <1> DEFINE m == Len(list)
             X == Range(list)
             r == onlyAmong(list, set)
             met(n) == {list[k] : k \in 1..n}
             T == {n \in Nat : n <= m => Range(r[n]) = met(n) \cap set}
  <1>1. /\ r \in [0..m -> Seq(X)]
        /\ r[0] = <<>> /\ \A n \in 1..m : r[n] = taking(list, set, n, r[n - 1])
    BY OnlySteps
  <1>2. m \in Nat /\ (\A n \in 1..m : list[n] \in X) /\ X = met(m)
    BY DEF IsList, Range
  <1>3. only(list, set) = r[m]
    BY DEF only
  <1> HIDE DEF r, m, X
  <1>4. 0 \in T
    <2>1. Range(<<>>) = {} /\ met(0) = {}
      BY DEF Range
    <2> HIDE DEF met
    <2> QED
      BY <1>1, <2>1
  <1>5. ASSUME NEW n \in Nat, n \in T PROVE n + 1 \in T
    <2> SUFFICES ASSUME n + 1 <= m PROVE Range(r[n + 1]) = met(n + 1) \cap set
      OBVIOUS
    <2> DEFINE e == list[n + 1]
    <2>1. n \in 0..m /\ n + 1 \in 1..m /\ (n + 1) - 1 = n
      BY <1>2
    <2>2. Range(r[n]) = met(n) \cap set
      BY <1>5, <2>1
    <2>3. r[n + 1] = taking(list, set, n + 1, r[n]) /\ r[n] \in Seq(X) /\ e \in X
      BY <1>1, <1>2, <2>1
    <2>4. met(n + 1) = met(n) \cup {e}
      <3>1. 1..(n + 1) = 1..n \cup {n + 1}
        OBVIOUS
      <3> QED
        BY <3>1
    <2>5. Range(Append(r[n], e)) = Range(r[n]) \cup {e}
      <3> HIDE DEF e
      <3> QED
        BY <2>3, RangeMore
    <2> HIDE DEF met
    <2> QED
      BY <2>2, <2>3, <2>4, <2>5 DEF taking
  <1> HIDE DEF T
  <1>6. m \in T /\ m \in 0..m
    BY <1>2, <1>4, <1>5, SetInduction
  <1>7. Range(r[m]) = met(m) \cap set
    BY <1>2, <1>6 DEF T
  <1> QED
    BY <1>1, <1>2, <1>3, <1>6, <1>7 DEF X

\* absoluteFailures keeps none that is relative to the module.
LEMMA AbsoluteOnly ==
    ASSUME NEW failures, IsList(failures),
           NEW i \in 1 .. Len(absoluteFailures(failures))
    PROVE  ~relative(absoluteFailures(failures)[i].name)
  <1> DEFINE s == absoluteFailures(failures)
             K == {f \in Range(failures) : ~relative(f.name)}
  <1>1. s = only(failures, K)
    BY DEF absoluteFailures
  <1> HIDE DEF K
  <1>2. only(failures, K) \in Seq(Range(failures))
        /\ Range(only(failures, K)) = Range(failures) \cap K
    BY OnlyRange
  <1> HIDE DEF s
  <1>3. s \in Seq(Range(failures)) /\ Range(s) \subseteq K
    BY <1>1, <1>2
  <1>4. i \in DOMAIN s
    BY <1>3 DEF s
  <1>5. s[i] \in K
    BY <1>3, <1>4 DEF Range
  <1> QED
    BY <1>5 DEF K, s

\* A finite set in some order.
LEMMA EachInOrder ==
    ASSUME NEW S, IsFiniteSet(S)
    PROVE  /\ Cardinality(S) \in Nat
           /\ SetToSeq(S) \in [1..Cardinality(S) -> S] /\ IsInjective(SetToSeq(S))
           /\ S = {SetToSeq(S)[i] : i \in 1..Cardinality(S)}
  <1> DEFINE n == Cardinality(S)
             g == SetToSeq(S)
  <1>1. n \in Nat /\ Bijection(1..n, S) # {}
    BY FS_CardinalityType DEF ExistsBijection
  <1>2. \E f \in [1..n -> S] : IsInjective(f)
    BY <1>1 DEF Bijection, Injection
  <1>3. g \in [1..n -> S] /\ IsInjective(g)
    BY <1>2 DEF SetToSeq
  <1> HIDE DEF g
  <1>4. IsFiniteSet(1..n) /\ Cardinality(1..n) = n
    <2>1. IsFiniteSet(1..n) /\ Cardinality(1..n) = IF 1 > n THEN 0 ELSE n - 1 + 1
      BY <1>1, FS_Interval
    <2> HIDE DEF n
    <2> QED
      BY <1>1, <2>1
  <1>5. g \in Surjection(1..n, S)
    <2>1. g \in Injection(1..n, S)
      BY <1>3 DEF Injection
    <2> QED
      BY <1>4, <2>1, FS_Injection
  <1>6. \A e \in S : \E i \in 1..n : g[i] = e
    BY <1>5 DEF Surjection
  <1> QED
    BY <1>1, <1>3, <1>6 DEF g

\* The list of nothing.
LEMMA EmptyRange ==
    ASSUME NEW X, NEW s \in Seq(X)
    PROVE  s = <<>> <=> Range(s) = {}
  <1>1. Range(<<>>) = {}
    BY DEF Range
  <1>2. ASSUME Range(s) = {}
        PROVE  s = <<>>
    <2>1. Len(s) \in Nat /\ DOMAIN s = 1..Len(s)
      OBVIOUS
    <2>2. DOMAIN s = {}
      BY <1>2 DEF Range
    <2>3. Len(s) = 0
      BY <2>1, <2>2
    <2> QED
      BY <2>3
  <1> QED
    BY <1>1, <1>2

\* One list after another, which share nothing.
LEMMA Joined ==
    ASSUME NEW X, NEW s \in Seq(X), NEW t \in Seq(X), IsInjective(s), IsInjective(t),
           Range(s) \cap Range(t) = {}
    PROVE  s \o t \in Seq(X) /\ IsInjective(s \o t) /\ Range(s \o t) = Range(s) \cup Range(t)
  <1> DEFINE m == Len(s)
             n == Len(t)
             r == s \o t
  <1>1. /\ m \in Nat /\ n \in Nat /\ r \in Seq(X) /\ Len(r) = m + n
        /\ DOMAIN s = 1..m /\ DOMAIN t = 1..n /\ DOMAIN r = 1..(m + n)
        /\ \A i \in 1..m : r[i] = s[i]
        /\ \A i \in 1..n : r[m + i] = t[i]
    OBVIOUS
  <1> HIDE DEF m, n, r
  <1>2. \A i \in 1..(m + n) : i \in 1..m \/ (i - m \in 1..n /\ m + (i - m) = i)
    BY <1>1
  <1>3. \A i \in 1..m : i \in 1..(m + n) /\ r[i] \in Range(s)
    BY <1>1 DEF Range
  <1>4. \A i \in 1..n : m + i \in 1..(m + n) /\ r[m + i] \in Range(t)
    <2>1. \A i \in 1..n : m + i \in 1..(m + n)
      BY <1>1
    <2>2. \A i \in 1..n : t[i] \in Range(t)
      BY <1>1 DEF Range
    <2> QED
      BY <1>1, <2>1, <2>2
  <1>5. Range(r) \subseteq Range(s) \cup Range(t)
    <2>1. \A i \in 1..(m + n) : r[i] \in Range(s) \cup Range(t)
      BY <1>2, <1>3, <1>4
    <2> QED
      BY <1>1, <2>1 DEF Range
  <1>6. Range(s) \cup Range(t) \subseteq Range(r)
    <2>1. /\ \A i \in 1..m : s[i] \in {r[j] : j \in 1..(m + n)}
          /\ \A i \in 1..n : t[i] \in {r[j] : j \in 1..(m + n)}
      BY <1>1, <1>3, <1>4
    <2>2. Range(r) = {r[j] : j \in 1..(m + n)}
      BY <1>1 DEF Range
    <2>3. Range(s) = {s[i] : i \in 1..m} /\ Range(t) = {t[i] : i \in 1..n}
      BY <1>1 DEF Range
    <2> QED
      BY <2>1, <2>2, <2>3
  <1>7. ASSUME NEW i \in 1..(m + n), NEW j \in 1..(m + n), r[i] = r[j]
        PROVE  i = j
    <2>1. CASE i \in 1..m /\ j \in 1..m
      BY <1>1, <1>7, <2>1 DEF IsInjective
    <2>2. CASE i \notin 1..m /\ j \notin 1..m
      <3>1. /\ i - m \in 1..n /\ m + (i - m) = i
            /\ j - m \in 1..n /\ m + (j - m) = j
        BY <1>2, <2>2
      <3>2. t[i - m] = t[j - m]
        BY <1>1, <1>7, <3>1
      <3>3. i - m = j - m
        BY <1>1, <3>1, <3>2 DEF IsInjective
      <3> QED
        BY <3>1, <3>3
    <2>3. CASE i \in 1..m /\ j \notin 1..m
      <3>1. r[i] \in Range(s) /\ r[j] \in Range(t)
        BY <1>2, <1>3, <1>4, <2>3
      <3> QED
        BY <1>7, <3>1
    <2>4. CASE i \notin 1..m /\ j \in 1..m
      <3>1. r[j] \in Range(s) /\ r[i] \in Range(t)
        BY <1>2, <1>3, <1>4, <2>4
      <3> QED
        BY <1>7, <3>1
    <2> QED
      BY <2>1, <2>2, <2>3, <2>4
  <1>8. IsInjective(r)
    BY <1>1, <1>7 DEF IsInjective
  <1> QED
    BY <1>1, <1>5, <1>6, <1>8 DEF r

\* What a set adds to what is in those before it.
adding(sets, n, before) == before \o SetToSeq(sets[n] \ Range(before))

LEMMA Adds ==
    ASSUME NEW X, NEW sets, NEW n, sets[n] \subseteq X, IsFiniteSet(sets[n]),
           NEW b \in Seq(X), IsInjective(b)
    PROVE  /\ adding(sets, n, b) \in Seq(X) /\ IsInjective(adding(sets, n, b))
           /\ Range(adding(sets, n, b)) = Range(b) \cup sets[n]
  <1> DEFINE D == sets[n] \ Range(b)
             t == SetToSeq(D)
             m == Cardinality(D)
  <1>1. IsFiniteSet(D) /\ D \subseteq X
    BY FS_Subset
  <1> HIDE DEF D
  <1>2. m \in Nat /\ t \in [1..m -> D] /\ IsInjective(t) /\ D = {t[i] : i \in 1..m}
    BY <1>1, EachInOrder
  <1> HIDE DEF t, m
  <1>3. t \in Seq(X) /\ Range(t) = D
    BY <1>1, <1>2 DEF Range
  <1>4. Range(b) \cap Range(t) = {}
    BY <1>3 DEF D
  <1>5. b \o t \in Seq(X) /\ IsInjective(b \o t) /\ Range(b \o t) = Range(b) \cup Range(t)
    BY <1>2, <1>3, <1>4, Joined
  <1> QED
    BY <1>3, <1>5 DEF adding, t, D

\* once has what is in the sets, each once.
LEMMA OnceHolds ==
    ASSUME NEW X, NEW sets, IsList(sets),
           \A n \in 1..Len(sets) : sets[n] \subseteq X /\ IsFiniteSet(sets[n])
    PROVE  /\ once(sets) \in Seq(X) /\ IsInjective(once(sets))
           /\ Range(once(sets)) = UNION {sets[n] : n \in 1..Len(sets)}
  <1> DEFINE m == Len(sets)
             S == {s \in Seq(X) : IsInjective(s)}
             IsOnce(r) ==
               r = [n \in 0..m |-> IF n = 0 THEN <<>> ELSE adding(sets, n, r[n - 1])]
             step == [a \in Nat \X S |-> IF a[1] \in 1..m THEN adding(sets, a[1], a[2]) ELSE a[2]]
             r == CHOOSE r : IsOnce(r)
  <1>1. m \in Nat
    BY DEF IsList
  <1>2. once(sets) = r[m]
    BY DEF once, onceAmong, adding
  <1>3. \A n \in 1..m : \A b \in S :
          adding(sets, n, b) \in S /\ Range(adding(sets, n, b)) = Range(b) \cup sets[n]
    BY Adds
  <1> HIDE DEF m
  <1>4. <<>> \in S
    BY DEF IsInjective
  <1>5. S \subseteq Seq(X) /\ \A s \in S : IsInjective(s)
    OBVIOUS
  <1> HIDE DEF S
  <1>6. step \in [Nat \X S -> S]
    BY <1>3
  <1>7. \A n \in 1..m : n \in Nat /\ n - 1 \in 0..m
    BY <1>1
  <1>8. \A n \in 1..m : \A b \in S : step[<<n, b>>] = adding(sets, n, b)
    BY <1>7
  <1> HIDE DEF step
  <1>9. PICK q : Leads(q, m, S, <<>>, step)
    <2> DEFINE base == <<>>
    <2>1. base \in S
      BY <1>4
    <2> HIDE DEF base
    <2>2. \A k \in Nat : \E q : Leads(q, k, S, base, step)
      BY <1>6, <2>1, StepsLead
    <2> QED
      BY <1>1, <2>2 DEF base
  <1>10. q \in [0..m -> S] /\ q[0] = <<>> /\ \A n \in 1..m : q[n] = step[<<n, q[n - 1]>>]
    BY <1>9 DEF Leads
  <1>11. \A n \in 1..m : q[n] = adding(sets, n, q[n - 1])
    BY <1>7, <1>8, <1>10
  <1>12. \A n \in 0..m : n # 0 => n \in 1..m
    BY <1>1
  <1>13. IsOnce(q)
    BY <1>10, <1>11, <1>12
  <1>14. IsOnce(r)
    BY <1>13
  <1> HIDE DEF r
  <1>15. 0 \in 0..m /\ \A n \in 1..m : n \in 0..m /\ n # 0
    BY <1>1
  <1>16. r[0] = <<>> /\ \A n \in 1..m : r[n] = adding(sets, n, r[n - 1])
    BY <1>14, <1>15
  <1> DEFINE M(n) == UNION {sets[i] : i \in 1..n}
             T == {n \in Nat : n <= m => r[n] \in S /\ Range(r[n]) = M(n)}
  <1> HIDE DEF IsOnce
  <1>17. 0 \in T
    <2>1. Range(<<>>) = {} /\ M(0) = {}
      BY DEF Range
    <2> HIDE DEF M
    <2> QED
      BY <1>4, <1>16, <2>1
  <1>18. ASSUME NEW n \in Nat, n \in T PROVE n + 1 \in T
    <2> SUFFICES ASSUME n + 1 <= m PROVE r[n + 1] \in S /\ Range(r[n + 1]) = M(n + 1)
      OBVIOUS
    <2>1. n + 1 \in 1..m /\ (n + 1) - 1 = n
      BY <1>1
    <2>2. M(n + 1) = M(n) \cup sets[n + 1]
      <3>1. 1..(n + 1) = 1..n \cup {n + 1}
        OBVIOUS
      <3> QED
        BY <3>1
    <2> HIDE DEF M
    <2>3. r[n] \in S /\ Range(r[n]) = M(n)
      BY <1>1, <1>18, <2>1
    <2>4. r[n + 1] = adding(sets, n + 1, r[n])
      BY <1>16, <2>1
    <2> QED
      BY <1>3, <2>1, <2>2, <2>3, <2>4
  <1> HIDE DEF T
  <1>19. m \in T
    BY <1>1, <1>17, <1>18, SetInduction
  <1>20. r[m] \in S /\ Range(r[m]) = M(m)
    <2> HIDE DEF M
    <2> QED
      BY <1>1, <1>19 DEF T
  <1> QED
    BY <1>2, <1>5, <1>20 DEF m

\* A list that has each of its elements once has as many.
LEMMA AsManyAs ==
    ASSUME NEW X, NEW s \in Seq(X), IsInjective(s)
    PROVE  Len(s) = Cardinality(Range(s))
  <1>1. Len(s) \in Nat /\ DOMAIN s = 1..Len(s)
    OBVIOUS
  <1>2. s \in Bijection(1..Len(s), Range(s))
    BY <1>1 DEF Bijection, Injection, Surjection, Range
  <1> QED
    BY <1>1, <1>2, FS_CountingElements DEF ExistsBijection

---------------------------------------------------------------------------
(* What is said of a package in the terms of those it imports.             *)

\* No package imports itself, at any remove.
Acyclic(P, imports) ==
    /\ IsFiniteSet(P) /\ imports \in [P -> SUBSET P]
    /\ \A set \in SUBSET P : set # {} => \E p \in set : imports[p] \cap set = {}

\* What holds of a package once it holds of those it imports holds of all.
LEMMA ImportInduction ==
    ASSUME NEW P, NEW imports, Acyclic(P, imports), NEW T,
           \A p \in P : imports[p] \subseteq T => p \in T
    PROVE  P \subseteq T
  <1> SUFFICES ASSUME P \ T # {} PROVE FALSE
    OBVIOUS
  <1>1. PICK p \in P \ T : imports[p] \cap (P \ T) = {}
    BY DEF Acyclic
  <1>2. imports[p] \subseteq T
    BY <1>1 DEF Acyclic
  <1> QED
    BY <1>1, <1>2

\* f follows the steps on D, with all it imports.
Follows(f, D, P, imports, S, step) ==
    /\ f \in [P -> S] /\ D \subseteq P
    /\ \A p \in D : imports[p] \subseteq D /\ f[p] = step[<<p, f>>]

\* A step makes something of a package, of what was made of its imports.
ReadsImports(step, P, imports, S) ==
    /\ step \in [P \X [P -> S] -> S]
    /\ \A p \in P : \A f, g \in [P -> S] :
          (\A q \in imports[p] : f[q] = g[q]) => step[<<p, f>>] = step[<<p, g>>]

\* What a step makes of a package of what was made of those it imports is
\* made of them all.
LEMMA ImportsLead ==
    ASSUME NEW P, NEW imports, Acyclic(P, imports), NEW S, S # {},
           NEW step, ReadsImports(step, P, imports, S)
    PROVE  \E f : Follows(f, P, P, imports, S, step)
  <1> DEFINE Good(D) == \E f : Follows(f, D, P, imports, S, step)
             Left == {n \in Nat : \E D \in SUBSET P : Good(D) /\ Cardinality(P \ D) = n}
  <1>1. \A D \in SUBSET P : IsFiniteSet(P \ D) /\ Cardinality(P \ D) \in Nat
    BY FS_Subset, FS_CardinalityType DEF Acyclic
  <1>2. Left # {}
    <2>1. PICK e \in S : TRUE
      OBVIOUS
    <2>2. Follows([p \in P |-> e], {}, P, imports, S, step)
      BY DEF Follows
    <2>3. Good({})
      BY <2>2
    <2> QED
      BY <1>1, <2>3
  <1>3. PICK n \in Left : \A m \in Left : n <= m
    <2> HIDE DEF Left
    <2>1. Left \in SUBSET Nat
      BY DEF Left
    <2> QED
      BY <1>2, <2>1, LeastOf
  <1>4. PICK D \in SUBSET P : Good(D) /\ Cardinality(P \ D) = n
    OBVIOUS
  <1>5. PICK f : Follows(f, D, P, imports, S, step)
    BY <1>4
  <1>6. D = P
    <2> SUFFICES ASSUME P \ D # {} PROVE FALSE
      OBVIOUS
    <2>1. PICK p \in P \ D : imports[p] \cap (P \ D) = {}
      BY DEF Acyclic
    <2> DEFINE E == D \cup {p}
               g == [f EXCEPT ![p] = step[<<p, f>>]]
    <2>2. f \in [P -> S] /\ imports[p] \subseteq D
      BY <1>5, <2>1 DEF Follows, Acyclic
    <2>3. g \in [P -> S] /\ g[p] = step[<<p, f>>] /\ \A q \in D : g[q] = f[q]
      BY <2>1, <2>2 DEF ReadsImports
    <2>4. \A q \in E : imports[q] \subseteq D
      BY <1>5, <2>2 DEF Follows
    <2> HIDE DEF g
    <2>5. \A q \in E : step[<<q, g>>] = step[<<q, f>>]
      <3>1. E \subseteq P
        BY <2>1
      <3>2. \A q \in E : \A x \in imports[q] : g[x] = f[x]
        BY <2>3, <2>4
      <3> HIDE DEF E
      <3> QED
        BY <2>2, <2>3, <3>1, <3>2 DEF ReadsImports
    <2>6. Follows(g, E, P, imports, S, step)
      BY <1>5, <2>3, <2>4, <2>5 DEF Follows
    <2>7. Good(E) /\ E \in SUBSET P
      BY <2>6 DEF Follows
    <2>8. P \ E = (P \ D) \ {p} /\ p \in P \ D
      OBVIOUS
    <2>9. Cardinality(P \ E) = Cardinality(P \ D) - 1
      <3> DEFINE rest == P \ D
      <3>1. IsFiniteSet(rest) /\ p \in rest /\ P \ E = rest \ {p}
        BY <1>1, <2>8
      <3> HIDE DEF rest, E
      <3>2. Cardinality(rest \ {p}) = Cardinality(rest) - 1
        BY <3>1, FS_RemoveElement
      <3> QED
        BY <3>1, <3>2 DEF rest
    <2>10. Cardinality(P \ E) \in Left
      BY <1>1, <2>7
    <2>11. n <= Cardinality(P \ E) /\ Cardinality(P \ D) = n /\ n \in Nat
      <3>1. n \in Left /\ n \in Nat
        BY <1>1, <1>4
      <3> HIDE DEF Left, Good, E
      <3> QED
        BY <1>3, <1>4, <2>10, <3>1
    <2> HIDE DEF Good, E
    <2> QED
      BY <2>9, <2>11
  <1> QED
    BY <1>5, <1>6

---------------------------------------------------------------------------
\* The lists have numbers, and each pass arrays of its own.
LEMMA Arrays ==
    /\ DOMAIN Field = 1 .. 3 /\ Len(Field) = 3
    /\ Field[1] = "satisfiers" /\ Field[2] = "failures" /\ Field[3] = "implementations"
    /\ \A p, k, l, f, g : clone(p, k, f) # ruleArray(l, g)
    /\ \A p, q, k, l, f, g : clone(p, k, f) = clone(q, l, g) => p = q /\ k = l
    /\ \A p, k : \A f, g \in 1 .. 3 : clone(p, k, f) = clone(p, k, g) => f = g
  BY DEF Field, clone, ruleArray, passArray

\* What the assumption on the runs says of the one chosen.
LEMMA RunShape ==
    ASSUME run \in Runs
    PROVE  /\ Len(run.rules) \in Nat /\ DOMAIN run.rules = 1 .. Len(run.rules)
           /\ \A k \in DOMAIN run.rules : k \in Nat \ {0}
           /\ \A k \in DOMAIN run.rules, f \in 1 .. 3 :
                /\ IsList(run.rules[k][Field[f]])
                /\ \A i \in DOMAIN run.rules[k][Field[f]] :
                      IsSide(run.rules[k][Field[f]][i], run.packages)
           /\ \A p \in Packages :
                /\ ImportsOf(p) \subseteq Packages
                /\ run.packages[p].developed => run.packages[p].module # NoModule
  <1>1. Len(run.rules) \in Nat /\ DOMAIN run.rules = 1 .. Len(run.rules)
    BY RunsAssumption DEF IsList
  <1>2. ASSUME NEW k \in DOMAIN run.rules, NEW f \in 1 .. 3
        PROVE  /\ IsList(run.rules[k][Field[f]])
               /\ \A i \in DOMAIN run.rules[k][Field[f]] :
                     IsSide(run.rules[k][Field[f]][i], run.packages)
    <2>1. run.rules[k][Field[f]] \in
            {run.rules[k].satisfiers, run.rules[k].failures, run.rules[k].implementations}
      BY Arrays
    <2> QED
      BY <2>1, RunsAssumption
  <1>3. \A p \in Packages :
           /\ ImportsOf(p) \subseteq Packages
           /\ run.packages[p].developed => run.packages[p].module # NoModule
    BY RunsAssumption DEF Packages, ImportsOf
  <1> QED
    BY <1>1, <1>2, <1>3

\* A step that changes one pass and its own arrays leaves what is said of the
\* rules and of the other passes.
LEMMA OthersKept ==
    ASSUME PassesInv, NEW p, run' = run,
           \A q \in Packages \ {p} : passes'[q] = passes[q],
           \A array \in DOMAIN heap :
              (\A k, f : array # clone(p, k, f)) =>
                 array \in DOMAIN heap' /\ heap'[array] = heap[array]
    PROVE  RulesKept' /\ \A q \in Packages \ {p} : PassInv(q)'
  <1>1. RulesKept'
    BY Arrays DEF PassesInv, RulesKept
  <1>2. ASSUME NEW q \in Packages \ {p}
        PROVE  PassInv(q)'
    <2>1. /\ PassInv(q) /\ passes'[q] = passes[q] /\ rulesOf(q)' = rulesOf(q)
      BY <1>2 DEF PassesInv, rulesOf
    <2>2. \A k, f : clone(q, k, f) \in DOMAIN heap =>
             clone(q, k, f) \in DOMAIN heap' /\ heap'[clone(q, k, f)] = heap[clone(q, k, f)]
      BY <1>2, Arrays
    <2>3. \A k, f : Own(q, k, f)' = Own(q, k, f) /\ \A i : Partly(q, k, f, i)' = Partly(q, k, f, i)
      BY DEF Own, Partly, UpTo, Original, leavesOut
    <2>4. Resolved(q)'
      BY <2>1, <2>2, <2>3 DEF PassInv, Resolved, Behind, Within, clone, passArray
    <2> QED
      BY <2>1, <2>4 DEF PassInv
  <1> QED
    BY <1>1, <1>2

\* A step that leaves the arrays, and the place of the pass, keeps the rest.
LEMMA PlaceKept ==
    ASSUME PassesInv, NEW p \in Packages, run' = run, heap' = heap,
           DOMAIN passes'[p] = {"stage", "at", "error", "facts"},
           passes'[p].at = passes[p].at,
           passes'[p].stage = "done" => passes[p].at.k > Len(run.rules)
    PROVE  PassInv(p)'
  <1>1. PassInv(p)
    BY DEF PassesInv
  <1>2. \A k, f : Own(p, k, f)' = Own(p, k, f) /\ \A i : Partly(p, k, f, i)' = Partly(p, k, f, i)
    BY DEF Own, Partly, UpTo, Original, leavesOut
  <1>3. Resolved(p)'
    BY <1>1, <1>2 DEF PassInv, Resolved, Behind, Within, clone, passArray, rulesOf
  <1> QED
    BY <1>1, <1>3 DEF PassInv

---------------------------------------------------------------------------
\* Once a pass is past the last element of the list it is in, that list is
\* resolved, as those behind it are.
LEMMA ListDone ==
    ASSUME PassesInv, NEW p \in Packages,
           passes[p].at.f > 0 =>
              passes[p].at.i > Len(heap[clone(p, passes[p].at.k, passes[p].at.f)]),
           NEW k \in rulesOf(p), NEW f \in DOMAIN Field,
           Behind(passes[p].at, k, f) \/ Within(passes[p].at, k, f)
    PROVE  clone(p, k, f) \in DOMAIN heap /\ heap[clone(p, k, f)] = Own(p, k, f)
  <1> DEFINE at == passes[p].at
  <1>1. PassInv(p) /\ f \in 1 .. 3
    BY Arrays DEF PassesInv
  <1>2. CASE Behind(at, k, f)
    BY <1>1, <1>2 DEF PassInv, Resolved
  <1>3. CASE Within(at, k, f)
    <2>1. /\ clone(p, k, f) \in DOMAIN heap
          /\ heap[clone(p, k, f)] = Partly(p, k, f, at.i)
      BY <1>1, <1>3 DEF PassInv, Resolved
    <2>2. at.i > Len(Partly(p, k, f, at.i)) /\ at.i \in Nat
      BY <1>1, <1>3, <2>1 DEF PassInv, Within
    <2>3. Len(Partly(p, k, f, at.i)) = Len(Original(p, k, f))
      BY DEF Partly, UpTo
    <2>4. \A j \in 1 .. Len(Original(p, k, f)) : j < at.i
      BY <2>2, <2>3
    <2>5. Partly(p, k, f, at.i) = Own(p, k, f)
      BY <2>4 DEF Partly, UpTo, Own
    <2> QED
      BY <2>1, <2>5
  <1> QED
    BY <1>2, <1>3

\* The trigger, the next list or the next rule.
LEMMA NextListStep ==
    ASSUME PassesInv, NEW p, NextList(p)
    PROVE  PassesInv'
  <1> DEFINE at == passes[p].at
             next == clone(p, at.k, at.f + 1)
  <1>1. /\ run' = run /\ DOMAIN passes' = Packages /\ Packages' = Packages
        /\ \A q \in Packages \ {p} : passes'[q] = passes[q]
    BY DEF NextList, fail, PassesInv, Packages
  <1>2. \A array \in DOMAIN heap :
           (\A k, f : array # clone(p, k, f)) =>
              array \in DOMAIN heap' /\ heap'[array] = heap[array]
    BY DEF NextList
  <1>3. RulesKept' /\ \A q \in Packages \ {p} : PassInv(q)'
    BY <1>1, <1>2, OthersKept
  <1>4. ASSUME p \in Packages
        PROVE  PassInv(p)'
    <2>1. PassInv(p) /\ p \in DOMAIN passes /\ RulesKept
      BY <1>4 DEF PassesInv
    <2>2. CASE heap' = heap /\ passes' = [passes EXCEPT ![p].stage = "failed", ![p].error = noModule]
      BY <1>1, <1>4, <2>1, <2>2, PlaceKept DEF PassInv
    <2>3. CASE /\ heap' = heap /\ passes' = [passes EXCEPT ![p].at = At(at.k + 1, 0, 1)]
               /\ at.k \notin rulesOf(p) \/ at.f = 3
               /\ at.f > 0 => at.i > Len(heap[clone(p, at.k, at.f)])
               /\ passes[p].stage = "resolving"
      <3>1. /\ passes'[p].at = At(at.k + 1, 0, 1) /\ passes'[p].stage = "resolving"
            /\ DOMAIN passes'[p] = {"stage", "at", "error", "facts"}
        BY <2>1, <2>3 DEF PassInv
      <3>2. ASSUME NEW k \in rulesOf(p), NEW f \in DOMAIN Field,
                   Behind(At(at.k + 1, 0, 1), k, f)
            PROVE  clone(p, k, f) \in DOMAIN heap /\ heap[clone(p, k, f)] = Own(p, k, f)
        <4>1. f \in 1 .. 3 /\ at.f \in 0 .. 3 /\ k \in Int /\ at.k \in Int
          BY <2>1, Arrays, RunShape DEF PassInv, PassesInv, rulesOf
        <4>2. k <= at.k
          BY <3>2, <4>1 DEF Behind, At
        <4>3. k = at.k => at.f = 3
          BY <2>3
        <4>4. Behind(at, k, f) \/ Within(at, k, f)
          BY <4>1, <4>2, <4>3 DEF Behind, Within
        <4> QED
          BY <1>4, <2>3, <4>4, ListDone
      <3>3. ASSUME NEW f \in DOMAIN Field, NEW k
            PROVE  ~Within(At(at.k + 1, 0, 1), k, f)
        BY Arrays DEF Within, At
      <3>4. \A k, f : Own(p, k, f)' = Own(p, k, f)
        BY <1>1 DEF Own, Original, leavesOut
      <3>5. Resolved(p)'
        <4>1. /\ passes'[p].at = At(at.k + 1, 0, 1) /\ heap' = heap
              /\ rulesOf(p)' = rulesOf(p)
          BY <1>1, <2>3, <3>1 DEF rulesOf
        <4>2. \A k \in rulesOf(p), f \in DOMAIN Field :
                 /\ Behind(passes'[p].at, k, f) =>
                       /\ clone(p, k, f) \in DOMAIN heap'
                       /\ heap'[clone(p, k, f)] = Own(p, k, f)'
                 /\ ~Within(passes'[p].at, k, f)
          BY <3>2, <3>3, <3>4, <4>1
        <4> HIDE DEF at
        <4> QED
          BY <4>1, <4>2 DEF Resolved, clone, passArray
      <3>6. At(at.k + 1, 0, 1) \in [k : Nat \ {0}, f : 0 .. 3, i : Nat \ {0}]
        BY <2>1 DEF PassInv, At
      <3> QED
        BY <3>1, <3>5, <3>6 DEF PassInv
    <2>4. CASE /\ passes' = [passes EXCEPT ![p].at = At(at.k, at.f + 1, 1)]
               /\ heap' = [array \in DOMAIN heap \cup {next} |->
                              IF array = next THEN copied(p, at.k, at.f + 1) ELSE heap[array]]
               /\ at.k \in rulesOf(p) /\ at.f # 3
               /\ at.f > 0 => at.i > Len(heap[clone(p, at.k, at.f)])
               /\ passes[p].stage = "resolving"
      <3>1. /\ passes'[p].at = At(at.k, at.f + 1, 1) /\ passes'[p].stage = "resolving"
            /\ DOMAIN passes'[p] = {"stage", "at", "error", "facts"}
            /\ At(at.k, at.f + 1, 1) \in [k : Nat \ {0}, f : 0 .. 3, i : Nat \ {0}]
        BY <2>1, <2>4 DEF PassInv, At
      <3>2. ASSUME NEW k \in rulesOf(p), NEW f \in DOMAIN Field,
                   Behind(At(at.k, at.f + 1, 1), k, f)
            PROVE  clone(p, k, f) \in DOMAIN heap' /\ heap'[clone(p, k, f)] = Own(p, k, f)
        <4>1. f \in 1 .. 3 /\ at.f \in 0 .. 3 /\ k \in Int /\ at.k \in Int
          BY <2>1, Arrays, RunShape DEF PassInv, PassesInv, rulesOf
        <4>2. Behind(at, k, f) \/ Within(at, k, f)
          BY <3>2, <4>1 DEF Behind, Within, At
        <4>3. clone(p, k, f) # next
          <5>1. k = at.k => f <= at.f
            BY <4>1, <4>2 DEF Behind, Within
          <5> QED
            BY <4>1, <5>1, <2>4, Arrays
        <4> QED
          BY <1>4, <2>4, <4>2, <4>3, ListDone
      <3>3. ASSUME NEW k \in rulesOf(p), NEW f \in DOMAIN Field,
                   Within(At(at.k, at.f + 1, 1), k, f)
            PROVE  clone(p, k, f) \in DOMAIN heap' /\ heap'[clone(p, k, f)] = Partly(p, k, f, 1)
        <4>1. k = at.k /\ f = at.f + 1
          BY <3>3 DEF Within, At
        <4>2. heap[ruleArray(k, f)] = run.rules[k][Field[f]]
          BY <2>1 DEF RulesKept, rulesOf
        <4>3. copied(p, k, f) = elements(Original(p, k, f))
          BY <4>2 DEF copied, Original
        <4>4. elements(Original(p, k, f)) = Partly(p, k, f, 1)
          BY DEF elements, Partly, UpTo
        <4> QED
          BY <2>4, <4>1, <4>3, <4>4
      <3>4. \A k, f : Own(p, k, f)' = Own(p, k, f) /\ Original(p, k, f)' = Original(p, k, f)
        BY <1>1 DEF Own, Original, leavesOut
      <3>5. Resolved(p)'
        <4>1. /\ passes'[p].at = At(at.k, at.f + 1, 1) /\ passes'[p].at.i = 1
              /\ rulesOf(p)' = rulesOf(p)
          BY <1>1, <3>1 DEF At, rulesOf
        <4>2. \A k \in rulesOf(p), f \in DOMAIN Field :
                 Behind(passes'[p].at, k, f) =>
                    /\ clone(p, k, f) \in DOMAIN heap'
                    /\ heap'[clone(p, k, f)] = Own(p, k, f)'
          BY <3>2, <3>4, <4>1
        <4>3. \A k \in rulesOf(p), f \in DOMAIN Field :
                 Within(passes'[p].at, k, f) =>
                    /\ clone(p, k, f) \in DOMAIN heap'
                    /\ heap'[clone(p, k, f)] = UpTo(Original(p, k, f)', run'.packages[p].module, passes'[p].at.i)
          BY <1>1, <3>3, <3>4, <4>1 DEF Partly
        <4> HIDE DEF at
        <4> QED
          BY <4>1, <4>2, <4>3 DEF Resolved, Partly, clone, passArray
      <3> QED
        BY <3>1, <3>5 DEF PassInv
    <2> QED
      BY <2>2, <2>3, <2>4, Arrays DEF NextList, fail
  <1> QED
    BY <1>1, <1>3, <1>4 DEF PassesInv

\* One element of the list a pass is in.
LEMMA ElementStep ==
    ASSUME PassesInv, NEW p, ResolveElement(p)
    PROVE  PassesInv'
  <1> DEFINE at == passes[p].at
             array == clone(p, at.k, at.f)
             module == run.packages[p].module
  <1>1. /\ run' = run /\ DOMAIN passes' = Packages /\ Packages' = Packages
        /\ \A q \in Packages \ {p} : passes'[q] = passes[q]
    BY DEF ResolveElement, fail, PassesInv, Packages
  <1>2. \A other \in DOMAIN heap :
           (\A k, f : other # clone(p, k, f)) =>
              other \in DOMAIN heap' /\ heap'[other] = heap[other]
    BY DEF ResolveElement
  <1>3. RulesKept' /\ \A q \in Packages \ {p} : PassInv(q)'
    BY <1>1, <1>2, OthersKept
  <1>4. ASSUME p \in Packages
        PROVE  PassInv(p)'
    <2>1. PassInv(p) /\ p \in DOMAIN passes
      BY <1>4 DEF PassesInv
    <2>2. CASE heap' = heap /\ passes' = [passes EXCEPT ![p].stage = "failed", ![p].error = noModule]
      BY <1>1, <1>4, <2>1, <2>2, PlaceKept DEF PassInv
    <2>3. CASE /\ heap' = [heap EXCEPT ![array][at.i] = sideWithin(@, module)]
               /\ passes' = [passes EXCEPT ![p].at.i = @ + 1]
               /\ passes[p].stage = "resolving" /\ at.i <= Len(heap[array]) /\ at.f > 0
      <3>1. /\ passes'[p].at = At(at.k, at.f, at.i + 1) /\ passes'[p].stage = "resolving"
            /\ DOMAIN passes'[p] = {"stage", "at", "error", "facts"}
            /\ At(at.k, at.f, at.i + 1) \in [k : Nat \ {0}, f : 0 .. 3, i : Nat \ {0}]
        BY <2>1, <2>3 DEF PassInv, At
      <3>2. ASSUME NEW k \in rulesOf(p), NEW f \in DOMAIN Field,
                   Behind(At(at.k, at.f, at.i + 1), k, f)
            PROVE  clone(p, k, f) \in DOMAIN heap' /\ heap'[clone(p, k, f)] = Own(p, k, f)
        <4>1. f \in 1 .. 3 /\ at.f \in 0 .. 3 /\ at.k \in Nat
          BY <2>1, Arrays DEF PassInv
        <4>2. k < at.k \/ (k = at.k /\ f < at.f)
          BY <3>2 DEF Behind, At
        <4>3. clone(p, k, f) # array
          <5>1. k \in Int
            BY RunShape DEF PassesInv, rulesOf
          <5>2. CASE k # at.k
            BY <5>2, Arrays
          <5>3. CASE k = at.k /\ f < at.f
            BY <4>1, <5>3, Arrays
          <5> QED
            BY <4>1, <4>2, <5>1, <5>2, <5>3
        <4>4. Behind(at, k, f)
          BY <4>2 DEF Behind
        <4> QED
          BY <2>1, <2>3, <4>3, <4>4 DEF PassInv, Resolved
      <3>3. ASSUME NEW k \in rulesOf(p), NEW f \in DOMAIN Field,
                   Within(At(at.k, at.f, at.i + 1), k, f)
            PROVE  /\ clone(p, k, f) \in DOMAIN heap'
                   /\ heap'[clone(p, k, f)] = Partly(p, k, f, at.i + 1)
        <4>1. k = at.k /\ f = at.f /\ clone(p, k, f) = array
          BY <3>3 DEF Within, At
        <4>2. array \in DOMAIN heap /\ heap[array] = Partly(p, k, f, at.i)
          BY <2>1, <4>1 DEF PassInv, Resolved, Within
        <4>3. heap'[array] = [Partly(p, k, f, at.i) EXCEPT ![at.i] = sideWithin(@, module)]
          BY <2>3, <4>2
        <4>4. at.i \in 1 .. Len(Original(p, k, f))
          <5>1. Len(Partly(p, k, f, at.i)) = Len(Original(p, k, f))
            BY DEF Partly, UpTo
          <5> QED
            BY <2>1, <2>3, <4>2, <5>1 DEF PassInv
        <4>5. Partly(p, k, f, at.i)[at.i] = Original(p, k, f)[at.i]
          BY <4>4 DEF Partly, UpTo
        <4>6. [Partly(p, k, f, at.i) EXCEPT ![at.i] = sideWithin(@, module)]
                = Partly(p, k, f, at.i + 1)
          BY <4>4, <4>5 DEF Partly, UpTo
        <4> QED
          BY <2>3, <4>1, <4>2, <4>3, <4>6
      <3>4. \A k, f : Own(p, k, f)' = Own(p, k, f) /\ Original(p, k, f)' = Original(p, k, f)
        BY <1>1 DEF Own, Original, leavesOut
      <3>5. Resolved(p)'
        <4>1. /\ passes'[p].at = At(at.k, at.f, at.i + 1) /\ passes'[p].at.i = at.i + 1
              /\ rulesOf(p)' = rulesOf(p)
          BY <1>1, <3>1 DEF At, rulesOf
        <4>2. \A k \in rulesOf(p), f \in DOMAIN Field :
                 Behind(passes'[p].at, k, f) =>
                    /\ clone(p, k, f) \in DOMAIN heap'
                    /\ heap'[clone(p, k, f)] = Own(p, k, f)'
          BY <3>2, <3>4, <4>1
        <4>3. \A k \in rulesOf(p), f \in DOMAIN Field :
                 Within(passes'[p].at, k, f) =>
                    /\ clone(p, k, f) \in DOMAIN heap'
                    /\ heap'[clone(p, k, f)] = UpTo(Original(p, k, f)', run'.packages[p].module, passes'[p].at.i)
          BY <1>1, <3>3, <3>4, <4>1 DEF Partly
        <4> HIDE DEF at
        <4> QED
          BY <4>1, <4>2, <4>3 DEF Resolved, Partly, clone, passArray
      <3> QED
        BY <3>1, <3>5 DEF PassInv
    <2> QED
      BY <2>2, <2>3 DEF ResolveElement, fail
  <1> QED
    BY <1>1, <1>3, <1>4 DEF PassesInv

\* The steps that write to no array.
LEMMA QuietStep ==
    ASSUME PassesInv, NEW p, Skip(p) \/ Begin(p) \/ Check(p)
    PROVE  PassesInv'
  <1>1. /\ run' = run /\ heap' = heap /\ DOMAIN passes' = Packages /\ Packages' = Packages
        /\ \A q \in Packages \ {p} : passes'[q] = passes[q]
    BY DEF Skip, Begin, Check, fail, PassesInv, Packages
  <1>2. RulesKept' /\ \A q \in Packages \ {p} : PassInv(q)'
    BY <1>1, OthersKept
  <1>3. ASSUME p \in Packages
        PROVE  PassInv(p)'
    <2>1. PassInv(p) /\ p \in DOMAIN passes
      BY <1>3 DEF PassesInv
    <2>2. /\ DOMAIN passes'[p] = {"stage", "at", "error", "facts"}
          /\ passes'[p].at = passes[p].at
          /\ passes'[p].stage = "done" => passes[p].at.k > Len(run.rules)
      BY <2>1 DEF Skip, Begin, Check, fail, PassInv
    <2> QED
      BY <1>1, <1>3, <2>2, PlaceKept
  <1> QED
    BY <1>1, <1>2, <1>3 DEF PassesInv

---------------------------------------------------------------------------
LEMMA PassesInvHolds == Spec => []PassesInv
  <1>1. Init => PassesInv
    <2> SUFFICES ASSUME Init
                 PROVE  PassesInv
      OBVIOUS
    <2>1. RulesKept
      BY Arrays DEF Init, PassesInit, RulesKept, ruleArray
    <2>2. ASSUME NEW p \in Packages
          PROVE  PassInv(p)
      <3>1. /\ passes[p].at = At(1, 0, 1) /\ passes[p].stage = "waiting"
            /\ DOMAIN passes[p] = {"stage", "at", "error", "facts"}
        BY DEF Init, PassesInit
      <3>2. Resolved(p)
        BY <3>1, Arrays, RunShape
           DEF Resolved, Behind, Within, At, rulesOf, Init, PassesInit
      <3> QED
        BY <3>1, <3>2 DEF PassInv, At
    <2> QED
      BY <2>1, <2>2 DEF PassesInv, Init, PassesInit
  <1>2. PassesInv /\ [Next]_vars => PassesInv'
    <2> SUFFICES ASSUME PassesInv, [Next]_vars
                 PROVE  PassesInv'
      OBVIOUS
    <2>1. CASE UNCHANGED <<run, heap, passes>>
      <3>1. RulesKept' /\ Packages' = Packages
        BY <2>1 DEF PassesInv, RulesKept, ruleArray, Packages
      <3>2. ASSUME NEW p \in Packages
            PROVE  Resolved(p)'
        <4>1. Resolved(p)
          BY DEF PassesInv, PassInv
        <4>2. rulesOf(p)' = rulesOf(p)
          BY <2>1 DEF rulesOf
        <4>3. \A k, f : /\ clone(p, k, f)' = clone(p, k, f)
                       /\ Own(p, k, f)' = Own(p, k, f)
                       /\ \A i : Partly(p, k, f, i)' = Partly(p, k, f, i)
          <5>1. \A k, f : Original(p, k, f)' = Original(p, k, f)
            BY <2>1 DEF Original, leavesOut
          <5>2. run' = run
            BY <2>1
          <5> QED
            BY <5>1, <5>2 DEF clone, passArray, Own, Partly, UpTo
        <4> QED
          BY <2>1, <4>1, <4>2, <4>3 DEF Resolved, Behind, Within
      <3>3. \A p \in Packages : PassInv(p)'
        BY <2>1, <3>2 DEF PassesInv, PassInv
      <3> QED
        BY <2>1, <3>1, <3>3 DEF PassesInv
    <2>2. ASSUME NEW p, PassStep(p)
          PROVE  PassesInv'
      BY <2>2, NextListStep, ElementStep, QuietStep DEF PassStep
    <2> QED
      BY <2>1, <2>2 DEF Next, Load, Analyze, Report, Stop, vars
  <1> QED
    BY <1>1, <1>2, PTL DEF Spec

\* The rules a pass reads are those the configuration wrote, resolved against
\* the module of its own package, whatever the passes beside it resolve in the
\* meantime: within never writes to the rules they share (protocol.go:64).
THEOREM NamesAreOwn == Spec => []OwnNames
  <1>1. PassesInv => OwnNames
    <2> SUFFICES ASSUME PassesInv, NEW p \in Packages, passes[p].stage = "done",
                        NEW k \in rulesOf(p)
                 PROVE  resolvedRule(p, k) = OwnRule(p, k)
      BY DEF OwnNames
    <2>1. PassInv(p) /\ passes[p].at.k > k
      BY RunShape DEF PassesInv, PassInv, rulesOf
    <2>2. \A f \in 1 .. 3 : heap[clone(p, k, f)] = Own(p, k, f)
      BY <2>1, Arrays DEF PassInv, Resolved, Behind
    <2> QED
      BY <2>2 DEF resolvedRule, OwnRule
  <1> QED
    BY <1>1, PassesInvHolds, PTL

---------------------------------------------------------------------------
(* A pass always has a module to resolve its names against: it resolves    *)
(* those of the rules it reads alone, and of these a package that is not   *)
(* being developed reads none that is relative.                            *)

NamesInv(p) ==
    /\ passes[p].error # noModule
    /\ passes[p].at.f > 0 => passes[p].at.k \in rulesOf(p)

\* What every step of a pass leaves.
LEMMA OneMoves ==
    ASSUME PassesInv, NEW p, PassStep(p)
    PROVE  /\ run' = run /\ DOMAIN passes' = Packages /\ Packages' = Packages
           /\ \A q \in Packages \ {p} : passes'[q] = passes[q]
           /\ \A q : rulesOf(q)' = rulesOf(q)
  <1>1. run' = run /\ DOMAIN passes' = DOMAIN passes /\ \A q \in DOMAIN passes \ {p} : passes'[q] = passes[q]
    BY DEF PassStep, Skip, Begin, NextList, ResolveElement, Check, fail
  <1> QED
    BY <1>1 DEF PassesInv, Packages, rulesOf

\* A name that belongs to no module is in none of the rules a pass reads.
LEMMA TriggersBelong ==
    ASSUME PassesInv, NEW p \in Packages, NEW k \in rulesOf(p)
    PROVE  ~belongsToNone(run.rules[k].trigger, run.packages[p].module)
  <1>1. run.packages[p].developed => run.packages[p].module # NoModule
    BY RunShape DEF PassesInv
  <1>2. CASE ~run.packages[p].developed
    BY <1>2 DEF rulesOf, protocolRelative, belongsToNone
  <1> QED
    BY <1>1, <1>2 DEF belongsToNone

LEMMA SidesBelong ==
    ASSUME PassesInv, NEW p \in Packages, NEW k \in rulesOf(p), NEW f \in 1 .. 3,
           NEW i \in 1 .. Len(Original(p, k, f))
    PROVE  ~sideBelongsToNone(Original(p, k, f)[i], run.packages[p].module)
  <1>1. run.packages[p].developed => run.packages[p].module # NoModule
    BY RunShape DEF PassesInv
  <1>2. k \in DOMAIN run.rules /\ IsList(run.rules[k][Field[f]])
    BY RunShape DEF PassesInv, rulesOf
  <1>3. CASE ~run.packages[p].developed /\ f = 2
    <2>1. Original(p, k, f) = absoluteFailures(run.rules[k][Field[f]])
      BY <1>3, Arrays DEF Original, leavesOut
    <2>2. ~relative(Original(p, k, f)[i].name)
      BY <1>2, <2>1, AbsoluteOnly DEF IsList
    <2> QED
      BY <2>2 DEF sideBelongsToNone, belongsToNone
  <1>4. CASE ~run.packages[p].developed /\ f # 2
    <2>1. Original(p, k, f) = run.rules[k][Field[f]] /\ f \in {1, 3}
      BY <1>4, Arrays DEF Original, leavesOut
    <2>2. ~protocolRelative(run.rules[k])
      BY <1>4 DEF rulesOf
    <2>3. Original(p, k, f)[i] \in Range(run.rules[k].satisfiers) \cup Range(run.rules[k].implementations)
      BY <1>2, <2>1, Arrays DEF Range, IsList
    <2> QED
      BY <2>2, <2>3 DEF protocolRelative, sideBelongsToNone, belongsToNone
  <1> QED
    BY <1>1, <1>3, <1>4 DEF sideBelongsToNone, belongsToNone

\* The element a pass is before is the one the rule was compiled with.
LEMMA ElementIsOriginal ==
    ASSUME PassesInv, NEW p \in Packages, NamesInv(p), passes[p].at.f > 0,
           passes[p].at.i <= Len(heap[clone(p, passes[p].at.k, passes[p].at.f)])
    PROVE  LET at == passes[p].at
           IN  /\ at.k \in rulesOf(p) /\ at.f \in 1 .. 3
               /\ at.i \in 1 .. Len(Original(p, at.k, at.f))
               /\ heap[clone(p, at.k, at.f)][at.i] = Original(p, at.k, at.f)[at.i]
  <1> DEFINE at == passes[p].at
             original == Original(p, at.k, at.f)
  <1>1. PassInv(p) /\ at.k \in rulesOf(p)
    BY DEF PassesInv, NamesInv
  <1>2. at.f \in 1 .. 3 /\ at.i \in Nat \ {0}
    BY <1>1 DEF PassInv
  <1>3. heap[clone(p, at.k, at.f)] = Partly(p, at.k, at.f, at.i)
    BY <1>1, <1>2, Arrays DEF PassInv, Resolved, Within
  <1>4. /\ Len(Partly(p, at.k, at.f, at.i)) = Len(original)
        /\ \A j \in 1 .. Len(original) : ~(j < at.i) => Partly(p, at.k, at.f, at.i)[j] = original[j]
    BY DEF Partly, UpTo
  <1>5. at.i \in 1 .. Len(original)
    BY <1>2, <1>3, <1>4
  <1> QED
    BY <1>1, <1>2, <1>3, <1>4, <1>5

LEMMA NamesKept ==
    ASSUME PassesInv, \A q \in Packages : NamesInv(q), NEW p \in Packages, PassStep(p)
    PROVE  \A q \in Packages' : NamesInv(q)'
  <1> DEFINE at == passes[p].at
  <1>1. /\ p \in DOMAIN passes /\ PassInv(p) /\ NamesInv(p)
    BY DEF PassesInv
  <1>5. ASSUME passes'[p].error # noModule,
               passes'[p].at.f > 0 => passes'[p].at.k \in rulesOf(p)
        PROVE  \A q \in Packages' : NamesInv(q)'
    <2>1. noModule' = noModule
      BY DEF noModule
    <2>2. \A q \in Packages : rulesOf(q)' = rulesOf(q)
      BY OneMoves DEF rulesOf
    <2>3. \A q \in Packages : passes'[q].error # noModule
                          /\ (passes'[q].at.f > 0 => passes'[q].at.k \in rulesOf(q))
      BY <1>5, OneMoves DEF NamesInv
    <2> QED
      BY <2>1, <2>2, <2>3, OneMoves DEF NamesInv
  <1>2. CASE Skip(p) \/ Begin(p) \/ Check(p)
    <2>1. /\ passes'[p].at = at
          /\ passes'[p].error \in {passes[p].error, prerequisites}
               \/ \E id : passes'[p].error = cannotBind(id)
      BY <1>1, <1>2 DEF Skip, Begin, Check, fail, PassInv
    <2>2. prerequisites # noModule /\ \A id : cannotBind(id) # noModule
      BY DEF prerequisites, noModule, cannotBind
    <2>3. passes'[p].error # noModule
      BY <1>1, <2>1, <2>2 DEF NamesInv
    <2> QED
      BY <1>1, <1>5, <2>1, <2>3 DEF NamesInv
  <1>3. CASE NextList(p)
    <2>1. ~(at.k \in rulesOf(p) /\ belongsToNone(run.rules[at.k].trigger, run.packages[p].module))
      BY TriggersBelong
    <2>2. \/ passes' = [passes EXCEPT ![p].at = At(at.k + 1, 0, 1)]
          \/ at.k \in rulesOf(p) /\ passes' = [passes EXCEPT ![p].at = At(at.k, at.f + 1, 1)]
      BY <1>3, <2>1 DEF NextList
    <2>3. /\ passes'[p].error = passes[p].error
          /\ passes'[p].at.f > 0 => passes'[p].at.k \in rulesOf(p)
      BY <1>1, <2>2 DEF At, PassInv
    <2> QED
      BY <1>1, <1>5, <2>3 DEF NamesInv
  <1>4. CASE ResolveElement(p)
    <2>1. ~sideBelongsToNone(heap[clone(p, at.k, at.f)][at.i], run.packages[p].module)
      BY <1>1, <1>4, ElementIsOriginal, SidesBelong DEF ResolveElement
    <2>2. passes' = [passes EXCEPT ![p].at.i = @ + 1]
      BY <1>4, <2>1 DEF ResolveElement
    <2>3. /\ passes'[p].error = passes[p].error
          /\ passes'[p].at.f = at.f /\ passes'[p].at.k = at.k
      BY <1>1, <2>2 DEF PassInv
    <2> QED
      BY <1>1, <1>5, <2>3 DEF NamesInv
  <1> QED
    BY <1>2, <1>3, <1>4 DEF PassStep

\* No pass fails for want of a module: what developed and absolute leave of
\* the rules (paircheck.go:101-122) is resolved against a module there is.
THEOREM NamesAlwaysResolve == Spec => []NamesResolve
  <1> DEFINE Inv == \A p \in Packages : NamesInv(p)
  <1>1. Init => Inv
    BY ErrorsAssumption DEF Init, PassesInit, NamesInv, At
  <1>2. PassesInv /\ Inv /\ [Next]_vars => Inv'
    <2> SUFFICES ASSUME PassesInv, Inv, [Next]_vars
                 PROVE  Inv'
      OBVIOUS
    <2>1. CASE UNCHANGED <<run, heap, passes>>
      BY <2>1 DEF NamesInv, Packages, rulesOf, noModule
    <2>2. ASSUME NEW p, PassStep(p)
          PROVE  Inv'
      <3>1. CASE p \in Packages
        BY <2>2, <3>1, NamesKept
      <3>2. CASE p \notin Packages
        <4>1. Packages' = Packages /\ \A q \in Packages : passes'[q] = passes[q] /\ rulesOf(q)' = rulesOf(q)
          BY <2>2, <3>2, OneMoves
        <4> QED
          BY <4>1 DEF NamesInv, noModule
      <3> QED
        BY <3>1, <3>2
    <2> QED
      BY <2>1, <2>2 DEF Next, Load, Analyze, Report, Stop, vars
  <1>3. Inv => NamesResolve
    BY DEF NamesInv, NamesResolve
  <1> QED
    BY <1>1, <1>2, <1>3, PassesInvHolds, PTL DEF Spec

---------------------------------------------------------------------------
(* What a pass learns of the functions it calls is about the rules it      *)
(* reads, because a rule is filed under the functions it resolved to.      *)

\* The functions the satisfiers of a rule filed so are, and the sets of
\* packages that hold those that call one, themselves or through another.
FiledNames(filed) == Range(filed[3]) \ {NoName}
ClosedUnder(set, filed) == \A q \in Packages :
    run.packages[q].body \in FiledNames(filed) \/ CallsInto(q, set) => q \in set

\* What a pass binds and learns, from the rules as they were compiled.
OwnBound(p) == {rule \in {OwnRule(p, k) : k \in rulesOf(p)} : binds(p, rule)}
FactsOf(p) == {key(rule) : rule \in {one \in OwnBound(p) : paysRule(p, one)}}

\* A pass runs after those of its imports; once it is done its facts are those
\* of the rules it bound; and each is of a function that calls a satisfier.
FactsInv(p) ==
    /\ passes[p].stage \in {"resolving", "done"} => NoneFailed(ImportsOf(p))
    /\ passes[p].stage = "done" =>
         /\ passes[p].facts = FactsOf(p)
         /\ \A filed \in passes[p].facts : \A set \in SUBSET Packages :
              ClosedUnder(set, filed) => p \in set

\* A pass that is done is never touched again.
LEMMA DoneStays ==
    ASSUME PassesInv, NEW p, PassStep(p), NEW q \in Packages, passes[q].stage = "done"
    PROVE  passes'[q] = passes[q]
  <1>1. q # p
    BY DEF PassStep, Skip, Begin, NextList, ResolveElement, Check
  <1> QED
    BY <1>1, OneMoves

\* What depends on the run alone.
LEMMA RunFixes ==
    ASSUME run' = run, NEW p
    PROVE  /\ OwnBound(p)' = OwnBound(p) /\ ImportsOf(p)' = ImportsOf(p)
           /\ \A set, filed : ClosedUnder(set, filed)' <=> ClosedUnder(set, filed)
  <1>1. \A k : OwnRule(p, k)' = OwnRule(p, k)
    BY DEF OwnRule, Own, Original, leavesOut
  <1>2. SeenFrom' = SeenFrom
    BY DEF SeenFrom, Packages, ImportsOf
  <1>3. \A rule : binds(p, rule)' <=> binds(p, rule)
    BY <1>2 DEF binds, sees
  <1>4. rulesOf(p)' = rulesOf(p)
    BY DEF rulesOf
  <1>5. OwnBound(p)' = OwnBound(p)
    BY <1>1, <1>3, <1>4 DEF OwnBound
  <1> QED
    BY <1>5 DEF ImportsOf, ClosedUnder, CallsInto, Packages

LEMMA FactsFixed ==
    ASSUME PassesInv, NEW p, PassStep(p), NEW q \in Packages, NoneFailed(ImportsOf(q))
    PROVE  FactsOf(q)' = FactsOf(q) /\ NoneFailed(ImportsOf(q))'
  <1>1. run' = run /\ ImportsOf(q)' = ImportsOf(q) /\ OwnBound(q)' = OwnBound(q)
    BY OneMoves, RunFixes
  <1>2. \A r \in ImportsOf(q) : r \in Packages /\ passes[r].stage = "done"
    BY RunShape DEF PassesInv, NoneFailed
  <1>3. \A r \in ImportsOf(q) : passes'[r] = passes[r]
    BY <1>2, DoneStays
  <1>4. \A rule : paysRule(q, rule)' <=> paysRule(q, rule)
    BY <1>1, <1>3 DEF paysRule
  <1>5. FactsOf(q)' = FactsOf(q)
    BY <1>1, <1>4 DEF FactsOf
  <1> QED
    BY <1>1, <1>2, <1>3, <1>5 DEF NoneFailed

\* A side of a rule as a package reads it has a name unless it is the call.
LEMMA SidesNamed ==
    ASSUME PassesInv, NEW p \in Packages, NEW k \in rulesOf(p)
    PROVE  /\ DOMAIN Own(p, k, 1) = 1 .. Len(run.rules[k].satisfiers)
           /\ \A i \in DOMAIN Own(p, k, 1) :
                ~Own(p, k, 1)[i].called <=> Own(p, k, 1)[i].name # NoName
  <1>1. Original(p, k, 1) = run.rules[k].satisfiers
    BY Arrays DEF Original, leavesOut
  <1>2. /\ IsList(run.rules[k].satisfiers)
        /\ \A i \in DOMAIN run.rules[k].satisfiers :
             IsSide(run.rules[k].satisfiers[i], run.packages)
    BY RunShape, Arrays DEF PassesInv, rulesOf
  <1>3. ASSUME NEW i \in 1 .. Len(run.rules[k].satisfiers)
        PROVE  ~Own(p, k, 1)[i].called <=> Own(p, k, 1)[i].name # NoName
    <2> DEFINE side == run.rules[k].satisfiers[i]
               module == run.packages[p].module
    <2>1. IsSide(side, run.packages) /\ Own(p, k, 1)[i] = sideWithin(side, module)
      BY <1>1, <1>2 DEF IsList, Own
    <2>2. ~side.called => nameWithin(side.name, module) # NoName
      BY <2>1 DEF IsSide, Packages
    <2> HIDE DEF side, module
    <2>3. CASE side.called
      BY <2>1, <2>3 DEF IsSide, sideWithin
    <2>4. CASE ~side.called
      <3>1. /\ sideWithin(side, module).called <=> side.called
            /\ sideWithin(side, module).name = nameWithin(side.name, module)
        BY <2>1, <2>4 DEF IsSide, sideWithin
      <3> QED
        BY <2>1, <2>2, <2>4, <3>1
    <2> QED
      BY <2>3, <2>4
  <1> QED
    BY <1>1, <1>3 DEF Own

\* What a rule is filed under tells what its satisfiers are.
LEMMA FiledTells ==
    ASSUME PassesInv, NEW p \in Packages, NEW rule \in OwnBound(p), NEW body
    PROVE  (\E s \in Range(rule.satisfiers) : ~s.called /\ s.name = body)
              <=> body \in FiledNames(key(rule))
  <1>1. PICK k \in rulesOf(p) : rule = OwnRule(p, k)
    BY DEF OwnBound
  <1>2. rule.satisfiers = Own(p, k, 1)
    BY <1>1 DEF OwnRule
  <1>3. key(rule)[3] = [i \in DOMAIN rule.satisfiers |-> rule.satisfiers[i].name]
    BY DEF key
  <1>4. \A i \in DOMAIN rule.satisfiers :
           ~rule.satisfiers[i].called <=> rule.satisfiers[i].name # NoName
    BY <1>2, SidesNamed
  <1> HIDE DEF key
  <1> QED
    BY <1>3, <1>4 DEF FiledNames, Range

LEMMA CallsFiled ==
    ASSUME NEW q, NEW rule
    PROVE  CallsSatisfier(q, rule) <=> run.packages[q].body \in FiledNames(key(rule))
  <1>1. key(rule)[3] = [i \in DOMAIN rule.satisfiers |-> rule.satisfiers[i].name]
    BY DEF key
  <1> QED
    BY <1>1 DEF CallsSatisfier, FiledNames, Range

\* A pass that resolved every rule binds those it was to.
LEMMA BoundIsOwn ==
    ASSUME PassesInv, NEW p \in Packages, passes[p].at.k > Len(run.rules)
    PROVE  bound(p) = OwnBound(p)
  <1>1. \A k \in rulesOf(p) : resolvedRule(p, k) = OwnRule(p, k)
    <2> TAKE k \in rulesOf(p)
    <2>1. PassInv(p) /\ passes[p].at.k > k
      BY RunShape DEF PassesInv, PassInv, rulesOf
    <2>2. \A f \in 1 .. 3 : heap[clone(p, k, f)] = Own(p, k, f)
      BY <2>1, Arrays DEF PassInv, Resolved, Behind
    <2> QED
      BY <2>2 DEF resolvedRule, OwnRule
  <1>2. resolved(p) = {OwnRule(p, k) : k \in rulesOf(p)}
    BY <1>1 DEF resolved
  <1> QED
    BY <1>2 DEF bound, OwnBound

\* What a pass learns is of functions that call a satisfier, where what it
\* reads of its imports is.
LEMMA LearnedCalls ==
    ASSUME PassesInv, \A q \in Packages : FactsInv(q), NEW p \in Packages,
           NoneFailed(ImportsOf(p)), NEW filed \in FactsOf(p),
           NEW set \in SUBSET Packages, ClosedUnder(set, filed)
    PROVE  p \in set
  <1>1. PICK rule \in OwnBound(p) : filed = key(rule) /\ paysRule(p, rule)
    BY DEF FactsOf
  <1> DEFINE body == run.packages[p].body
  <1>2. CASE \E s \in Range(rule.satisfiers) : ~s.called /\ s.name = body
    <2>1. body \in FiledNames(filed)
      BY <1>1, <1>2, FiledTells
    <2> QED
      BY <2>1 DEF ClosedUnder
  <1>3. CASE body \in ImportsOf(p) /\ filed \in passes[body].facts
    <2>1. body \in Packages /\ passes[body].stage = "done"
      BY <1>3, RunShape DEF PassesInv, NoneFailed
    <2>2. body \in set
      BY <1>3, <2>1 DEF FactsInv
    <2> QED
      BY <1>3, <2>2 DEF ClosedUnder, CallsInto
  <1> QED
    BY <1>1, <1>2, <1>3 DEF paysRule

LEMMA FactsKept ==
    ASSUME PassesInv, \A q \in Packages : FactsInv(q), NEW p, PassStep(p)
    PROVE  \A q \in Packages' : FactsInv(q)'
  <1>1. /\ run' = run /\ Packages' = Packages
        /\ \A q \in Packages \ {p} : passes'[q] = passes[q]
    BY OneMoves
  <1>2. \A q, set, filed : ClosedUnder(set, filed)' <=> ClosedUnder(set, filed)
    BY <1>1, RunFixes
  <1>3. ASSUME NEW q \in Packages, passes'[q] = passes[q]
        PROVE  FactsInv(q)'
    <2>1. FactsInv(q)
      OBVIOUS
    <2>2. CASE passes[q].stage \in {"resolving", "done"}
      <3>1. FactsOf(q)' = FactsOf(q) /\ NoneFailed(ImportsOf(q))'
        BY <2>1, <2>2, FactsFixed DEF FactsInv
      <3> QED
        BY <1>1, <1>2, <1>3, <2>1, <3>1 DEF FactsInv
    <2>3. CASE passes[q].stage \notin {"resolving", "done"}
      BY <1>3, <2>3 DEF FactsInv
    <2> QED
      BY <2>2, <2>3
  <1>4. ASSUME p \in Packages
        PROVE  FactsInv(p)'
    <2>1. FactsInv(p) /\ PassInv(p) /\ p \in DOMAIN passes
      BY <1>4 DEF PassesInv
    <2>2. CASE passes'[p].stage \notin {"resolving", "done"}
      BY <2>2 DEF FactsInv
    <2>3. CASE passes'[p].stage = "resolving"
      <3>1. NoneFailed(ImportsOf(p))
        BY <2>1, <2>3 DEF PassStep, Skip, Begin, NextList, ResolveElement, Check, fail, FactsInv, PassInv
      <3>2. NoneFailed(ImportsOf(p))'
        BY <1>4, <3>1, FactsFixed
      <3> QED
        BY <2>3, <3>2 DEF FactsInv
    <2>4. CASE passes'[p].stage = "done"
      <3>1. Check(p)
        BY <2>1, <2>4 DEF PassStep, Skip, Begin, NextList, ResolveElement, fail, PassInv
      <3>2. /\ passes[p].stage = "resolving" /\ passes[p].at.k > Len(run.rules)
            /\ passes'[p].facts = {key(rule) : rule \in {b \in bound(p) : paysRule(p, b)}}
        <4> DEFINE facts == {key(rule) : rule \in {b \in bound(p) : paysRule(p, b)}}
        <4>1. passes[p].stage = "resolving" /\ passes[p].at.k > Len(run.rules)
          BY <3>1 DEF Check
        <4>2. \/ \E error : fail(p, error)
              \/ passes' = [passes EXCEPT ![p].stage = "done", ![p].facts = facts]
          BY <3>1, Zenon DEF Check
        <4> HIDE DEF facts
        <4>3. ~\E error : fail(p, error)
          BY <2>1, <2>4 DEF fail, PassInv
        <4>4. passes'[p].facts = facts
          <5>1. "facts" \in DOMAIN passes[p] /\ "facts" # "stage"
            BY <2>1 DEF PassInv
          <5>2. passes' = [passes EXCEPT ![p].stage = "done", ![p].facts = facts]
            BY <4>2, <4>3
          <5> QED
            BY <2>1, <5>1, <5>2
        <4> QED
          BY <4>1, <4>4 DEF facts
      <3>3. NoneFailed(ImportsOf(p)) /\ passes'[p].facts = FactsOf(p)
        BY <1>4, <2>1, <3>2, BoundIsOwn DEF FactsInv, FactsOf
      <3>4. NoneFailed(ImportsOf(p))' /\ passes'[p].facts = FactsOf(p)'
        BY <1>4, <3>3, FactsFixed
      <3>5. \A filed \in passes'[p].facts : \A set \in SUBSET Packages :
               ClosedUnder(set, filed) => p \in set
        BY <1>4, <3>3, LearnedCalls
      <3> QED
        BY <1>1, <1>2, <3>4, <3>5 DEF FactsInv
    <2> QED
      BY <2>2, <2>3, <2>4
  <1> QED
    BY <1>1, <1>3, <1>4

\* A rule that packages whose passes read the same functions could learn of
\* the function of p is among what its pass learned.
LEMMA KnownLearned ==
    ASSUME PassesInv, \A q \in Packages : FactsInv(q), NEW p \in Packages,
           passes[p].stage = "done", NEW rule, PaysKnown(p, rule)
    PROVE  key(rule) \in passes[p].facts
  <1> DEFINE learned(q) == q \in Packages /\ passes[q].stage = "done" => key(rule) \in passes[q].facts
             set == {q \in SeenFrom[p] : learned(q)}
  <1>1. ASSUME NEW q \in SeenFrom[p], KnowsFunctions(q, rule),
               CallsSatisfier(q, rule) \/ CallsInto(q, set),
               q \in Packages, passes[q].stage = "done"
        PROVE  key(rule) \in passes[q].facts
    <2>1. FactsInv(q) /\ PassInv(q) /\ passes[q].at.k > Len(run.rules)
      BY <1>1 DEF PassesInv, PassInv
    <2>2. PICK b \in OwnBound(q) : SameFunctions(b, rule)
      BY <1>1, <2>1, BoundIsOwn DEF KnowsFunctions
    <2>3. key(b) = key(rule)
      BY <2>2 DEF SameFunctions, key
    <2>4. CASE CallsSatisfier(q, rule)
      <3>1. run.packages[q].body \in FiledNames(key(b))
        BY <2>3, <2>4, CallsFiled
      <3>2. paysRule(q, b)
        BY <1>1, <3>1, FiledTells DEF paysRule
      <3> QED
        BY <2>1, <2>3, <3>2, <1>1 DEF FactsInv, FactsOf
    <2>5. CASE CallsInto(q, set)
      <3>1. /\ run.packages[q].body \in ImportsOf(q)
            /\ learned(run.packages[q].body)
        BY <2>5 DEF CallsInto
      <3>2. run.packages[q].body \in Packages /\ passes[run.packages[q].body].stage = "done"
        BY <1>1, <2>1, <3>1, RunShape DEF FactsInv, NoneFailed, PassesInv
      <3>3. paysRule(q, b)
        BY <2>3, <3>1, <3>2 DEF paysRule
      <3> QED
        BY <2>1, <2>3, <3>3, <1>1 DEF FactsInv, FactsOf
    <2> QED
      BY <1>1, <2>4, <2>5
  <1>2. set \in SUBSET SeenFrom[p]
    OBVIOUS
  <1>3. \A q \in SeenFrom[p] :
           KnowsFunctions(q, rule) /\ (CallsSatisfier(q, rule) \/ CallsInto(q, set)) => q \in set
    BY <1>1
  <1> HIDE DEF set
  <1>4. p \in set
    BY <1>2, <1>3 DEF PaysKnown
  <1> QED
    BY <1>4 DEF set

\* What a pass learns from the facts of the packages it imports is about the
\* functions it resolved the rule to, although rules of one id name others in
\* each module (protocol.go:98); and nothing the passes before it could learn
\* of them is missing.
THEOREM FactsAlwaysMatch == Spec => []FactsMatch
  <1> DEFINE Inv == \A p \in Packages : FactsInv(p)
  <1>1. Init => Inv
    BY DEF Init, PassesInit, FactsInv
  <1>2. PassesInv /\ Inv /\ [Next]_vars => Inv'
    <2> SUFFICES ASSUME PassesInv, Inv, [Next]_vars
                 PROVE  Inv'
      OBVIOUS
    <2>1. CASE UNCHANGED <<run, heap, passes>>
      <3>1. Packages' = Packages /\ \A q : FactsInv(q)' <=> FactsInv(q)
        <4>1. \A q : OwnBound(q)' = OwnBound(q) /\ ImportsOf(q)' = ImportsOf(q)
          BY <2>1, RunFixes
        <4>2. \A set, filed : ClosedUnder(set, filed)' <=> ClosedUnder(set, filed)
          BY <2>1, RunFixes
        <4>3. \A q, rule : paysRule(q, rule)' <=> paysRule(q, rule)
          BY <2>1 DEF paysRule, ImportsOf
        <4>4. \A q : FactsOf(q)' = FactsOf(q)
          BY <4>1, <4>3 DEF FactsOf
        <4> QED
          BY <2>1, <4>1, <4>2, <4>4 DEF FactsInv, NoneFailed, Packages
      <3> QED
        BY <3>1
    <2>2. ASSUME NEW p, PassStep(p)
          PROVE  Inv'
      BY <2>2, FactsKept
    <2> QED
      BY <2>1, <2>2 DEF Next, Load, Analyze, Report, Stop, vars
  <1>3. PassesInv /\ Inv => FactsMatch
    <2> SUFFICES ASSUME PassesInv, Inv, NEW p \in Packages, passes[p].stage = "done",
                        NEW rule \in bound(p)
                 PROVE  /\ key(rule) \in passes[p].facts => ReallyPays(p, rule)
                        /\ PaysKnown(p, rule) => key(rule) \in passes[p].facts
      BY DEF FactsMatch
    <2>1. ASSUME key(rule) \in passes[p].facts, NEW set \in SUBSET Packages,
                 \A q \in Packages : CallsSatisfier(q, rule) \/ CallsInto(q, set) => q \in set
          PROVE  p \in set
      <3>1. ClosedUnder(set, key(rule))
        BY <2>1, CallsFiled DEF ClosedUnder
      <3> QED
        BY <2>1, <3>1 DEF FactsInv
    <2> QED
      BY <2>1, KnownLearned DEF ReallyPays
  <1> QED
    BY <1>1, <1>2, <1>3, PassesInvHolds, PTL DEF Spec

---------------------------------------------------------------------------
(* What the run analyzes.                                                  *)

\* The packages analyzed are those split takes.
LEMMA AnalyzedIs ==
    ASSUME run \in Runs
    PROVE  /\ analyzed \in Seq(Range(run.loaded)) /\ Range(run.loaded) \subseteq Packages
           /\ Range(analyzed) = {p \in Range(run.loaded) :
                isVariant(p) \/ (~testMain(p) /\ p \notin tested)}
  <1> DEFINE A == {p \in Range(run.loaded) : isVariant(p) \/ (~testMain(p) /\ p \notin tested)}
  <1>1. IsList(run.loaded) /\ Range(run.loaded) \subseteq Packages
    BY LoadsAssumption DEF Packages
  <1>2. analyzed = only(run.loaded, A)
    BY DEF analyzed
  <1>3. A \subseteq Range(run.loaded)
    OBVIOUS
  <1> HIDE DEF A
  <1>4. only(run.loaded, A) \in Seq(Range(run.loaded))
        /\ Range(only(run.loaded, A)) = Range(run.loaded) \cap A
    BY <1>1, OnlyRange
  <1> QED
    BY <1>1, <1>2, <1>3, <1>4 DEF A

\* What the assumption on the loads says of the run chosen.
LEMMA LoadShape ==
    ASSUME run \in Runs
    PROVE  /\ IsFiniteSet(run.found) /\ NoName \notin Packages
           /\ \A v \in Variants : LET package == run.packages[v].variant.package
                IN  package # NoName =>
                      /\ package \notin Variants
                      /\ ~run.packages[v].variant.external =>
                            run.packages[package].files \subseteq run.packages[v].files
           /\ \A p \in Range(run.loaded) :
                run.packages[p].generated <=> ~isVariant(p) /\ testMain(p)
  <1> DEFINE variants == {v \in Range(run.loaded) : run.packages[v].variant # NoName}
  <1>1. /\ IsFiniteSet(run.found) /\ NoName \notin DOMAIN run.packages
        /\ \A v \in variants :
             run.packages[v].variant.package # NoName =>
                /\ run.packages[v].variant.package \in DOMAIN run.packages \ variants
                /\ ~run.packages[v].variant.external =>
                     run.packages[run.packages[v].variant.package].files
                       \subseteq run.packages[v].files
        /\ \A p \in Range(run.loaded) : run.packages[p].generated <=>
             /\ p \notin variants
             /\ \E v \in variants : run.packages[v].variant.tested = run.packages[p].stem
    BY LoadsAssumption
  <1>2. Variants = variants /\ \A p \in Range(run.loaded) : isVariant(p) <=> p \in variants
    BY DEF Variants, isVariant
  <1> HIDE DEF variants
  <1>3. \A p : testMain(p) <=> \E v \in variants : run.packages[v].variant.tested = run.packages[p].stem
    BY <1>2 DEF testMain, mains
  <1> QED
    BY <1>1, <1>2, <1>3 DEF Packages

LEMMA SplitIsWhole ==
    ASSUME run \in Runs, roots = analyzed
    PROVE  SplitCovers
  <1> DEFINE written == {q \in Written : ~Shadowed(q)}
  <1>1. Range(roots) = {p \in Range(run.loaded) : isVariant(p) \/ (~testMain(p) /\ p \notin tested)}
    BY AnalyzedIs
  <1>2. Range(roots) \subseteq written
    <2> SUFFICES ASSUME NEW p \in Range(roots)
                 PROVE  p \in Written /\ ~Shadowed(p)
      OBVIOUS
    <2>1. p \in Written
      BY <1>1, LoadShape DEF Written
    <2>2. ASSUME Shadowed(p) PROVE FALSE
      <3>1. PICK v \in Variants : p = run.packages[v].variant.package
        BY <2>2 DEF Shadowed
      <3>2. p \in tested /\ isVariant(p)
        BY <1>1, <3>1 DEF tested
      <3>3. p \in Variants /\ p # NoName
        BY <1>1, <3>2, AnalyzedIs, LoadShape DEF Variants
      <3> QED
        BY <3>1, <3>3, LoadShape
    <2> QED
      BY <2>1, <2>2
  <1>3. ASSUME NEW p \in written
        PROVE  \E r \in Range(roots) : run.packages[p].files \subseteq run.packages[r].files
    <2>1. CASE p \in Range(roots)
      BY <2>1
    <2>2. CASE p \notin Range(roots)
      <3>1. p \in tested /\ p # NoName /\ p \in Range(run.loaded)
        BY <1>1, <1>3, <2>2, LoadShape, AnalyzedIs DEF Written
      <3>2. PICK v \in Variants : p = run.packages[v].variant.package
                                  /\ ~run.packages[v].variant.external
        BY <1>3, <3>1 DEF tested, Shadowed
      <3>3. v \in Range(roots)
        BY <1>1 DEF Variants
      <3> QED
        BY <3>1, <3>2, <3>3, LoadShape
    <2> QED
      BY <2>1, <2>2
  <1>4. ASSUME NEW v \in Range(roots), isVariant(v), run.packages[v].variant.package \in Range(roots)
        PROVE  FALSE
    <2> DEFINE package == run.packages[v].variant.package
    <2>1. v \in Variants /\ package \in tested
      BY <1>1, <1>4 DEF Variants, tested
    <2>2. isVariant(package) /\ package \in Variants /\ package # NoName
      BY <1>1, <1>4, <2>1, AnalyzedIs, LoadShape DEF Variants
    <2> QED
      BY <2>1, <2>2, LoadShape
  <1>5. UNION {run.packages[p].files : p \in Range(roots)}
          = UNION {run.packages[p].files : p \in written}
    BY <1>2, <1>3
  <1>6. \A p \in Range(roots) : ~run.packages[p].generated
    BY <1>2 DEF Written
  <1> QED
    BY <1>4, <1>5, <1>6 DEF SplitCovers

\* What a run analyzes is what split takes, and until it exits it prints nothing.
RootsInv ==
    /\ run \in Runs
    /\ stage # "exited" => problems = <<>> /\ printed = <<>> /\ exit = Running
    /\ stage \in {"load", "analyze", "exited"}
    /\ stage = "load" => roots = <<>>
    /\ stage = "analyze" => roots = analyzed

LEMMA RootsInvHolds == Spec => []RootsInv
  <1>1. Init => RootsInv
    BY DEF Init, PassesInit, RootsInv
  <1>2. RootsInv /\ [Next]_vars => RootsInv'
    <2> SUFFICES ASSUME RootsInv, [Next]_vars
                 PROVE  RootsInv'
      OBVIOUS
    <2>1. run' = run
      BY DEF Next, vars, Load, Analyze, Report, Stop, PassStep, Skip, Begin, NextList,
             ResolveElement, Check
    <2>2. analyzed' = analyzed
      BY <2>1 DEF analyzed, isVariant, testMain, mains, tested, Variants
    <2>3. CASE Load
      BY <2>1, <2>2, <2>3 DEF Load, Exit, RootsInv
    <2>4. CASE Analyze
      BY <2>1, <2>2, <2>4 DEF Analyze, RootsInv
    <2>5. CASE Report
      BY <2>1, <2>2, <2>5 DEF Report, Exit, RootsInv
    <2>6. CASE UNCHANGED vars
      BY <2>1, <2>2, <2>6 DEF vars, RootsInv
    <2> QED
      BY <2>3, <2>4, <2>5, <2>6 DEF Next, Stop
  <1> QED
    BY <1>1, <1>2, PTL DEF Spec

\* The files the run analyzes are those of the project, tests included, but for
\* what only a package with the path of another's external tests holds; and it
\* analyzes no package beside the test variant that holds its files, nor a test
\* main go test generates (loading.go:102).
THEOREM SplitAlwaysCovers == Spec => []SplitCovers
  <1>1. RootsInv => SplitCovers
    <2>1. CASE stage = "analyze"
      BY <2>1, SplitIsWhole DEF RootsInv
    <2>2. CASE stage # "analyze"
      BY <2>2 DEF SplitCovers
    <2> QED
      BY <2>1, <2>2
  <1> QED
    BY <1>1, RootsInvHolds, PTL

---------------------------------------------------------------------------
(* The errors of the passes that failed are told by those that waited on   *)
(* them.                                                                   *)

\* The packages import none of those that import them.
LEMMA RunAcyclic ==
    ASSUME run \in Runs
    PROVE  Acyclic(Packages, [p \in Packages |-> ImportsOf(p)])
  BY RunsAssumption DEF Acyclic, Packages, ImportsOf

\* What a package sees: itself, and what those it imports see.
LEMMA SeenFromIs ==
    ASSUME run \in Runs
    PROVE  /\ SeenFrom \in [Packages -> SUBSET Packages]
           /\ \A p \in Packages :
                SeenFrom[p] = {p} \cup UNION {SeenFrom[q] : q \in ImportsOf(p)}
  <1> DEFINE P == Packages
             S == SUBSET P
             imports == [p \in P |-> ImportsOf(p)]
             step == [a \in P \X [P -> S] |-> {a[1]} \cup UNION {a[2][q] : q \in ImportsOf(a[1])}]
             IsSeen(f) == f = [p \in P |-> {p} \cup UNION {f[q] : q \in ImportsOf(p)}]
  <1>1. Acyclic(P, imports) /\ \A p \in P : imports[p] = ImportsOf(p) /\ ImportsOf(p) \subseteq P
    BY RunAcyclic DEF Acyclic
  <1>2. SeenFrom = CHOOSE f : IsSeen(f)
    BY DEF SeenFrom
  <1> HIDE DEF P
  <1>3. /\ S # {} /\ step \in [P \X [P -> S] -> S]
        /\ \A p \in P, f \in [P -> S] :
              step[<<p, f>>] = {p} \cup UNION {f[q] : q \in ImportsOf(p)}
    BY <1>1
  <1> HIDE DEF step, imports
  <1>4. ReadsImports(step, P, imports, S)
    <2> SUFFICES ASSUME NEW p \in P, NEW f \in [P -> S], NEW g \in [P -> S],
                        \A q \in imports[p] : f[q] = g[q]
                 PROVE  step[<<p, f>>] = step[<<p, g>>]
      BY <1>3 DEF ReadsImports
    <2>1. {f[q] : q \in ImportsOf(p)} = {g[q] : q \in ImportsOf(p)}
      BY <1>1
    <2>2. step[<<p, f>>] = {p} \cup UNION {f[q] : q \in ImportsOf(p)}
      BY <1>3
    <2>3. step[<<p, g>>] = {p} \cup UNION {g[q] : q \in ImportsOf(p)}
      BY <1>3
    <2> QED
      BY <2>1, <2>2, <2>3
  <1> HIDE DEF S
  <1>5. PICK f : Follows(f, P, P, imports, S, step)
    BY <1>1, <1>3, <1>4, ImportsLead
  <1>6. IsSeen(f)
    BY <1>3, <1>5 DEF Follows
  <1>7. IsSeen(SeenFrom)
    <2>1. IsSeen(CHOOSE g : IsSeen(g))
      BY <1>6
    <2> HIDE DEF IsSeen
    <2> QED
      BY <1>2, <2>1
  <1>8. \A p \in P : SeenFrom[p] = {p} \cup UNION {SeenFrom[q] : q \in ImportsOf(p)}
    BY <1>7
  <1>9. DOMAIN SeenFrom = P /\ SeenFrom = [p \in P |-> SeenFrom[p]]
    BY <1>7
  <1> DEFINE T == {p \in P : SeenFrom[p] \subseteq P}
  <1>10. P \subseteq T
    <2>1. ASSUME NEW p \in P, imports[p] \subseteq T PROVE p \in T
      BY <1>1, <1>8, <2>1
    <2> HIDE DEF T
    <2> QED
      BY <1>1, <2>1, ImportInduction
  <1> QED
    BY <1>8, <1>9, <1>10 DEF P

\* The imports of a package whose passes failed, or never ran.
Behindhand(p) == {i \in ImportsOf(p) : passes[i].error # NoError}

\* What a pass tells: its own error, or what those it waited on tell.
LEMMA CausesAre ==
    ASSUME PassesInv
    PROVE  \A p \in Packages :
              /\ causes(p) \subseteq {passes[q].error : q \in Packages}
              /\ causes(p) = IF Behindhand(p) = {} THEN {passes[p].error}
                             ELSE UNION {causes(i) : i \in Behindhand(p)}
  <1> DEFINE P == Packages
             S == SUBSET {passes[q].error : q \in P}
             imports == [p \in P |-> ImportsOf(p)]
             telling(p, f) == IF Behindhand(p) = {} THEN {passes[p].error}
                              ELSE UNION {f[i] : i \in Behindhand(p)}
             step == [a \in P \X [P -> S] |-> telling(a[1], a[2])]
             IsTold(f) == f = [p \in P |-> telling(p, f)]
             told == CHOOSE f : IsTold(f)
  <1>1. Acyclic(P, imports) /\ \A p \in P : imports[p] = ImportsOf(p) /\ Behindhand(p) \subseteq imports[p]
    BY RunAcyclic DEF PassesInv, Behindhand
  <1>2. \A p : causes(p) = told[p]
    BY DEF causes, Behindhand
  <1>3. \A p \in P : imports[p] \subseteq P
    BY <1>1 DEF Acyclic
  <1> HIDE DEF P, imports
  <1>4. /\ S # {} /\ \A p \in P, f \in [P -> S] : telling(p, f) \in S
    BY <1>1, <1>3
  <1>5. \A p \in P : \A f, g \in [P -> S] :
           (\A q \in imports[p] : f[q] = g[q]) => telling(p, f) = telling(p, g)
    <2> TAKE p \in P
    <2> TAKE f, g \in [P -> S]
    <2> HAVE \A q \in imports[p] : f[q] = g[q]
    <2>1. {f[i] : i \in Behindhand(p)} = {g[i] : i \in Behindhand(p)}
      BY <1>1
    <2> QED
      BY <2>1
  <1> HIDE DEF S, telling
  <1>6. /\ step \in [P \X [P -> S] -> S]
        /\ \A p \in P, f \in [P -> S] : step[<<p, f>>] = telling(p, f)
    BY <1>4
  <1> HIDE DEF step
  <1>7. ReadsImports(step, P, imports, S)
    BY <1>5, <1>6 DEF ReadsImports
  <1>8. PICK f : Follows(f, P, P, imports, S, step)
    BY <1>1, <1>4, <1>7, ImportsLead
  <1>9. IsTold(f)
    BY <1>6, <1>8 DEF Follows
  <1>10. IsTold(told)
    BY <1>9
  <1> HIDE DEF told
  <1>11. \A p \in P : told[p] = telling(p, told)
    BY <1>10
  <1> HIDE DEF IsTold
  <1>12. \A p \in P : telling(p, told) = IF Behindhand(p) = {} THEN {passes[p].error}
                                         ELSE UNION {told[i] : i \in Behindhand(p)}
    BY DEF telling
  <1> DEFINE T == {p \in P : told[p] \in S}
  <1>13. P \subseteq T
    <2>1. ASSUME NEW p \in P, imports[p] \subseteq T PROVE p \in T
      BY <1>1, <1>11, <1>12, <2>1 DEF S
    <2> HIDE DEF T
    <2> QED
      BY <1>1, <2>1, ImportInduction
  <1> QED
    BY <1>2, <1>11, <1>12, <1>13 DEF P, S

\* A pass has an error once it failed, or was skipped for one that did.
ErrorsInv(p) ==
    /\ passes[p].stage \in {"waiting", "resolving", "done", "failed", "skipped"}
    /\ passes[p].stage \in {"resolving", "done", "failed"} => NoneFailed(ImportsOf(p))
    /\ passes[p].error = NoError <=> passes[p].stage \notin {"failed", "skipped"}
    /\ passes[p].stage = "skipped" => \E q \in ImportsOf(p) : passes[q].stage \in {"failed", "skipped"}

\* The error a step ends in is one.
LEMMA ErrorsAre ==
    ASSUME run \in Runs
    PROVE  /\ noModule # NoError /\ prerequisites # NoError
           /\ \A k \in DOMAIN run.rules : cannotBind(run.rules[k].id) # NoError
  BY ErrorsAssumption

\* A pass that has ended is never touched again.
LEMMA EndedStays ==
    ASSUME PassesInv, NEW p, PassStep(p), NEW q \in Packages, Ended(q)
    PROVE  passes'[q] = passes[q]
  <1>1. q # p
    BY DEF PassStep, Skip, Begin, NextList, ResolveElement, Check, Ended
  <1> QED
    BY <1>1, OneMoves

\* What a step leaves the pass of p with.
LEMMA StagesMove ==
    ASSUME PassesInv, NEW p \in Packages, ErrorsInv(p), PassStep(p)
    PROVE  \/ /\ passes'[p].stage = "skipped" /\ passes'[p].error = prerequisites
              /\ (\A q \in ImportsOf(p) : Ended(q)) /\ ~NoneFailed(ImportsOf(p))
           \/ /\ passes'[p].stage \in {"resolving", "done"} /\ passes'[p].error = NoError
              /\ NoneFailed(ImportsOf(p))
           \/ /\ passes'[p].stage = "failed" /\ passes'[p].error # NoError
              /\ NoneFailed(ImportsOf(p))
  <1>1. /\ p \in DOMAIN passes /\ DOMAIN passes[p] = {"stage", "at", "error", "facts"}
        /\ run \in Runs /\ PassInv(p)
    BY DEF PassesInv, PassInv
  <1>2. CASE Skip(p)
    BY <1>1, <1>2 DEF Skip
  <1>3. CASE Begin(p)
    BY <1>1, <1>3 DEF Begin, ErrorsInv
  <1>4. ASSUME passes[p].stage = "resolving",
               \/ \E error : error # NoError /\ fail(p, error)
               \/ \E at : passes' = [passes EXCEPT ![p].at = at]
        PROVE  \/ passes'[p].stage = "resolving" /\ passes'[p].error = NoError
               \/ passes'[p].stage = "failed" /\ passes'[p].error # NoError
    BY <1>1, <1>4 DEF fail, ErrorsInv
  <1>5. CASE NextList(p)
    <2>1. noModule # NoError
      BY <1>1, ErrorsAre
    <2>2. \/ fail(p, noModule) \/ \E at : passes' = [passes EXCEPT ![p].at = at]
      BY <1>5 DEF NextList
    <2>3. passes[p].stage = "resolving"
      BY <1>5 DEF NextList
    <2> QED
      BY <1>4, <2>1, <2>2, <2>3 DEF ErrorsInv
  <1>6. CASE ResolveElement(p)
    <2>1. noModule # NoError
      BY <1>1, ErrorsAre
    <2>2. \/ fail(p, noModule) \/ passes' = [passes EXCEPT ![p].at.i = @ + 1]
      BY <1>6 DEF ResolveElement
    <2>3. passes[p].stage = "resolving"
      BY <1>6 DEF ResolveElement
    <2> QED
      BY <1>1, <2>1, <2>2, <2>3 DEF ErrorsInv, fail
  <1>7. CASE Check(p)
    <2>1. passes[p].stage = "resolving"
      BY <1>7 DEF Check
    <2>2. CASE unbound(p) # {}
      <3>1. unbound(p) \subseteq DOMAIN run.rules /\ \A k \in unbound(p) : k \in Nat
        BY <1>1, RunShape DEF unbound, rulesOf
      <3>2. Min(unbound(p)) \in unbound(p)
        BY <2>2, <3>1, LeastOf
      <3>3. cannotBind(run.rules[Min(unbound(p))].id) # NoError
        BY <1>1, <3>1, <3>2, ErrorsAre
      <3>4. fail(p, cannotBind(run.rules[Min(unbound(p))].id))
        BY <1>7, <2>2 DEF Check
      <3> QED
        BY <1>4, <2>1, <3>3, <3>4 DEF ErrorsInv
    <2>3. CASE unbound(p) = {}
      <3>1. PICK facts : passes' = [passes EXCEPT ![p].stage = "done", ![p].facts = facts]
        BY <1>7, <2>3 DEF Check
      <3>2. passes'[p].stage = "done" /\ passes'[p].error = passes[p].error
        BY <1>1, <3>1
      <3>3. passes[p].error = NoError /\ NoneFailed(ImportsOf(p))
        BY <2>1 DEF ErrorsInv
      <3> QED
        BY <3>2, <3>3
    <2> QED
      BY <2>2, <2>3
  <1> QED
    BY <1>2, <1>3, <1>5, <1>6, <1>7 DEF PassStep

\* Every pass keeps what is said of its errors.
LEMMA ErrorsKept ==
    ASSUME PassesInv, \A q \in Packages : ErrorsInv(q), NEW p, PassStep(p)
    PROVE  \A q \in Packages' : ErrorsInv(q)'
  <1>1. /\ run' = run /\ Packages' = Packages /\ \A q : ImportsOf(q)' = ImportsOf(q)
        /\ \A q \in Packages \ {p} : passes'[q] = passes[q]
    BY OneMoves, RunFixes
  <1>2. NoError' = NoError /\ prerequisites' = prerequisites
    BY DEF prerequisites
  <1>3. \A q \in Packages : ImportsOf(q) \subseteq Packages
    BY RunShape DEF PassesInv
  <1>4. \A r \in Packages : Ended(r) => passes'[r] = passes[r]
    BY EndedStays
  <1>5. ASSUME NEW q \in Packages, NoneFailed(ImportsOf(q))
        PROVE  NoneFailed(ImportsOf(q))'
    BY <1>1, <1>3, <1>4, <1>5 DEF NoneFailed, Ended
  <1>6. ASSUME NEW q \in Packages,
               \E r \in ImportsOf(q) : passes[r].stage \in {"failed", "skipped"}
        PROVE  \E r \in ImportsOf(q)' : passes'[r].stage \in {"failed", "skipped"}
    BY <1>1, <1>3, <1>4, <1>6 DEF Ended
  <1>7. ASSUME NEW q \in Packages, passes'[q] = passes[q]
        PROVE  ErrorsInv(q)'
    BY <1>5, <1>6, <1>7 DEF ErrorsInv
  <1>8. ASSUME p \in Packages
        PROVE  ErrorsInv(p)'
    <2>1. /\ NoneFailed(ImportsOf(p)) => NoneFailed(ImportsOf(p))'
          /\ (\E r \in ImportsOf(p) : passes[r].stage \in {"failed", "skipped"})
               => \E r \in ImportsOf(p)' : passes'[r].stage \in {"failed", "skipped"}
      BY <1>5, <1>6, <1>8
    <2>2. CASE /\ passes'[p].stage = "skipped" /\ passes'[p].error = prerequisites
               /\ (\A q \in ImportsOf(p) : Ended(q)) /\ ~NoneFailed(ImportsOf(p))
      <3>1. \E r \in ImportsOf(p) : passes[r].stage \in {"failed", "skipped"}
        BY <2>2 DEF NoneFailed, Ended
      <3>2. prerequisites # NoError
        BY ErrorsAre DEF PassesInv
      <3> QED
        BY <2>1, <2>2, <3>1, <3>2 DEF ErrorsInv
    <2>3. CASE /\ passes'[p].stage \in {"resolving", "done"} /\ passes'[p].error = NoError
               /\ NoneFailed(ImportsOf(p))
      BY <2>1, <2>3 DEF ErrorsInv
    <2>4. CASE /\ passes'[p].stage = "failed" /\ passes'[p].error # NoError
               /\ NoneFailed(ImportsOf(p))
      BY <2>1, <2>4 DEF ErrorsInv
    <2> QED
      BY <1>8, <2>2, <2>3, <2>4, StagesMove
  <1> QED
    BY <1>1, <1>7, <1>8

LEMMA ErrorsInvHolds == Spec => [](\A p \in Packages : ErrorsInv(p))
  <1> DEFINE Inv == \A p \in Packages : ErrorsInv(p)
  <1>1. Init => Inv
    BY DEF Init, PassesInit, ErrorsInv
  <1>2. PassesInv /\ Inv /\ [Next]_vars => Inv'
    <2> SUFFICES ASSUME PassesInv, Inv, [Next]_vars
                 PROVE  Inv'
      OBVIOUS
    <2>1. CASE UNCHANGED <<run, heap, passes>>
      BY <2>1 DEF ErrorsInv, Packages, ImportsOf, NoneFailed
    <2>2. ASSUME NEW p, PassStep(p)
          PROVE  Inv'
      BY <2>2, ErrorsKept
    <2> QED
      BY <2>1, <2>2 DEF Next, Load, Analyze, Report, Stop, vars
  <1> QED
    BY <1>1, <1>2, PassesInvHolds, PTL DEF Spec

\* The errors of the passes that ran and failed among the packages p sees.
FailedFrom(p) == {passes[q].error : q \in {r \in SeenFrom[p] : passes[r].stage = "failed"}}
Tells(p) == IF passes[p].error = NoError THEN {} ELSE causes(p)

\* Once all p sees have ended, what its pass tells is what failed of them, and
\* it has an error only if something did.
LEMMA TellsFailed ==
    ASSUME PassesInv, \A p \in Packages : ErrorsInv(p)
    PROVE  \A p \in Packages : (\A q \in SeenFrom[p] : Ended(q)) => Tells(p) = FailedFrom(p)
  <1> DEFINE P == Packages
             imports == [p \in P |-> ImportsOf(p)]
             Told(p) == /\ Tells(p) = FailedFrom(p)
                        /\ FailedFrom(p) = {} <=> passes[p].error = NoError
             T == {p \in P : (\A q \in SeenFrom[p] : Ended(q)) => Told(p)}
  <1>1. Acyclic(P, imports) /\ \A p \in P : imports[p] = ImportsOf(p)
    BY RunAcyclic DEF PassesInv
  <1>2. ASSUME NEW p \in P, imports[p] \subseteq T, \A q \in SeenFrom[p] : Ended(q)
        PROVE  Told(p)
    <2> DEFINE own == IF passes[p].stage = "failed" THEN {passes[p].error} ELSE {}
    <2>1. SeenFrom[p] = {p} \cup UNION {SeenFrom[q] : q \in ImportsOf(p)}
      BY SeenFromIs DEF PassesInv
    <2>2. \A q \in ImportsOf(p) : Told(q)
      BY <1>1, <1>2, <2>1
    <2>3. FailedFrom(p) = own \cup UNION {FailedFrom(q) : q \in ImportsOf(p)}
      BY <2>1 DEF FailedFrom
    <2>4. ErrorsInv(p) /\ Ended(p)
      BY <1>2, <2>1
    <2>5. causes(p) = IF Behindhand(p) = {} THEN {passes[p].error}
                      ELSE UNION {causes(i) : i \in Behindhand(p)}
      BY CausesAre
    <2>6. \A q \in ImportsOf(p) : passes[q].error # NoError => causes(q) = FailedFrom(q)
      BY <2>2 DEF Tells
    <2>7. \A q \in ImportsOf(p) : FailedFrom(q) = {} <=> passes[q].error = NoError
      BY <2>2
    <2>8. ImportsOf(p) \subseteq P
      BY RunShape DEF PassesInv
    <2> HIDE DEF Told
    <2>9. CASE passes[p].stage \in {"done", "failed"}
      <3>1. \A q \in ImportsOf(p) : passes[q].error = NoError
        BY <2>4, <2>8, <2>9 DEF ErrorsInv, NoneFailed
      <3>2. Behindhand(p) = {} /\ FailedFrom(p) = own
        BY <2>3, <2>7, <3>1 DEF Behindhand
      <3> QED
        BY <2>4, <2>5, <2>9, <3>2 DEF Told, Tells, ErrorsInv
    <2>10. CASE passes[p].stage = "skipped"
      <3>1. PICK q \in ImportsOf(p) : passes[q].stage \in {"failed", "skipped"}
        BY <2>4, <2>10 DEF ErrorsInv
      <3>2. passes[q].error # NoError
        BY <2>8, <3>1 DEF ErrorsInv
      <3>3. q \in Behindhand(p) /\ FailedFrom(q) # {}
        BY <2>7, <3>2 DEF Behindhand
      <3>4. FailedFrom(p) = UNION {FailedFrom(i) : i \in ImportsOf(p)}
        BY <2>3, <2>10
      <3>5. \A i \in Behindhand(p) : i \in ImportsOf(p) /\ causes(i) = FailedFrom(i)
        BY <2>6 DEF Behindhand
      <3>6. \A i \in ImportsOf(p) \ Behindhand(p) : FailedFrom(i) = {}
        BY <2>7 DEF Behindhand
      <3>7. causes(p) = UNION {FailedFrom(i) : i \in Behindhand(p)}
        BY <2>5, <3>3, <3>5
      <3>8. FailedFrom(p) = causes(p)
        BY <3>4, <3>5, <3>6, <3>7
      <3>9. FailedFrom(p) # {}
        BY <3>3, <3>4, <3>5
      <3> QED
        BY <2>4, <2>10, <3>8, <3>9 DEF Told, Tells, ErrorsInv
    <2> QED
      BY <2>4, <2>9, <2>10 DEF Ended
  <1>3. P \subseteq T
    <2>1. ASSUME NEW p \in P, imports[p] \subseteq T PROVE p \in T
      BY <1>2, <2>1
    <2> HIDE DEF T
    <2> QED
      BY <1>1, <2>1, ImportInduction
  <1> QED
    BY <1>3

\* What the run prints once all the passes it needed have ended.
LEMMA RootErrorsAre ==
    ASSUME PassesInv, \A p \in Packages : ErrorsInv(p), roots = analyzed,
           \A p \in Reached : Ended(p)
    PROVE  LET errors == {passes[p].error : p \in {q \in Reached : passes[q].stage = "failed"}}
           IN  /\ Range(rootErrors) = errors /\ Len(rootErrors) = Cardinality(errors)
               /\ rootErrors = <<>> <=> errors = {}
  <1> DEFINE errors == {passes[p].error : p \in {q \in Reached : passes[q].stage = "failed"}}
             X == {passes[q].error : q \in Packages}
             sets == [i \in DOMAIN roots |-> Tells(roots[i])]
             m == Len(roots)
  <1>1. /\ roots \in Seq(Packages) /\ m \in Nat /\ DOMAIN roots = 1..m
        /\ \A i \in 1..m : roots[i] \in Packages
    <2>1. roots \in Seq(Range(run.loaded)) /\ Range(run.loaded) \subseteq Packages
      BY AnalyzedIs DEF PassesInv
    <2> QED
      BY <2>1
  <1>2. rootErrors = once(sets)
    BY DEF rootErrors, Tells
  <1>3. Range(roots) = {roots[i] : i \in 1..m}
    BY <1>1 DEF Range
  <1> HIDE DEF m
  <1>4. \A i \in 1..m : Tells(roots[i]) = FailedFrom(roots[i])
    <2>1. \A i \in 1..m : \A q \in SeenFrom[roots[i]] : Ended(q)
      BY <1>3 DEF Reached
    <2> QED
      BY <1>1, <2>1, TellsFailed
  <1>5. \A i \in 1..m : Tells(roots[i]) \subseteq X /\ IsFiniteSet(Tells(roots[i]))
    <2>1. IsFiniteSet(X)
      <3>1. IsFiniteSet(Packages)
        BY RunsAssumption DEF PassesInv, Packages
      <3>2. [q \in Packages |-> passes[q].error] \in Surjection(Packages, X)
        BY DEF Surjection
      <3> QED
        BY <3>1, <3>2, FS_Surjection
    <2> HIDE DEF X
    <2>2. \A i \in 1..m : Tells(roots[i]) \subseteq X
      BY <1>1, CausesAre DEF Tells, X
    <2> QED
      BY <2>1, <2>2, FS_Subset
  <1>6. IsList(sets) /\ Len(sets) = m
    BY <1>1 DEF IsList
  <1>7. \A n \in 1..m : sets[n] = Tells(roots[n])
    BY <1>1
  <1> HIDE DEF sets, X
  <1>8. /\ once(sets) \in Seq(X) /\ IsInjective(once(sets))
        /\ Range(once(sets)) = UNION {sets[n] : n \in 1..m}
    <2>1. \A n \in 1..Len(sets) : sets[n] \subseteq X /\ IsFiniteSet(sets[n])
      BY <1>5, <1>6, <1>7
    <2> QED
      BY <1>6, <2>1, OnceHolds
  <1>9. UNION {sets[n] : n \in 1..m} = UNION {FailedFrom(p) : p \in Range(roots)}
    BY <1>3, <1>4, <1>7
  <1>10. UNION {FailedFrom(p) : p \in Range(roots)} = errors
    BY DEF FailedFrom, Reached
  <1> HIDE DEF errors
  <1>11. Range(rootErrors) = errors /\ Len(rootErrors) = Cardinality(errors)
    BY <1>2, <1>8, <1>9, <1>10, AsManyAs
  <1>12. rootErrors = <<>> <=> Range(rootErrors) = {}
    BY <1>2, <1>8, EmptyRange
  <1> QED
    BY <1>11, <1>12 DEF errors

\* Where the findings printed are none, none is in a file of the roots.
LEMMA PlacedAreAll ==
    ASSUME run \in Runs, roots = analyzed, placedFindings = <<>>
    PROVE  \A p \in Range(roots) : run.packages[p].files \cap run.found = {}
  <1> DEFINE X == run.found
             sets == [i \in DOMAIN roots |-> run.packages[roots[i]].files \cap X]
             m == Len(roots)
  <1>1. m \in Nat /\ DOMAIN roots = 1..m
    BY AnalyzedIs
  <1>2. placedFindings = once(sets)
    BY DEF placedFindings
  <1>3. Range(roots) = {roots[i] : i \in 1..m}
    BY <1>1 DEF Range
  <1>4. IsFiniteSet(X)
    BY LoadShape
  <1> HIDE DEF m, X
  <1>5. /\ IsList(sets) /\ Len(sets) = m
        /\ \A n \in 1..m : sets[n] = run.packages[roots[n]].files \cap X
    BY <1>1 DEF IsList
  <1>6. \A n \in 1..m : sets[n] \subseteq X /\ IsFiniteSet(sets[n])
    BY <1>4, <1>5, FS_Subset
  <1> HIDE DEF sets
  <1>7. Range(once(sets)) = UNION {sets[n] : n \in 1..m}
    BY <1>5, <1>6, OnceHolds
  <1>8. Range(<<>>) = {}
    BY DEF Range
  <1>9. \A n \in 1..m : sets[n] = {}
    BY <1>2, <1>7, <1>8
  <1> QED
    BY <1>3, <1>5, <1>9 DEF X

\* What the run prints and exits with once every pass it needed has ended.
LEMMA ReportTells ==
    ASSUME PassesInv, \A p \in Packages : ErrorsInv(p), RootsInv, Report
    PROVE  FailuresTold'
  <1> DEFINE errors == {passes[p].error : p \in {q \in Reached : passes[q].stage = "failed"}}
             clean == \A p \in Written : ~Shadowed(p) => run.packages[p].files \cap run.found = {}
  <1>1. /\ stage = "analyze" /\ roots = analyzed /\ problems = <<>> /\ printed = <<>> /\ run \in Runs
        /\ \A p \in Reached : Ended(p)
    BY DEF Report, RootsInv
  <1>2. /\ Range(rootErrors) = errors /\ Len(rootErrors) = Cardinality(errors)
        /\ rootErrors = <<>> <=> errors = {}
    BY <1>1, RootErrorsAre
  <1>3. /\ run' = run /\ passes' = passes /\ roots' = roots /\ SeenFrom' = SeenFrom
    BY DEF Report, SeenFrom, Packages, ImportsOf
  <1>4. ASSUME Range(problems') = errors, Len(problems') = Cardinality(errors),
               exit' = ExitFailed <=> errors # {}, exit' = ExitFailed => printed' = <<>>,
               exit' = ExitClean => clean
        PROVE  FailuresTold'
    <2>1. Reached' = Reached
      BY <1>3 DEF Reached
    <2>2. (exit' = ExitFailed) = (errors # {})
      BY <1>4
    <2>3. errors' = errors
      BY <1>3, <2>1
    <2>4. clean => clean'
      BY <1>3 DEF Written, Shadowed, Variants, isVariant
    <2>5. /\ Range(problems') = errors' /\ Len(problems') = Cardinality(errors')
          /\ (exit' = ExitFailed) = (errors' # {})
      BY <1>4, <2>2, <2>3
    <2>6. /\ exit' = ExitFailed => printed' = <<>>
          /\ exit' = ExitClean => clean'
      BY <1>4, <2>4
    <2> QED
      BY <2>5, <2>6 DEF FailuresTold, ExitFailed, ExitClean
  <1>5. placedFindings = <<>> => clean
    <2> SUFFICES ASSUME placedFindings = <<>>, NEW p \in Written, ~Shadowed(p)
                 PROVE  run.packages[p].files \cap run.found = {}
      BY DEF clean
    <2>1. \A r \in Range(roots) : run.packages[r].files \cap run.found = {}
      BY <1>1, PlacedAreAll
    <2>2. run.packages[p].files \subseteq UNION {run.packages[r].files : r \in Range(roots)}
      BY <1>1, SplitIsWhole DEF SplitCovers
    <2> QED
      BY <2>1, <2>2
  <1> HIDE DEF errors, clean
  <1>6. Range(<<>>) = {} /\ Len(<<>>) = 0 /\ Cardinality({}) = 0
    BY FS_EmptySet DEF Range
  <1>7. CASE rootErrors # <<>>
    <2>1. problems' = rootErrors /\ printed' = <<>> /\ exit' = ExitFailed /\ errors # {}
      BY <1>1, <1>2, <1>7 DEF Report, Exit
    <2>2. exit' # ExitClean
      BY <2>1 DEF ExitFailed, ExitClean
    <2> QED
      BY <1>2, <1>4, <2>1, <2>2
  <1>8. CASE rootErrors = <<>>
    <2>1. /\ problems' = <<>> /\ errors = {} /\ exit' \in {ExitFindings, ExitClean}
          /\ exit' = ExitClean => placedFindings = <<>>
      BY <1>1, <1>2, <1>8 DEF Report, Exit, ExitFindings, ExitClean
    <2>2. exit' # ExitFailed /\ (exit' = ExitClean => clean)
      BY <1>5, <2>1 DEF ExitFailed, ExitFindings, ExitClean
    <2> QED
      BY <1>4, <1>6, <2>1, <2>2
  <1> QED
    BY <1>7, <1>8

\* The run fails when a pass it needed failed, and only then, and prints the
\* error of every pass that ran and failed, once, whichever passes waited on
\* it (driver.go:123): a failure is never hidden by the packages that import
\* the one it is in, and no finding is printed of a run that failed. A run that
\* exits clean found nothing in the project, but for a shadowed package.
THEOREM FailuresAreTold == Spec => []FailuresTold
  <1> DEFINE Errors == \A p \in Packages : ErrorsInv(p)
  <1>1. Init => FailuresTold
    BY DEF Init, FailuresTold
  <1>2. PassesInv /\ Errors /\ RootsInv /\ FailuresTold /\ [Next]_vars => FailuresTold'
    <2> SUFFICES ASSUME PassesInv, Errors, RootsInv, FailuresTold, [Next]_vars
                 PROVE  FailuresTold'
      OBVIOUS
    <2>1. CASE Load
      BY <2>1 DEF Load, Exit, RootsInv, FailuresTold
    <2>2. CASE Analyze
      BY <2>2 DEF Analyze, FailuresTold
    <2>3. CASE Report
      BY <2>3, ReportTells
    <2>4. CASE UNCHANGED vars
      <3>1. /\ run' = run /\ passes' = passes /\ roots' = roots /\ stage' = stage
            /\ problems' = problems /\ printed' = printed /\ exit' = exit
        BY <2>4 DEF vars
      <3>2. SeenFrom' = SeenFrom
        BY <3>1 DEF SeenFrom, Packages, ImportsOf
      <3>3. Reached' = Reached
        BY <3>1, <3>2 DEF Reached
      <3> DEFINE errors == {passes[p].error : p \in {q \in Reached : passes[q].stage = "failed"}}
                 clean == \A p \in Written :
                             ~Shadowed(p) => run.packages[p].files \cap run.found = {}
      <3>4. errors' = errors
        BY <3>1, <3>3
      <3>5. clean' = clean
        BY <3>1 DEF Written, Shadowed, Variants, isVariant
      <3>6. FailuresTold = (stage = "exited" /\ roots # <<>> =>
                              /\ Range(problems) = errors /\ Len(problems) = Cardinality(errors)
                              /\ (exit = ExitFailed) = (errors # {})
                              /\ exit = ExitFailed => printed = <<>>
                              /\ exit = ExitClean => clean)
        BY DEF FailuresTold
      <3> HIDE DEF errors, clean
      <3>7. (stage = "exited" /\ roots # <<>> =>
               /\ Range(problems) = errors /\ Len(problems) = Cardinality(errors)
               /\ (exit = ExitFailed) = (errors # {})
               /\ exit = ExitFailed => printed = <<>>
               /\ exit = ExitClean => clean)'
        BY <3>1, <3>4, <3>5, <3>6 DEF ExitFailed, ExitClean
      <3> QED
        BY <3>7 DEF FailuresTold, errors, clean
    <2> QED
      BY <2>1, <2>2, <2>3, <2>4 DEF Next, Stop
  <1> QED
    BY <1>1, <1>2, PassesInvHolds, ErrorsInvHolds, RootsInvHolds, PTL DEF Spec

====
