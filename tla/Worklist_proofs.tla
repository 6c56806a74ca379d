--------------------------- MODULE Worklist_proofs ---------------------------
(***************************************************************************)
(* Worklist misses nothing, whatever the nodes and what they lead to.       *)
(*                                                                          *)
(* A point stands for the node it was searched as: searched[q] is what was  *)
(* known then.  The invariant says of that node what searching it did: its  *)
(* leak and its endings are found, and each node it leads to is Expected -  *)
(* its point was searched knowing no more, or such a node waits.  A step    *)
(* keeps what is expected expected, and once nothing waits the walker can   *)
(* only go from a covered node to a covered node.                           *)
(***************************************************************************)
EXTENDS Worklist, TLAPS

\* The node a point was searched as.
Entry(q) == [point |-> q, known |-> searched[q]]

Waiting(x) == \E y \in pending : Below(y, x)

Expected(x) == Covered(x) \/ Waiting(x)

\* What searching x has to have done by now.
Explored(x) ==
    /\ Leaks(x) => leaked
    /\ Ends(x) \subseteq ended
    /\ \A u \in Succ(x) : Expected(u)

SearchInv ==
    /\ pending \subseteq Node
    /\ DOMAIN searched \subseteq Point
    /\ \A q \in DOMAIN searched : searched[q] \subseteq Fact
    /\ walker \in Node
    /\ Expected(walker)
    /\ \A q \in DOMAIN searched : Explored(Entry(q))

---------------------------------------------------------------------------
\* Searching something in common with what was known keeps to it: the node is
\* that of x's point, and knows no more than x or than its point's last search.
LEMMA CommonIsBelow ==
    ASSUME SearchInv, NEW x \in Node
    PROVE  /\ Common(x) \in Node
           /\ Common(x).point = x.point
           /\ Below(Common(x), x)
           /\ x.point \in DOMAIN searched =>
                Common(x).known \subseteq searched[x.point]
  BY DEF Common, Below, Node, SearchInv

\* A node covered by what covers less is covered.
LEMMA CoveredDown ==
    ASSUME NEW x, NEW y, Covered(y), Below(y, x)
    PROVE  Covered(x)
  BY DEF Covered, Below

\* The walker of a finished search is covered, so the leaks and endings of its
\* node are among those found.
LEMMA NothingWaits ==
    ASSUME SearchInv, pending = {}
    PROVE  /\ Covered(walker)
           /\ Entry(walker.point) \in Node
           /\ Below(Entry(walker.point), walker)
           /\ Explored(Entry(walker.point))
  <1>1. Covered(walker)
    BY DEF SearchInv, Expected, Waiting
  <1> QED
    BY <1>1 DEF SearchInv, Covered, Entry, Below, Node

\* Expected nodes stay expected when one is skipped.
LEMMA SkipKeeps ==
    ASSUME SearchInv, NEW x \in pending, Skip(x), NEW u, Expected(u)
    PROVE  Expected(u)'
  <1>1. CASE Covered(u)
    BY <1>1 DEF Expected, Covered, Skip
  <1>2. CASE Waiting(u)
    <2>1. PICK y \in pending : Below(y, u)
      BY <1>2 DEF Waiting
    <2>2. CASE y = x
      BY <2>1, <2>2, CoveredDown DEF Expected, Covered, Skip
    <2>3. CASE y # x
      <3>1. y \in pending'
        BY <2>3 DEF Skip, Rest
      <3> QED
        BY <2>1, <3>1 DEF Expected, Waiting, Below
    <2> QED
      BY <2>2, <2>3
  <1> QED
    BY <1>1, <1>2 DEF Expected

\* What a visit does to the memo: the point of x is searched knowing no more
\* than before, and the other points are left alone.
LEMMA VisitSearches ==
    ASSUME SearchInv, NEW x \in pending, Visit(x)
    PROVE  /\ DOMAIN searched' = DOMAIN searched \union {x.point}
           /\ searched'[x.point] = Common(x).known
           /\ \A q \in DOMAIN searched : q # x.point => searched'[q] = searched[q]
           /\ \A q \in DOMAIN searched : searched'[q] \subseteq searched[q]
  <1>1. x \in Node
    BY DEF SearchInv
  <1>2. /\ DOMAIN searched' = DOMAIN searched \union {x.point}
        /\ searched'[x.point] = Common(x).known
        /\ \A q \in DOMAIN searched : q # x.point => searched'[q] = searched[q]
    BY DEF Visit
  <1> QED
    BY <1>1, <1>2, CommonIsBelow

\* Expected nodes stay expected when one is visited.
LEMMA VisitKeeps ==
    ASSUME SearchInv, NEW x \in pending, Visit(x), NEW u, Expected(u)
    PROVE  Expected(u)'
  <1>1. x \in Node
    BY DEF SearchInv
  <1>2. CASE Covered(u)
    BY <1>2, VisitSearches DEF Expected, Covered
  <1>3. CASE Waiting(u)
    <2>1. PICK y \in pending : Below(y, u)
      BY <1>3 DEF Waiting
    <2>2. CASE y = x
      <3>1. u.point \in DOMAIN searched'
              /\ searched'[u.point] = Common(x).known
        BY <2>1, <2>2, VisitSearches DEF Below
      <3>2. Common(x).known \subseteq u.known
        BY <1>1, <2>1, <2>2, CommonIsBelow DEF Below
      <3> QED
        BY <3>1, <3>2 DEF Expected, Covered
    <2>3. CASE y # x
      <3>1. y \in pending'
        BY <2>3 DEF Visit, Rest
      <3> QED
        BY <2>1, <3>1 DEF Expected, Waiting, Below
    <2> QED
      BY <2>2, <2>3
  <1> QED
    BY <1>2, <1>3 DEF Expected

\* What a visit searched is explored.
LEMMA VisitExplores ==
    ASSUME Nodes, SearchInv, NEW x \in pending, Visit(x)
    PROVE  /\ Explored(Entry(x.point))'
           /\ pending' \subseteq Node
  <1> DEFINE y == Common(x)
  <1>1. y \in Node
    BY CommonIsBelow DEF SearchInv
  <1>2. Succ(y) \subseteq pending' /\ Succ(y) \subseteq Node
    BY <1>1 DEF Visit, Nodes
  <1>3. pending' \subseteq Node
    BY <1>2 DEF Visit, Rest, SearchInv
  <1>4. \A u \in Succ(y) : \E w \in pending' : Below(w, u)
    BY <1>2 DEF Below
  <1>5. (Leaks(y) => leaked') /\ Ends(y) \subseteq ended'
    BY DEF Visit
  <1>6. Entry(x.point)' = y
    <2>1. searched'[x.point] = y.known
      BY VisitSearches
    <2>2. y = [point |-> x.point, known |-> y.known]
      BY <1>1, CommonIsBelow DEF SearchInv, Node
    <2> QED
      BY <2>1, <2>2 DEF Entry
  <1>7. \A u \in Succ(y) : Expected(u)'
    BY <1>4 DEF Expected, Waiting
  <1> HIDE DEF y
  <1> QED
    BY <1>3, <1>5, <1>6, <1>7 DEF Explored

\* SearchInv is inductive.
LEMMA StepSearches ==
    ASSUME Nodes, Monotone, SearchInv, [Next]_vars
    PROVE  SearchInv'
  <1>1. CASE Walk
    <2>1. Entry(walker.point) \in Node /\ Below(Entry(walker.point), walker)
            /\ Explored(Entry(walker.point))
      BY <1>1, NothingWaits DEF Walk
    <2>2. walker \in Node /\ walker' \in Node
      BY <1>1 DEF Walk, SearchInv, Nodes
    <2>3. PICK u \in Succ(Entry(walker.point)) : Below(u, walker')
      BY <1>1, <2>1, <2>2 DEF Walk, Monotone
    <2>4. Covered(u)
      BY <1>1, <2>1 DEF Walk, Explored, Expected, Waiting
    <2>5. Covered(walker')
      BY <2>3, <2>4, CoveredDown
    <2> QED
      BY <1>1, <2>2, <2>5
      DEF Walk, SearchInv, Expected, Covered, Waiting, Explored, Entry
  <1>2. ASSUME NEW x \in pending, Skip(x)
        PROVE  SearchInv'
    <2>1. pending' \subseteq Node
      BY <1>2 DEF Skip, Rest, SearchInv
    <2>2. Expected(walker)'
      BY <1>2, SkipKeeps DEF Skip, SearchInv
    <2>3. ASSUME NEW q \in DOMAIN searched
          PROVE  Explored(Entry(q))'
      BY <1>2, SkipKeeps DEF Skip, SearchInv, Explored, Entry
    <2> QED
      BY <1>2, <2>1, <2>2, <2>3 DEF Skip, SearchInv
  <1>3. ASSUME NEW x \in pending, Visit(x)
        PROVE  SearchInv'
    <2>1. x \in Node
      BY DEF SearchInv
    <2>2. Expected(walker)'
      BY <1>3, VisitKeeps DEF Visit, SearchInv
    <2>3. /\ DOMAIN searched' \subseteq Point
          /\ \A q \in DOMAIN searched' : searched'[q] \subseteq Fact
      <3>1. x.point \in Point /\ Common(x).known \subseteq Fact
        BY <2>1, CommonIsBelow DEF Node
      <3>2. \A q \in DOMAIN searched : searched'[q] \subseteq Fact
        BY <1>3, VisitSearches DEF SearchInv
      <3> QED
        BY <1>3, <3>1, <3>2, VisitSearches DEF SearchInv
    <2>4. ASSUME NEW q \in DOMAIN searched', q # x.point
          PROVE  Explored(Entry(q))'
      <3>1. q \in DOMAIN searched /\ Entry(q)' = Entry(q)
        BY <1>3, <2>4, VisitSearches DEF Entry
      <3>2. \A u \in Succ(Entry(q)) : Expected(u)'
        BY <1>3, <3>1, VisitKeeps DEF SearchInv, Explored
      <3> QED
        BY <1>3, <3>1, <3>2 DEF Visit, SearchInv, Explored
    <2>5. Explored(Entry(x.point))'
      BY <1>3, VisitExplores
    <2> QED
      BY <1>3, <2>2, <2>3, <2>4, <2>5, VisitExplores DEF Visit, SearchInv
  <1>4. CASE UNCHANGED vars
    BY <1>4
    DEF vars, SearchInv, Expected, Covered, Waiting, Explored, Entry
  <1> QED
    BY <1>1, <1>2, <1>3, <1>4 DEF Next

\* A search with a memo misses no leak and no ending of any path, whatever it
\* searches and wherever it starts, as long as the nodes lead to nodes and
\* knowing less finds no less (NothingMissed; flow.go, explore).
THEOREM Searches ==
    ASSUME Nodes, Monotone
    PROVE  Spec => []NothingMissed
  <1>1. Init => SearchInv
    BY DEF Init, SearchInv, Expected, Covered, Waiting, Explored, Entry, Below
  <1>2. SearchInv /\ [Next]_vars => SearchInv'
    BY StepSearches
  <1>3. SearchInv => NothingMissed
    <2>1. SUFFICES ASSUME SearchInv, pending = {}
                   PROVE  (Leaks(walker) => leaked) /\ Ends(walker) \subseteq ended
      BY DEF NothingMissed
    <2>2. walker \in Node
      BY <2>1 DEF SearchInv
    <2> QED
      BY <2>1, <2>2, NothingWaits DEF Explored, Monotone
  <1> QED
    BY <1>1, <1>2, <1>3, PTL DEF Spec
=============================================================================
