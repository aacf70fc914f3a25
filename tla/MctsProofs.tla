----------------------------- MODULE MctsProofs -----------------------------
(***************************************************************************)
(* Theorems about Mcts, for every size of the board and of a line, for     *)
(* every threshold of expansion and for any number of playouts and moves.  *)
(***************************************************************************)
EXTENDS Mcts, BoardProofs, WellFoundedInduction

-----------------------------------------------------------------------------
\* Sequences, and the minimum of a set of columns.

LEMMA InToSet ==
  ASSUME NEW S, NEW s \in Seq(S), NEW x
  PROVE  x \in ToSet(s) <=> \E i \in 1..Len(s) : x = s[i]
<1>1. DOMAIN s = 1..Len(s)
  OBVIOUS
<1> QED BY <1>1 DEF ToSet

LEMMA ToSetAppend ==
  ASSUME NEW S, NEW s \in Seq(S), NEW e \in S
  PROVE  Append(s, e) \in Seq(S) /\ ToSet(Append(s, e)) = ToSet(s) \cup {e}
<1>1. Append(s, e) \in Seq(S) /\ Len(Append(s, e)) = Len(s) + 1 /\ Len(s) \in Nat
  OBVIOUS
<1>2. \A i \in 1..Len(s) : i \in 1..(Len(s) + 1) /\ Append(s, e)[i] = s[i]
  BY <1>1
<1>3. Len(s) + 1 \in 1..(Len(s) + 1) /\ Append(s, e)[Len(s) + 1] = e
  BY <1>1
<1>4. \A i \in 1..(Len(s) + 1) : i \in 1..Len(s) \/ i = Len(s) + 1
  BY <1>1
<1>5. \A x : x \in ToSet(Append(s, e)) <=> x \in ToSet(s) \cup {e}
  <2> TAKE x
  <2>1. x \in ToSet(Append(s, e)) <=> \E i \in 1..(Len(s) + 1) : x = Append(s, e)[i]
    BY <1>1, InToSet
  <2>2. x \in ToSet(s) <=> \E i \in 1..Len(s) : x = s[i]
    BY InToSet
  <2> QED BY <1>2, <1>3, <1>4, <2>1, <2>2
<1> QED BY <1>1, <1>5

LEMMA ToSetConcat ==
  ASSUME NEW S, NEW s \in Seq(S), NEW t \in Seq(S)
  PROVE  s \o t \in Seq(S) /\ ToSet(s \o t) = ToSet(s) \cup ToSet(t)
<1>1. s \o t \in Seq(S) /\ Len(s \o t) = Len(s) + Len(t) /\ Len(s) \in Nat /\ Len(t) \in Nat
  OBVIOUS
<1>2. \A i \in 1..Len(s) : i \in 1..(Len(s) + Len(t)) /\ (s \o t)[i] = s[i]
  BY <1>1
<1>3. \A i \in 1..Len(t) :
        i + Len(s) \in 1..(Len(s) + Len(t)) /\ (s \o t)[i + Len(s)] = t[i]
  BY <1>1
<1>4. \A i \in 1..(Len(s) + Len(t)) :
        i \in 1..Len(s) \/ (i - Len(s) \in 1..Len(t) /\ i = (i - Len(s)) + Len(s))
  BY <1>1
<1>5. \A x : x \in ToSet(s \o t) <=> x \in ToSet(s) \cup ToSet(t)
  <2> TAKE x
  <2>1. x \in ToSet(s \o t) <=> \E i \in 1..(Len(s) + Len(t)) : x = (s \o t)[i]
    BY <1>1, InToSet
  <2>2. /\ x \in ToSet(s) <=> \E i \in 1..Len(s) : x = s[i]
        /\ x \in ToSet(t) <=> \E i \in 1..Len(t) : x = t[i]
    BY InToSet
  <2> QED BY <1>2, <1>3, <1>4, <2>1, <2>2
<1> QED BY <1>1, <1>5

LEMMA ToSetTail ==
  ASSUME NEW S, NEW s \in Seq(S), s # <<>>
  PROVE  /\ Head(s) \in S /\ Tail(s) \in Seq(S)
         /\ ToSet(s) = {Head(s)} \cup ToSet(Tail(s))
<1>1. /\ Len(s) \in Nat /\ Len(s) > 0 /\ Head(s) = s[1] /\ Head(s) \in S
      /\ Tail(s) \in Seq(S) /\ Len(Tail(s)) = Len(s) - 1
  OBVIOUS
<1>2. \A i \in 1..(Len(s) - 1) : i + 1 \in 1..Len(s) /\ Tail(s)[i] = s[i + 1]
  BY <1>1
<1>3. \A i \in 1..Len(s) : i = 1 \/ (i - 1 \in 1..(Len(s) - 1) /\ i = (i - 1) + 1)
  BY <1>1
<1>4. 1 \in 1..Len(s)
  BY <1>1
<1>5. \A x : x \in ToSet(s) <=> x \in {Head(s)} \cup ToSet(Tail(s))
  <2> TAKE x
  <2> DEFINE t == Tail(s)
  <2>1. x \in ToSet(Tail(s)) <=> \E i \in 1..(Len(s) - 1) : x = Tail(s)[i]
    <3>1. t \in Seq(S) /\ Len(t) = Len(s) - 1
      BY <1>1
    <3> HIDE DEF t
    <3>2. x \in ToSet(t) <=> \E i \in 1..(Len(s) - 1) : x = t[i]
      BY <3>1, InToSet
    <3> QED BY <3>2 DEF t
  <2>2. x \in ToSet(s) <=> \E i \in 1..Len(s) : x = s[i]
    BY InToSet
  <2>3. Head(s) = s[1]
    BY <1>1
  <2> QED BY <1>2, <1>3, <1>4, <2>1, <2>2, <2>3
<1> QED BY <1>1, <1>5

\* Some naturals have a least one.
LEMMA LeastExists ==
  ASSUME NEW S, S # {}, S \subseteq Nat
  PROVE  \E x \in S : \A y \in S : x <= y
<1> DEFINE upTo == {0..x : x \in S}
<1>1. upTo \subseteq FiniteSubsetsOf(Nat) /\ upTo # {}
  <2>1. \A x \in S : IsFiniteSet(0..x) /\ 0..x \subseteq Nat
    BY FS_Interval
  <2> QED BY <2>1 DEF FiniteSubsetsOf
<1>2. PICK i \in upTo : \A j \in upTo : ~(<<j, i>> \in StrictSubsetOrdering(Nat))
  BY <1>1, FS_StrictSubsetOrderingWellFounded, WFMin
<1>3. PICK x \in S : i = 0..x
  OBVIOUS
<1>4. ASSUME NEW y \in S PROVE x <= y
  <2>1. SUFFICES ASSUME y < x PROVE FALSE
    OBVIOUS
  <2>2. 0..y \subseteq i /\ x \in i /\ x \notin 0..y
    BY <1>3, <2>1
  <2>3. 0..y \subseteq Nat /\ i \subseteq Nat
    BY <1>3
  <2>4. <<0..y, i>> \in StrictSubsetOrdering(Nat)
    BY <2>2, <2>3 DEF StrictSubsetOrdering
  <2> QED BY <1>2, <2>4
<1> QED BY <1>4

\* The leftmost of some cells is one of them.
LEMMA LeftmostExists ==
  ASSUME NEW S, S # {}, S \subseteq Cells
  PROVE  Leftmost(S) \in S
<1> DEFINE columns == {a[1] : a \in S}
<1>1. columns \subseteq Nat /\ columns # {}
  BY BoardAssumption DEF Cells
<1>2. PICK x \in columns : \A y \in columns : x <= y
  BY <1>1, LeastExists
<1>3. \E a \in S : \A b \in S : a[1] <= b[1]
  BY <1>2
<1> QED BY <1>3 DEF Leftmost

-----------------------------------------------------------------------------
\* The tree.

\* Nodes whose edges lead to nodes of a set, and that were tried max times at most.
NodesOf(set, max) ==
  [stage : Stages, tried : 0..max, won : [Players -> 0..max], expanded : BOOLEAN,
   children : Seq(set), parents : Seq(set)]

\* A node of a tree has the digest of its stage as its key; nobody but the root is without
\* a parent, and a parent has fewer keys than its child.
GoodNode(t, n, max) ==
  /\ t[n] \in NodesOf(DOMAIN t, max)
  /\ Exact(t[n].stage) /\ Digest(t[n].stage) = n
  /\ Decided(t[n]) <= t[n].tried
  /\ n # Root => t[n].parents # <<>>
  /\ \A p \in ToSet(t[n].parents) : p \subseteq n /\ p # n

GoodTree(t, max) ==
  /\ t = [n \in DOMAIN t |-> t[n]]
  /\ Root \in DOMAIN t
  /\ \A n \in DOMAIN t : GoodNode(t, n, max)

LEMMA SeqMonotone ==
  ASSUME NEW S, NEW T, S \subseteq T, NEW s \in Seq(S)
  PROVE  s \in Seq(T)
<1>1. Len(s) \in Nat /\ s \in [1..Len(s) -> T]
  OBVIOUS
<1> QED BY <1>1

LEMMA NodesMonotone ==
  ASSUME NEW S, NEW T, S \subseteq T, NEW m \in Nat, NEW n \in Nat, m <= n,
         NEW node \in NodesOf(S, m)
  PROVE  node \in NodesOf(T, n)
<1>1. node.children \in Seq(T) /\ node.parents \in Seq(T)
  BY SeqMonotone DEF NodesOf
<1>2. 0..m \subseteq 0..n
  OBVIOUS
<1> HIDE DEF Stages
<1> QED BY <1>1, <1>2 DEF NodesOf

\* More tries are allowed.
LEMMA GoodMonotone ==
  ASSUME NEW t, NEW m \in Nat, NEW n \in Nat, m <= n, GoodTree(t, m)
  PROVE  GoodTree(t, n)
BY NodesMonotone DEF GoodTree, GoodNode

\* add keeps a node that is there.
LEMMA AddKeeps ==
  ASSUME NEW t, NEW m, GoodTree(t, m), NEW s, Digest(s) \in DOMAIN t
  PROVE  Add(t, s) = t
<1> DEFINE d == Digest(s)
<1>1. DOMAIN t \cup {d} = DOMAIN t
  OBVIOUS
<1>2. Add(t, s) = [n \in DOMAIN t |-> t[n]]
  BY <1>1 DEF Add
<1> QED BY <1>2 DEF GoodTree

\* The node that a stage has in a tree, or gets.
NodeFor(t, s) == IF Digest(s) \in DOMAIN t THEN t[Digest(s)] ELSE NewNode(s)

\* A new node, and what may be changed in one, are of the right type.
LEMMA NewNodeGood ==
  ASSUME NEW s, Exact(s), NEW set, NEW m \in Nat
  PROVE  NewNode(s) \in NodesOf(set, m) /\ Decided(NewNode(s)) = 0
<1>1. s \in Stages
  BY DEF Exact
<1>2. [p \in Players |-> 0] \in [Players -> 0..m]
  OBVIOUS
<1>3. <<>> \in Seq(set)
  OBVIOUS
<1> QED BY <1>1, <1>2, <1>3 DEF NewNode, NodesOf, Decided, Players

\* The edges of a node of a tree, or of one that gets into it.
ChildrenIn(t, n) == IF n \in DOMAIN t THEN t[n].children ELSE <<>>
ParentsIn(t, n) == IF n \in DOMAIN t THEN t[n].parents ELSE <<>>

\* A tree u is a tree t with an edge more, from a parent to the node of a stage.
Linked(t, m, parent, s, u) ==
  /\ GoodTree(u, m)
  /\ DOMAIN u = DOMAIN t \cup {Digest(s)}
  /\ Digest(s) \notin DOMAIN t =>
       u[Digest(s)].tried = 0 /\ u[Digest(s)].expanded = FALSE /\ u[Digest(s)].stage = s
  /\ \A n \in DOMAIN t :
       /\ u[n].stage = t[n].stage /\ u[n].tried = t[n].tried
       /\ u[n].expanded = t[n].expanded
       /\ ToSet(t[n].children) \subseteq ToSet(u[n].children)
       /\ ToSet(u[n].parents) =
            ToSet(t[n].parents) \cup (IF n = Digest(s) THEN {parent} ELSE {})
  /\ Digest(s) \in ToSet(u[parent].children)
  /\ \A n \in DOMAIN u :
       /\ u[n].children = IF n = parent THEN Append(ChildrenIn(t, n), Digest(s))
                                        ELSE ChildrenIn(t, n)
       /\ u[n].parents = IF n = Digest(s) THEN Append(ParentsIn(t, n), parent)
                                          ELSE ParentsIn(t, n)

LEMMA LinkGood ==
  ASSUME NEW t, NEW m \in Nat, GoodTree(t, m), NEW parent \in DOMAIN t,
         NEW s, Exact(s), parent \subseteq Digest(s), parent # Digest(s)
  PROVE  Linked(t, m, parent, s, Link(t, parent, s))
<1> DEFINE c == Digest(s)
<1> DEFINE u == Link(t, parent, s)
<1> DEFINE dom == DOMAIN t \cup {c}
<1>1. /\ DOMAIN u = dom /\ u = [n \in DOMAIN u |-> u[n]]
      /\ u[parent] = [t[parent] EXCEPT !.children = Append(@, c)]
      /\ u[c] = [NodeFor(t, s) EXCEPT !.parents = Append(@, parent)]
      /\ \A n \in DOMAIN t \ {parent, c} : u[n] = t[n]
  <2> DEFINE v == Add(t, s)
  <2>1. /\ DOMAIN v = DOMAIN t \cup {c}
        /\ v[c] = NodeFor(t, s)
        /\ \A n \in DOMAIN t : v[n] = t[n]
    BY DEF Add, NodeFor
  <2>2. u = [v EXCEPT ![parent].children = Append(@, c), ![c].parents = Append(@, parent)]
    BY DEF Link
  <2> HIDE DEF v
  <2>3. DOMAIN u = DOMAIN t \cup {c} /\ u = [n \in DOMAIN u |-> u[n]]
    BY <2>1, <2>2
  <2>4. u[parent] = [v[parent] EXCEPT !.children = Append(@, c)]
    BY <2>1, <2>2
  <2>5. u[c] = [v[c] EXCEPT !.parents = Append(@, parent)]
    BY <2>1, <2>2
  <2>6. \A n \in DOMAIN t \ {parent, c} : u[n] = v[n]
    BY <2>1, <2>2
  <2> QED BY <2>1, <2>3, <2>4, <2>5, <2>6
<1> HIDE DEF u
<1>2. \A n \in DOMAIN t : GoodNode(t, n, m) /\ t[n] \in NodesOf(dom, m)
  <2>1. \A n \in DOMAIN t : GoodNode(t, n, m) /\ t[n] \in NodesOf(DOMAIN t, m)
    BY DEF GoodTree, GoodNode
  <2>2. DOMAIN t \subseteq dom /\ m <= m
    OBVIOUS
  <2>3. \A node \in NodesOf(DOMAIN t, m) : node \in NodesOf(dom, m)
    BY <2>2, NodesMonotone
  <2> QED BY <2>1, <2>3
<1>3. NodeFor(t, s) \in NodesOf(dom, m)
  BY <1>2, NewNodeGood DEF NodeFor
<1> DEFINE kids == t[parent].children
<1> DEFINE ups == NodeFor(t, s).parents
<1>4. /\ kids \in Seq(dom) /\ Append(kids, c) \in Seq(dom)
      /\ ToSet(Append(kids, c)) = ToSet(kids) \cup {c}
  <2>1. kids \in Seq(dom) /\ c \in dom
    BY <1>2 DEF NodesOf
  <2> QED BY <2>1, ToSetAppend
<1>5. /\ ups \in Seq(dom) /\ Append(ups, parent) \in Seq(dom)
      /\ ToSet(Append(ups, parent)) = ToSet(ups) \cup {parent}
      /\ Append(ups, parent) # <<>>
  <2>1. ups \in Seq(dom) /\ parent \in dom
    BY <1>3 DEF NodesOf
  <2>2. Append(ups, parent) # <<>>
    BY <2>1
  <2> QED BY <2>1, <2>2, ToSetAppend
<1> HIDE DEF kids, ups
<1>6. /\ u[parent] \in NodesOf(dom, m)
      /\ u[parent].stage = t[parent].stage /\ u[parent].tried = t[parent].tried
      /\ u[parent].won = t[parent].won
      /\ u[parent].expanded = t[parent].expanded
      /\ u[parent].parents = t[parent].parents
      /\ u[parent].children = Append(kids, c)
  <2>1. t[parent] \in NodesOf(dom, m)
    BY <1>2
  <2> HIDE DEF Stages, dom
  <2> QED BY <1>1, <1>4, <2>1 DEF NodesOf, kids
<1>7. /\ u[c] \in NodesOf(dom, m)
      /\ u[c].stage = NodeFor(t, s).stage /\ u[c].tried = NodeFor(t, s).tried
      /\ u[c].won = NodeFor(t, s).won
      /\ u[c].expanded = NodeFor(t, s).expanded
      /\ u[c].children = NodeFor(t, s).children
      /\ u[c].parents = Append(ups, parent)
  <2> HIDE DEF Stages, dom
  <2> QED BY <1>1, <1>3, <1>5 DEF NodesOf, ups
<1>8. ASSUME NEW n \in DOMAIN u PROVE GoodNode(u, n, m)
  <2>1. CASE n = c
    <3>1. Exact(NodeFor(t, s).stage) /\ Digest(NodeFor(t, s).stage) = c
      BY <1>2 DEF NodeFor, NewNode, GoodNode
    <3>2. Decided(NodeFor(t, s)) <= NodeFor(t, s).tried
      BY <1>2, NewNodeGood DEF NodeFor, NewNode, GoodNode
    <3>3. ToSet(<<>>) = {}
      BY DEF ToSet
    <3>4. \A p \in ToSet(ups) : p \subseteq c /\ p # c
      BY <1>2, <3>3 DEF NodeFor, NewNode, GoodNode, ups
    <3>5. \A p \in ToSet(u[c].parents) : p \subseteq c /\ p # c
      BY <1>5, <1>7, <3>4
    <3>6. Decided(u[c]) <= u[c].tried
      BY <1>7, <3>2 DEF Decided
    <3>7. u[c].parents # <<>>
      BY <1>5, <1>7
    <3>8. u[c] \in NodesOf(DOMAIN u, m) /\ Exact(u[c].stage) /\ Digest(u[c].stage) = c
      BY <1>1, <1>7, <3>1
    <3> QED BY <2>1, <3>5, <3>6, <3>7, <3>8 DEF GoodNode
  <2>2. CASE n = parent
    BY <1>1, <1>2, <1>6, <2>2 DEF GoodNode, Decided
  <2>3. CASE n \in DOMAIN t \ {parent, c}
    BY <1>1, <1>2, <2>3 DEF GoodNode
  <2> QED BY <1>1, <2>1, <2>2, <2>3
<1>9. GoodTree(u, m)
  BY <1>1, <1>8 DEF GoodTree
<1>10. c \notin DOMAIN t => u[c].tried = 0 /\ u[c].expanded = FALSE /\ u[c].stage = s
  BY <1>7 DEF NodeFor, NewNode
<1>11. ASSUME NEW n \in DOMAIN t
       PROVE  /\ u[n].stage = t[n].stage /\ u[n].tried = t[n].tried
              /\ u[n].expanded = t[n].expanded
              /\ ToSet(t[n].children) \subseteq ToSet(u[n].children)
              /\ ToSet(u[n].parents) = ToSet(t[n].parents) \cup (IF n = c THEN {parent} ELSE {})
  <2>1. CASE n = parent
    BY <1>4, <1>6, <2>1 DEF kids
  <2>2. CASE n = c
    BY <1>5, <1>7, <2>2 DEF NodeFor, ups
  <2>3. CASE n \notin {parent, c}
    BY <1>1, <2>3
  <2> QED BY <2>1, <2>2, <2>3
<1>12. c \in ToSet(u[parent].children)
  BY <1>4, <1>6
<1>13. ASSUME NEW n \in DOMAIN u
       PROVE  /\ u[n].children = IF n = parent THEN Append(ChildrenIn(t, n), c) ELSE ChildrenIn(t, n)
              /\ u[n].parents = IF n = c THEN Append(ParentsIn(t, n), parent) ELSE ParentsIn(t, n)
  <2>1. CASE n = c
    BY <1>7, <2>1 DEF NodeFor, NewNode, ups, ChildrenIn, ParentsIn
  <2>2. CASE n = parent
    BY <1>6, <2>2 DEF kids, ChildrenIn, ParentsIn
  <2>3. CASE n \in DOMAIN t \ {parent, c}
    BY <1>1, <2>3 DEF ChildrenIn, ParentsIn
  <2> QED BY <1>1, <2>1, <2>2, <2>3
<1> QED BY <1>1, <1>9, <1>10, <1>11, <1>12, <1>13 DEF Linked, u

\* A tree u differs from a tree t only in how often a node was tried and won.
Scored(t, m, n, u) ==
  /\ GoodTree(u, m) /\ DOMAIN u = DOMAIN t
  /\ u[n].tried = t[n].tried + 1
  /\ \A k \in DOMAIN t :
       /\ u[k].stage = t[k].stage /\ u[k].expanded = t[k].expanded
       /\ u[k].children = t[k].children /\ u[k].parents = t[k].parents
       /\ k # n => u[k].tried = t[k].tried

\* A node that has not had all its tries may be credited with one more.
LEMMA CreditGood ==
  ASSUME NEW t, NEW m \in Nat, GoodTree(t, m), NEW n \in DOMAIN t, t[n].tried < m
  PROVE  Scored(t, m, n, [t EXCEPT ![n] = Credited(@)])
<1> DEFINE u == [t EXCEPT ![n] = Credited(@)]
<1>1. DOMAIN u = DOMAIN t /\ u = [k \in DOMAIN u |-> u[k]]
  OBVIOUS
<1>2. u[n] = Credited(t[n]) /\ \A k \in DOMAIN t \ {n} : u[k] = t[k]
  BY DEF GoodTree
<1> HIDE DEF u
<1>3. t[n] \in NodesOf(DOMAIN t, m) /\ Decided(t[n]) <= t[n].tried
  BY DEF GoodTree, GoodNode
<1> DEFINE score == [p \in Players |-> IF p = winner THEN t[n].won[p] + 1 ELSE t[n].won[p]]
<1>4. /\ t[n].tried \in 0..m
      /\ t[n].won \in [Players -> 0..m]
  BY <1>3 DEF NodesOf
<1>5. /\ t[n].won[0] \in Nat /\ t[n].won[1] \in Nat
      /\ t[n].won[0] + t[n].won[1] < m
      /\ score[0] + score[1] <= t[n].won[0] + t[n].won[1] + 1
  BY <1>3, <1>4 DEF Decided, Players
<1>6. score \in [Players -> 0..m]
  <2>1. \A p \in Players : t[n].won[p] + 1 \in 0..m /\ t[n].won[p] \in 0..m
    BY <1>4, <1>5 DEF Players
  <2> QED BY <2>1
<1>7. /\ u[n].stage = t[n].stage /\ u[n].expanded = t[n].expanded
      /\ u[n].children = t[n].children /\ u[n].parents = t[n].parents
      /\ u[n].tried = t[n].tried + 1 /\ u[n].won = score
      /\ u[n] \in NodesOf(DOMAIN t, m)
  <2>1. u[n] = [t[n] EXCEPT !.tried = @ + 1, !.won = score]
    BY <1>2 DEF Credited
  <2>2. t[n].tried + 1 \in 0..m
    BY <1>4
  <2> HIDE DEF Stages, score
  <2> QED BY <1>3, <1>6, <2>1, <2>2 DEF NodesOf
<1>8. Decided(u[n]) <= u[n].tried
  <2>1. Decided(u[n]) = score[0] + score[1] /\ score[0] \in Nat /\ score[1] \in Nat
    BY <1>6, <1>7 DEF Decided, Players
  <2>2. t[n].won[0] + t[n].won[1] <= t[n].tried
    BY <1>3 DEF Decided
  <2> QED BY <1>4, <1>5, <1>7, <2>1, <2>2
<1>9. GoodTree(u, m)
  BY <1>1, <1>2, <1>7, <1>8 DEF GoodTree, GoodNode
<1> QED BY <1>1, <1>2, <1>7, <1>9 DEF Scored, u

\* A tree u differs from a tree t only in that a node is expanded.
Marked(t, m, n, u) ==
  /\ GoodTree(u, m) /\ DOMAIN u = DOMAIN t
  /\ \A k \in DOMAIN t :
       /\ u[k].stage = t[k].stage /\ u[k].tried = t[k].tried
       /\ u[k].children = t[k].children /\ u[k].parents = t[k].parents
       /\ k # n => u[k].expanded = t[k].expanded

LEMMA ExpandedGood ==
  ASSUME NEW t, NEW m \in Nat, GoodTree(t, m), NEW n \in DOMAIN t
  PROVE  Marked(t, m, n, [t EXCEPT ![n].expanded = TRUE])
<1> DEFINE u == [t EXCEPT ![n].expanded = TRUE]
<1>1. DOMAIN u = DOMAIN t /\ u = [k \in DOMAIN u |-> u[k]]
  OBVIOUS
<1>2. u[n] = [t[n] EXCEPT !.expanded = TRUE] /\ \A k \in DOMAIN t \ {n} : u[k] = t[k]
  BY DEF GoodTree
<1> HIDE DEF u
<1>3. t[n] \in NodesOf(DOMAIN t, m)
  BY DEF GoodTree, GoodNode
<1>4. /\ u[n].stage = t[n].stage /\ u[n].tried = t[n].tried /\ u[n].won = t[n].won
      /\ u[n].children = t[n].children /\ u[n].parents = t[n].parents
      /\ u[n] \in NodesOf(DOMAIN t, m)
  <2> HIDE DEF Stages
  <2> QED BY <1>2, <1>3 DEF NodesOf
<1>5. GoodTree(u, m)
  <2>1. \A k \in DOMAIN t : GoodNode(t, k, m)
    BY DEF GoodTree
  <2>2. GoodNode(u, n, m)
    BY <1>1, <1>4, <2>1 DEF GoodNode, Decided
  <2>3. \A k \in DOMAIN t \ {n} : GoodNode(u, k, m)
    BY <1>1, <1>2, <2>1 DEF GoodNode
  <2> QED BY <1>1, <2>2, <2>3 DEF GoodTree
<1> QED BY <1>1, <1>2, <1>4, <1>5 DEF Marked, u

-----------------------------------------------------------------------------
\* The inductive invariant.

\* The types, with what makes them inductive: whoever has not been credited in a playout
\* has been tried in earlier ones only.
Shape ==
  /\ GoodTree(nodes, playouts)
  /\ Exact(game) /\ Digest(game) \in DOMAIN nodes
  /\ Exact(rollout)
  /\ pc \in {"idle", "visit", "expand", "play", "credit"}
  /\ at \in DOMAIN nodes
  /\ todo \subseteq (IF pc = "expand" THEN LegalActions(nodes[at].stage.merged) ELSE {})
  /\ winner \in Players \cup {Nobody}
  /\ queue \in Seq(DOMAIN nodes)
  /\ visited \subseteq DOMAIN nodes
  /\ playouts \in 0..MaxPlayouts
  /\ moves \in 0..MaxMoves
  /\ pc # "credit" => visited = {}
  /\ pc # "idle" => \A n \in DOMAIN nodes \ visited : nodes[n].tried < playouts

\* The leaf, and the parents of whoever is credited, are credited or in the queue.
Met == visited \cup ToSet(queue)
NobodyForgotten ==
  pc = "credit" => at \in Met /\ \A n \in visited : ToSet(nodes[n].parents) \subseteq Met

RootCounted ==
  nodes[Root].tried = IF pc = "idle" \/ Root \in visited THEN playouts ELSE playouts - 1

\* A move that an expanded node registers is among its children or still to be linked.
Offers ==
  \A n \in DOMAIN nodes : nodes[n].expanded => \A a \in Registered(nodes[n].stage) :
    \/ n = at /\ a \in todo
    \/ Digest(After(nodes[n].stage, a)) \in ToSet(nodes[n].children)

Inv == Shape /\ NobodyForgotten /\ RootCounted /\ Offers

LEMMA InvInit == Init => Inv
<1> SUFFICES ASSUME Init PROVE Inv
  OBVIOUS
<1>1. DOMAIN nodes = {Root} /\ nodes = [n \in DOMAIN nodes |-> nodes[n]]
  BY DEF Init, Add, Root
<1>2. nodes[Root] = NewNode(InitialStage)
  BY DEF Init, Add, Root
<1>3. ToSet(<<>>) = {}
  BY DEF ToSet
<1>4. playouts = 0 /\ playouts \in 0..MaxPlayouts /\ moves \in 0..MaxMoves
  BY MctsAssumption DEF Init
<1>5. GoodNode(nodes, Root, playouts)
  BY <1>1, <1>2, <1>3, <1>4, InitialExact, NewNodeGood DEF GoodNode, NewNode, Root
<1>6. Shape
  <2>1. queue \in Seq(DOMAIN nodes)
    BY DEF Init
  <2> QED BY <1>1, <1>4, <1>5, <2>1, InitialExact DEF Init, Shape, GoodTree, Root
<1>7. NobodyForgotten /\ RootCounted /\ Offers
  BY <1>1, <1>2, <1>4 DEF Init, NobodyForgotten, RootCounted, Offers, NewNode
<1> QED BY <1>6, <1>7 DEF Inv

\* A move of a match puts an edge into the tree.
LEMMA MatchMoveLinks ==
  ASSUME Inv, NEW strategy, NEW a, MatchMove(strategy, a)
  PROVE  /\ Exact(game) /\ a \in LegalActions(game.merged) /\ Digest(game) \in DOMAIN nodes
         /\ Exact(After(game, a))
         /\ Linked(nodes, playouts, Digest(game), After(game, a), nodes')
<1> DEFINE d == Digest(game)
<1> DEFINE s == After(game, a)
<1> DEFINE c == Digest(s)
<1>1. /\ GoodTree(nodes, playouts) /\ playouts \in Nat /\ Exact(game) /\ d \in DOMAIN nodes
  BY MctsAssumption DEF Inv, Shape
<1>2. a \in LegalActions(game.merged)
  BY DEF MatchMove
<1>3. Exact(s) /\ d \subseteq c /\ d # c
  BY <1>1, <1>2, AfterExact DEF Digest
<1>4. nodes' = Link(nodes, d, s)
  BY <1>1, AddKeeps DEF MatchMove
<1> HIDE DEF d, s, c
<1>5. Linked(nodes, playouts, d, s, nodes')
  BY <1>1, <1>3, <1>4, LinkGood DEF c
<1> QED BY <1>1, <1>2, <1>3, <1>5 DEF d, s

LEMMA MatchMoveStep ==
  ASSUME Inv, NEW strategy, NEW a, MatchMove(strategy, a)
  PROVE  Inv'
<1> DEFINE d == Digest(game)
<1> DEFINE s == After(game, a)
<1> DEFINE c == Digest(s)
<1>1. /\ GoodTree(nodes, playouts) /\ playouts \in Nat
      /\ pc = "idle" /\ todo = {} /\ visited = {} /\ moves \in Nat
  BY MctsAssumption DEF Inv, Shape, MatchMove
<1>2. Exact(s) /\ Linked(nodes, playouts, d, s, nodes')
  BY MatchMoveLinks
<1> HIDE DEF d, s, c
<1>3. Shape'
  <2>1. /\ UNCHANGED <<pc, locals, playouts>>
        /\ moves < MaxMoves /\ moves' = moves + 1
        /\ game' = IF ResultOf(game, a) = "Won" THEN InitialStage ELSE s
    BY DEF MatchMove, s
  <2>2. Exact(game') /\ Digest(game') \in DOMAIN nodes'
    <3>1. Root \in DOMAIN nodes
      BY <1>1 DEF GoodTree
    <3> QED BY <1>2, <2>1, <3>1, InitialExact DEF Linked, Root, c
  <2>3. queue \in Seq(DOMAIN nodes')
    BY <1>2, SeqMonotone DEF Linked, Inv, Shape
  <2>4. moves' \in 0..MaxMoves
    BY <1>1, <2>1, MctsAssumption
  <2> QED BY <1>1, <1>2, <2>1, <2>2, <2>3, <2>4 DEF Linked, Inv, Shape, locals
<1>4. NobodyForgotten'
  BY <1>1 DEF MatchMove, NobodyForgotten
<1>5. RootCounted'
  BY <1>1, <1>2 DEF Linked, Inv, RootCounted, MatchMove, locals, GoodTree
<1>6. Offers'
  BY <1>1, <1>2 DEF Linked, Inv, Offers, MatchMove, locals
<1> QED BY <1>3, <1>4, <1>5, <1>6 DEF Inv

LEMMA MatchDrawStep ==
  ASSUME Inv, MatchDraw
  PROVE  Inv'
<1>1. Digest(InitialStage) \in DOMAIN nodes
  BY DEF Inv, Shape, GoodTree, Root
<1>2. Shape'
  BY <1>1, InitialExact DEF Inv, Shape, MatchDraw, locals
<1>3. NobodyForgotten' /\ RootCounted' /\ Offers'
  BY DEF Inv, NobodyForgotten, RootCounted, Offers, Met, MatchDraw, locals
<1> QED BY <1>2, <1>3 DEF Inv

LEMMA StartPlayoutStep ==
  ASSUME Inv, StartPlayout
  PROVE  Inv'
<1>1. /\ GoodTree(nodes, playouts) /\ playouts \in Nat
      /\ Exact(game) /\ Digest(game) \in DOMAIN nodes
      /\ pc = "idle" /\ todo = {} /\ visited = {}
  BY MctsAssumption DEF Inv, Shape, StartPlayout
<1>2. nodes' = nodes
  BY <1>1, AddKeeps DEF StartPlayout
<1>3. playouts' = playouts + 1 /\ playouts' \in 0..MaxPlayouts
  BY <1>1, MctsAssumption DEF StartPlayout
<1>4. GoodTree(nodes, playouts')
  BY <1>1, <1>3, GoodMonotone
<1>5. \A n \in DOMAIN nodes : nodes[n].tried < playouts'
  BY <1>1, <1>3 DEF GoodTree, GoodNode, NodesOf
<1>6. Shape'
  BY <1>1, <1>2, <1>3, <1>4, <1>5 DEF Inv, Shape, StartPlayout
<1>7. NobodyForgotten' /\ Offers'
  BY <1>1, <1>2 DEF Inv, NobodyForgotten, Offers, StartPlayout
<1>8. RootCounted'
  BY <1>1, <1>2, <1>3 DEF Inv, RootCounted, StartPlayout
<1> QED BY <1>6, <1>7, <1>8 DEF Inv

-----------------------------------------------------------------------------
\* The steps of a playout.

LEMMA VisitLeafStep ==
  ASSUME Inv, VisitLeaf
  PROVE  Inv'
<1>1. Shape'
  BY DEF Inv, Shape, VisitLeaf, StartPlay, GoodTree, GoodNode
<1>2. NobodyForgotten' /\ RootCounted' /\ Offers'
  BY DEF Inv, NobodyForgotten, RootCounted, Offers, Met, VisitLeaf, StartPlay
<1> QED BY <1>1, <1>2 DEF Inv

\* What expand registers are legal moves.
LEMMA RegisteredLegal ==
  ASSUME NEW s
  PROVE  Registered(s) \subseteq LegalActions(s.merged)
<1>1. Wins(s) \subseteq LegalActions(s.merged) /\ LegalActions(s.merged) \subseteq Cells
  BY DEF Wins, LegalActions
<1>2. CASE Wins(s) # {}
  BY <1>1, <1>2, LeftmostExists DEF Registered
<1>3. CASE Wins(s) = {}
  BY <1>3 DEF Registered
<1> QED BY <1>2, <1>3

LEMMA VisitInnerStep ==
  ASSUME Inv, VisitInner
  PROVE  Inv'
<1>1. /\ GoodTree(nodes, playouts) /\ playouts \in Nat /\ at \in DOMAIN nodes
      /\ pc = "visit" /\ todo = {} /\ visited = {}
  BY MctsAssumption DEF Inv, Shape, VisitInner
<1>2. CASE nodes[at].expanded
  <2>1. UNCHANGED <<nodes, game, at, todo, rollout, winner, queue, visited, playouts, moves>>
        /\ pc' = "expand"
    BY <1>2 DEF VisitInner
  <2>2. Shape'
    BY <1>1, <2>1 DEF Inv, Shape
  <2>3. NobodyForgotten' /\ RootCounted' /\ Offers'
    BY <1>1, <2>1 DEF Inv, NobodyForgotten, RootCounted, Offers
  <2> QED BY <2>2, <2>3 DEF Inv
<1>3. CASE ~nodes[at].expanded
  <2>1. /\ nodes' = [nodes EXCEPT ![at].expanded = TRUE]
        /\ todo' = Registered(nodes[at].stage) /\ pc' = "expand"
        /\ UNCHANGED <<game, at, rollout, winner, queue, visited, playouts, moves>>
    BY <1>3 DEF VisitInner
  <2>2. Marked(nodes, playouts, at, nodes')
    BY <1>1, <2>1, ExpandedGood
  <2>3. Shape'
    <3>1. todo' \subseteq LegalActions(nodes'[at].stage.merged)
      BY <1>1, <2>1, <2>2, RegisteredLegal DEF Marked
    <3>2. \A n \in DOMAIN nodes' \ visited' : nodes'[n].tried < playouts
      BY <1>1, <2>1, <2>2 DEF Marked, Inv, Shape
    <3>3. /\ Exact(game) /\ Digest(game) \in DOMAIN nodes /\ Exact(rollout)
          /\ winner \in Players \cup {Nobody} /\ queue \in Seq(DOMAIN nodes)
          /\ playouts \in 0..MaxPlayouts /\ moves \in 0..MaxMoves
      BY DEF Inv, Shape
    <3>4. GoodTree(nodes', playouts) /\ DOMAIN nodes' = DOMAIN nodes
      BY <2>2 DEF Marked
    <3> QED BY <1>1, <2>1, <3>1, <3>2, <3>3, <3>4 DEF Shape
  <2>4. NobodyForgotten' /\ RootCounted'
    BY <1>1, <2>1, <2>2 DEF Marked, Inv, NobodyForgotten, RootCounted, GoodTree
  <2>5. Offers'
    BY <1>1, <2>1, <2>2 DEF Marked, Inv, Offers
  <2> QED BY <2>3, <2>4, <2>5 DEF Inv
<1> QED BY <1>2, <1>3

\* A move that expand registers puts an edge into the tree.
LEMMA ExpandMoveLinks ==
  ASSUME Inv, ExpandMove
  PROVE  /\ at \in DOMAIN nodes /\ Leftmost(todo) \in todo
         /\ Leftmost(todo) \in LegalActions(nodes[at].stage.merged)
         /\ Linked(nodes, playouts, at, After(nodes[at].stage, Leftmost(todo)), nodes')
<1> DEFINE a == Leftmost(todo)
<1> DEFINE s == After(nodes[at].stage, a)
<1> DEFINE c == Digest(s)
<1>1. /\ GoodTree(nodes, playouts) /\ playouts \in Nat /\ at \in DOMAIN nodes
      /\ todo \subseteq LegalActions(nodes[at].stage.merged) /\ todo # {}
  BY MctsAssumption DEF Inv, Shape, ExpandMove
<1>2. a \in todo
  BY <1>1, LeftmostExists DEF LegalActions
<1>3. Exact(nodes[at].stage) /\ Digest(nodes[at].stage) = at
  BY <1>1 DEF GoodTree, GoodNode
<1>4. Exact(s) /\ at \subseteq c /\ at # c
  BY <1>1, <1>2, <1>3, AfterExact DEF Digest
<1>5. nodes' = Link(nodes, at, s)
  BY DEF ExpandMove
<1> HIDE DEF a, s, c
<1>6. Linked(nodes, playouts, at, s, nodes')
  BY <1>1, <1>4, <1>5, LinkGood DEF c
<1> QED BY <1>1, <1>2, <1>6 DEF a, s

LEMMA ExpandMoveStep ==
  ASSUME Inv, ExpandMove
  PROVE  Inv'
<1> DEFINE a == Leftmost(todo)
<1> DEFINE s == After(nodes[at].stage, a)
<1>1. /\ GoodTree(nodes, playouts) /\ playouts \in Nat /\ at \in DOMAIN nodes
      /\ pc = "expand" /\ visited = {}
      /\ todo \subseteq LegalActions(nodes[at].stage.merged) /\ todo # {}
  BY MctsAssumption DEF Inv, Shape, ExpandMove
<1>2. a \in todo /\ Linked(nodes, playouts, at, s, nodes')
  BY ExpandMoveLinks
<1>3. /\ todo' = todo \ {a}
      /\ UNCHANGED <<game, pc, at, rollout, winner, queue, visited, playouts, moves>>
  BY DEF ExpandMove
<1> HIDE DEF a, s
<1>4. Shape'
  <2>1. queue \in Seq(DOMAIN nodes')
    BY <1>2, SeqMonotone DEF Linked, Inv, Shape
  <2>2. \A n \in DOMAIN nodes' \ visited' : nodes'[n].tried < playouts
    <3>1. \A n \in DOMAIN nodes : nodes[n].tried < playouts
      BY <1>1 DEF Inv, Shape
    <3>2. 0 < playouts
      BY <1>1, <3>1 DEF GoodTree, GoodNode, NodesOf
    <3> QED BY <1>2, <3>1, <3>2 DEF Linked
  <2> QED BY <1>1, <1>3, <1>2, <2>1, <2>2 DEF Linked, Inv, Shape
<1>5. NobodyForgotten'
  BY <1>1, <1>3 DEF NobodyForgotten
<1>6. RootCounted'
  BY <1>1, <1>3, <1>2 DEF Linked, Inv, RootCounted, GoodTree
<1>7. Offers'
  BY <1>1, <1>3, <1>2 DEF Linked, Inv, Offers, s
<1> QED BY <1>4, <1>5, <1>6, <1>7 DEF Inv

\* A child is selected.
LEMMA SelectableKids ==
  ASSUME NEW n, NEW S, nodes[n].children \in Seq(S)
  PROVE  Selectable(n) \subseteq S
<1> DEFINE kids == nodes[n].children
<1> DEFINE undecided == {k \in 1..Len(kids) : Decided(nodes[kids[k]]) = 0}
<1>1. Len(kids) \in Nat /\ \A k \in 1..Len(kids) : kids[k] \in S
  OBVIOUS
<1>2. ToSet(kids) \subseteq S
  BY InToSet
<1>3. CASE undecided # {}
  <2>1. undecided \subseteq Nat
    BY <1>1
  <2>2. \E k \in undecided : \A l \in undecided : k <= l
    BY <1>3, <2>1, LeastExists
  <2>3. Min(undecided) \in undecided
    BY <2>2 DEF Min
  <2> QED BY <1>1, <1>3, <2>3 DEF Selectable
<1>4. CASE undecided = {}
  BY <1>2, <1>4 DEF Selectable
<1> QED BY <1>3, <1>4

LEMMA SelectStep ==
  ASSUME Inv, Select
  PROVE  Inv'
<1>1. /\ GoodTree(nodes, playouts) /\ at \in DOMAIN nodes
      /\ pc = "expand" /\ todo = {} /\ visited = {}
      /\ UNCHANGED <<nodes, game, todo, winner, queue, visited, playouts, moves>>
  BY DEF Inv, Shape, Select
<1>2. /\ pc' \in {"play", "visit"} /\ at' \in DOMAIN nodes /\ Exact(rollout')
  <2>1. CASE nodes[at].children = <<>> /\ StartPlay
    BY <1>1, <2>1 DEF StartPlay, GoodTree, GoodNode
  <2>2. CASE at' \in Selectable(at) /\ pc' = "visit" /\ UNCHANGED rollout
    <3>1. nodes[at].children \in Seq(DOMAIN nodes)
      BY <1>1 DEF GoodTree, GoodNode, NodesOf
    <3>2. Selectable(at) \subseteq DOMAIN nodes
      BY <3>1, SelectableKids
    <3> QED BY <2>2, <3>2 DEF Inv, Shape
  <2> QED BY <2>1, <2>2 DEF Select
<1>3. Shape'
  BY <1>1, <1>2 DEF Inv, Shape
<1>4. NobodyForgotten' /\ RootCounted' /\ Offers'
  BY <1>1, <1>2 DEF Inv, NobodyForgotten, RootCounted, Offers
<1> QED BY <1>3, <1>4 DEF Inv

LEMMA PlayEndsStep ==
  ASSUME Inv, PlayEnds
  PROVE  Inv'
<1>1. /\ pc = "play" /\ pc' = "credit" /\ queue' = <<at>> /\ UNCHANGED rollout
      /\ winner' = rollout.player \/ winner' = Nobody
      /\ UNCHANGED <<nodes, game, at, todo, visited, playouts, moves>>
  BY DEF PlayEnds, EndPlay
<1>2. visited = {} /\ todo = {} /\ at \in DOMAIN nodes /\ rollout.player \in Players
  BY <1>1 DEF Inv, Shape, Exact, Stages
<1>3. <<at>> \in Seq(DOMAIN nodes) /\ ToSet(<<at>>) = {at}
  BY <1>2 DEF ToSet
<1>4. Shape'
  BY <1>1, <1>2, <1>3 DEF Inv, Shape
<1>5. NobodyForgotten'
  BY <1>1, <1>2, <1>3 DEF NobodyForgotten, Met
<1>6. RootCounted' /\ Offers'
  BY <1>1, <1>2 DEF Inv, RootCounted, Offers
<1> QED BY <1>4, <1>5, <1>6 DEF Inv

LEMMA PlayRandomStep ==
  ASSUME Inv, NEW a, PlayRandom(a)
  PROVE  Inv'
<1>1. Exact(rollout')
  BY AfterExact DEF Inv, Shape, PlayRandom
<1>2. Shape'
  BY <1>1 DEF Inv, Shape, PlayRandom
<1>3. NobodyForgotten' /\ RootCounted' /\ Offers'
  BY DEF Inv, NobodyForgotten, RootCounted, Offers, Met, PlayRandom
<1> QED BY <1>2, <1>3 DEF Inv

LEMMA CreditStep ==
  ASSUME Inv, Credit
  PROVE  Inv'
<1> DEFINE n == Head(queue)
<1>1. /\ GoodTree(nodes, playouts) /\ playouts \in Nat
      /\ pc = "credit" /\ queue \in Seq(DOMAIN nodes) /\ queue # <<>> /\ todo = {}
      /\ UNCHANGED <<game, pc, at, todo, rollout, winner, playouts, moves>>
  BY MctsAssumption DEF Inv, Shape, Credit
<1>2. /\ n \in DOMAIN nodes /\ Tail(queue) \in Seq(DOMAIN nodes)
      /\ ToSet(queue) = {n} \cup ToSet(Tail(queue))
  BY <1>1, ToSetTail
<1> DEFINE rest == Tail(queue)
<1>3. \/ n \in visited /\ queue' = rest /\ UNCHANGED <<nodes, visited>>
      \/ /\ n \notin visited /\ visited' = visited \cup {n}
         /\ nodes' = [nodes EXCEPT ![n] = Credited(@)]
         /\ queue' = rest \o nodes[n].parents
  BY DEF Credit, CreditNode
<1> HIDE DEF n, rest
<1>4. ToSet(queue) = {n} \cup ToSet(rest) /\ rest \in Seq(DOMAIN nodes)
  BY <1>2 DEF rest
<1>5. CASE n \in visited /\ queue' = rest /\ UNCHANGED <<nodes, visited>>
  <2>1. Shape'
    BY <1>1, <1>4, <1>5 DEF Inv, Shape
  <2>2. NobodyForgotten'
    BY <1>1, <1>4, <1>5 DEF Inv, NobodyForgotten, Met
  <2>3. RootCounted' /\ Offers'
    BY <1>1, <1>5 DEF Inv, RootCounted, Offers
  <2> QED BY <2>1, <2>2, <2>3 DEF Inv
<1>6. CASE /\ n \notin visited /\ visited' = visited \cup {n}
           /\ nodes' = [nodes EXCEPT ![n] = Credited(@)]
           /\ queue' = rest \o nodes[n].parents
  <2>1. nodes[n].tried < playouts
    BY <1>1, <1>2, <1>6 DEF Inv, Shape
  <2>2. Scored(nodes, playouts, n, nodes')
    BY <1>1, <1>2, <1>6, <2>1, CreditGood
  <2>3. nodes[n].parents \in Seq(DOMAIN nodes)
    BY <1>1, <1>2 DEF GoodTree, GoodNode, NodesOf
  <2>4. /\ queue' \in Seq(DOMAIN nodes)
        /\ ToSet(queue') = ToSet(rest) \cup ToSet(nodes[n].parents)
    BY <1>4, <1>6, <2>3, ToSetConcat
  <2>5. Shape'
    BY <1>1, <1>2, <1>6, <2>2, <2>4 DEF Inv, Shape, Scored
  <2>6. NobodyForgotten'
    <3>1. Met' = Met \cup ToSet(nodes[n].parents)
      BY <1>4, <1>6, <2>4 DEF Met
    <3>2. at \in Met /\ \A k \in visited : ToSet(nodes[k].parents) \subseteq Met
      BY <1>1 DEF Inv, NobodyForgotten
    <3>3. visited \subseteq DOMAIN nodes
      BY DEF Inv, Shape
    <3>4. \A k \in visited' : ToSet(nodes'[k].parents) \subseteq Met'
      BY <1>2, <1>6, <2>2, <3>1, <3>2, <3>3 DEF Scored
    <3> QED BY <1>1, <3>1, <3>2, <3>4 DEF NobodyForgotten
  <2>7. RootCounted'
    <3>1. Root \in DOMAIN nodes /\ pc # "idle"
      BY <1>1 DEF GoodTree
    <3>2. CASE n = Root
      BY <1>1, <1>6, <2>2, <3>1, <3>2 DEF Inv, RootCounted, Scored
    <3>3. CASE n # Root
      BY <1>1, <1>6, <2>2, <3>1, <3>3 DEF Inv, RootCounted, Scored
    <3> QED BY <3>2, <3>3
  <2>8. Offers'
    BY <1>1, <2>2 DEF Inv, Offers, Scored
  <2> QED BY <2>5, <2>6, <2>7, <2>8 DEF Inv
<1> QED BY <1>3, <1>5, <1>6

\* Whoever leads upward from a credited node ends at the root: of the credited nodes take
\* one with the fewest keys.
LEMMA RootReached ==
  ASSUME Shape, NobodyForgotten, pc = "credit", queue = <<>>
  PROVE  Root \in visited
<1> DEFINE keys == Players \X Mask
<1>1. Met = visited
  BY DEF Met, ToSet
<1>2. visited # {} /\ \A n \in visited : ToSet(nodes[n].parents) \subseteq visited
  BY <1>1 DEF NobodyForgotten
<1>3. \A n \in visited : n \in DOMAIN nodes /\ GoodNode(nodes, n, playouts)
  BY DEF Shape, GoodTree
<1>4. IsFiniteSet(keys)
  <2>1. IsFiniteSet(Players)
    <3>1. 0 \in Int /\ 1 \in Int
      OBVIOUS
    <3>2. IsFiniteSet(0..1)
      BY <3>1, FS_Interval
    <3>3. 0..1 = Players
      BY DEF Players
    <3> QED BY <3>2, <3>3
  <2> QED BY <2>1, MaskFinite, FS_Product
<1>5. visited \subseteq FiniteSubsetsOf(keys)
  <2>1. ASSUME NEW n \in visited PROVE n \subseteq keys
    BY <1>3 DEF GoodNode, Exact, Stages, Boards, Digest
  <2> QED BY <1>4, <2>1, FS_Subset DEF FiniteSubsetsOf
<1>6. PICK n \in visited : \A k \in visited : ~(<<k, n>> \in StrictSubsetOrdering(keys))
  BY <1>2, <1>5, FS_StrictSubsetOrderingWellFounded, WFMin
<1>7. SUFFICES ASSUME n # Root PROVE FALSE
  BY <1>6
<1>8. nodes[n].parents \in Seq(DOMAIN nodes) /\ nodes[n].parents # <<>>
  BY <1>3, <1>7 DEF GoodNode, NodesOf
<1>9. Head(nodes[n].parents) \in ToSet(nodes[n].parents)
  BY <1>8, ToSetTail
<1>10. PICK p \in visited : p \subseteq n /\ p # n
  BY <1>2, <1>3, <1>9 DEF GoodNode
<1>11. <<p, n>> \in StrictSubsetOrdering(keys)
  BY <1>5, <1>10 DEF StrictSubsetOrdering, FiniteSubsetsOf
<1> QED BY <1>6, <1>11

LEMMA EndPlayoutStep ==
  ASSUME Inv, EndPlayout
  PROVE  Inv'
<1>1. Root \in visited
  BY RootReached DEF Inv, EndPlayout
<1>2. Shape'
  BY InitialExact DEF Inv, Shape, EndPlayout, GoodTree
<1>3. NobodyForgotten' /\ RootCounted' /\ Offers'
  BY <1>1 DEF Inv, Shape, NobodyForgotten, RootCounted, Offers, EndPlayout
<1> QED BY <1>2, <1>3 DEF Inv

LEMMA InvStep == Inv /\ [Next]_vars => Inv'
<1> SUFFICES ASSUME Inv, [Next]_vars PROVE Inv'
  OBVIOUS
<1>1. ASSUME NEW strategy, NEW a, MatchMove(strategy, a) PROVE Inv'
  BY <1>1, MatchMoveStep
<1>2. CASE PlayoutStep
  BY <1>2, VisitLeafStep, VisitInnerStep, ExpandMoveStep, SelectStep, PlayEndsStep,
     PlayRandomStep, CreditStep, EndPlayoutStep DEF PlayoutStep
<1>3. CASE UNCHANGED vars
  BY <1>3 DEF vars, locals, Inv, Shape, NobodyForgotten, RootCounted, Offers, Met
<1> QED BY <1>1, <1>2, <1>3, MatchDrawStep, StartPlayoutStep DEF Next, Idle

LEMMA Invariance == Spec => []Inv
BY InvInit, InvStep, PTL DEF Spec

-----------------------------------------------------------------------------
\* What follows from the invariant.

\* Nodes are kept under the digest of their stage, whoever refers to a node refers to one
\* of the set, and no node is tried or won more often than there were playouts.
THEOREM TypeCorrect == Spec => []TypeOK
<1>1. ASSUME Inv PROVE TypeOK
  <2>1. nodes \in [DOMAIN nodes -> Nodes]
    BY <1>1 DEF Inv, Shape, GoodTree, GoodNode, NodesOf, Nodes
  <2> QED BY <1>1, <2>1 DEF Inv, Shape, GoodTree, GoodNode, Exact, TypeOK
<1> QED BY <1>1, Invariance, PTL

\* playout credits the leaf and, with whoever it credits, all parents.
THEOREM ResultsReachAncestors == Spec => []CreditedUpward
<1>1. ASSUME Inv PROVE CreditedUpward
  <2>1. ASSUME pc = "credit", queue = <<>> PROVE at \in visited /\ Above(visited) = visited
    <3>1. Met = visited
      BY <2>1 DEF Met, ToSet
    <3> QED BY <1>1, <2>1, <3>1 DEF Inv, NobodyForgotten, Above
  <2> QED BY <2>1 DEF CreditedUpward
<1> QED BY <1>1, Invariance, PTL

\* On whatever ways a leaf hangs below the root, playout credits the root exactly once.
THEOREM RootCountsPlayouts == Spec => []CountedOnceInRoot
<1>1. Inv => CountedOnceInRoot
  BY DEF Inv, RootCounted, CountedOnceInRoot
<1> QED BY <1>1, Invariance, PTL

\* expand offers select a winning move or every legal one, whoever had registered nodes
\* before.
THEOREM ExpandHidesNoMove == Spec => []ExpandedOffersMoves
<1>1. ASSUME Inv PROVE ExpandedOffersMoves
  <2> SUFFICES ASSUME NEW n \in DOMAIN nodes, nodes[n].expanded, ~(n = at /\ todo # {})
               PROVE  LET legal == LegalActions(nodes[n].stage.merged)
                          offered == {a \in legal :
                            Digest(After(nodes[n].stage, a)) \in ToSet(nodes[n].children)}
                      IN  offered = legal \/ \E a \in offered : ResultOf(nodes[n].stage, a) = "Won"
    BY DEF ExpandedOffersMoves
  <2> DEFINE stage == nodes[n].stage
  <2>1. \A a \in Registered(stage) : Digest(After(stage, a)) \in ToSet(nodes[n].children)
    BY <1>1 DEF Inv, Offers
  <2>2. CASE Wins(stage) # {}
    <3>1. Leftmost(Wins(stage)) \in Wins(stage)
      BY <2>2, LeftmostExists DEF Wins, LegalActions
    <3> QED BY <2>1, <2>2, <3>1 DEF Registered, Wins
  <2>3. CASE Wins(stage) = {}
    BY <2>1, <2>3 DEF Registered
  <2> QED BY <2>2, <2>3
<1> QED BY <1>1, Invariance, PTL

-----------------------------------------------------------------------------
\* The turn of a stage.

Count(s, p) == Cardinality(s.boards[p].placed)
Lead(s) == Count(s, 0) - Count(s, 1)

\* What the stones of a stage say about whose turn it is. Without a line the first player
\* leads by a stone when the second one is on turn, but the last stone of a full board does
\* not pass the turn, and neither does a stone that completes a line. A game that goes on
\* after somebody has won may therefore have him lead by more, never by less; when both
\* have won, or on a full board somebody has won, nothing is said.
Balanced(s) ==
  LET first == LineOf(s.boards[0].placed)
      second == LineOf(s.boards[1].placed)
      full == Full(s.merged)
  IN  /\ ~first /\ ~second /\ ~full => Lead(s) = s.player
      /\ ~first /\ ~second /\ full /\ s.merged.placed # {} => Lead(s) = 1 - s.player
      /\ first /\ ~second /\ ~full => Lead(s) >= 1 + s.player
      /\ second /\ ~first /\ ~full => Lead(s) <= s.player - 1

\* A line of the model is a line of one of the two players.
LEMMA HasLineOf ==
  ASSUME NEW s
  PROVE  HasLine(s) <=> LineOf(s.boards[0].placed) \/ LineOf(s.boards[1].placed)
BY DEF HasLine, LineOf, Players

\* A player has finitely many stones.
LEMMA CountFinite ==
  ASSUME NEW s, Exact(s), NEW p \in Players
  PROVE  IsFiniteSet(s.boards[p].placed) /\ Count(s, p) \in Nat
<1>1. s.boards[p].placed \subseteq Mask
  BY DEF Exact, Stages, Boards
<1> QED BY <1>1, MaskFinite, FS_Subset, FS_CardinalityType DEF Count

\* Before the first move nobody leads, has a line, or has stones.
LEMMA InitialBalanced == Balanced(InitialStage) /\ ~HasLine(InitialStage)
<1>1. /\ InitialStage.boards[0].placed = {} /\ InitialStage.boards[1].placed = {}
      /\ InitialStage.player = 0
  BY DEF InitialStage, EmptyBoard, Players
<1>2. InitialStage.merged.placed = {}
  BY <1>1, InitialExact DEF Exact, Both
<1>3. ~LineOf({})
  BY DEF LineOf
<1>4. Lead(InitialStage) = 0
  BY <1>1, FS_EmptySet DEF Lead, Count
<1> QED BY <1>1, <1>2, <1>3, <1>4, HasLineOf DEF Balanced

\* Where a move is legal the board is not full.
LEMMA FreeCellLeft ==
  ASSUME NEW s, Exact(s), LegalActions(s.merged) # {}
  PROVE  ~Full(s.merged)
<1>1. s.merged.placed \subseteq Mask
  BY DEF Exact, Stages, Boards
<1> QED BY <1>1, FullBoardHasNoMove

\* A legal move adds a stone of the player on turn, and no line but the one it wins by.
LEMMA MoveCounts ==
  ASSUME NEW s, Exact(s), NEW a \in LegalActions(s.merged), NEW t, t = After(s, a)
  PROVE  \A p \in Players :
           /\ LineOf(t.boards[p].placed) <=>
                LineOf(s.boards[p].placed) \/ (p = s.player /\ ResultOf(s, a) = "Won")
           /\ Count(t, p) = IF p = s.player THEN Count(s, p) + 1 ELSE Count(s, p)
           /\ Count(s, p) \in Nat
<1> TAKE p \in Players
<1> DEFINE index == ToIndex(a[1], a[2])
<1>1. /\ t.boards[p].placed = IF p = s.player THEN s.boards[p].placed \cup {index}
                                              ELSE s.boards[p].placed
      /\ index \notin s.boards[p].placed
  BY AfterStones
<1>2. ResultOf(s, a) = "Won" <=> Check(t.boards[s.player].placed, a[1], a[2])
  BY AfterAnswer
<1>3. LineOf(t.boards[p].placed) <=>
        LineOf(s.boards[p].placed) \/ (p = s.player /\ ResultOf(s, a) = "Won")
  <2>1. <<a[1], a[2]>> \in Cells
    BY DEF LegalActions, Cells
  <2> QED BY <1>1, <1>2, <2>1, NewLineIsThroughStone
<1>4. IsFiniteSet(s.boards[p].placed) /\ Count(s, p) \in Nat
  BY CountFinite
<1>5. Count(t, p) = IF p = s.player THEN Count(s, p) + 1 ELSE Count(s, p)
  BY <1>1, <1>4, FS_AddElement DEF Count
<1> QED BY <1>3, <1>4, <1>5

\* A legal move keeps what the stones say.
LEMMA AfterBalanced ==
  ASSUME NEW s, Exact(s), Balanced(s), NEW a \in LegalActions(s.merged), NEW t, t = After(s, a)
  PROVE  /\ Balanced(t)
         /\ ResultOf(s, a) # "Won" /\ ~HasLine(s) => ~HasLine(t)
<1> DEFINE me == s.player
           won == ResultOf(s, a) = "Won"
           full == Full(t.merged)
<1>1. me \in Players /\ t.player = IF won \/ full THEN me ELSE 1 - me
  BY AfterStones, AfterAnswer
<1>2. \A p \in Players :
        /\ LineOf(t.boards[p].placed) <=> LineOf(s.boards[p].placed) \/ (p = me /\ won)
        /\ Count(t, p) = IF p = me THEN Count(s, p) + 1 ELSE Count(s, p)
        /\ Count(s, p) \in Nat
  BY MoveCounts
<1>3. ~Full(s.merged)
  BY FreeCellLeft
<1>4. /\ LineOf(t.boards[0].placed) <=> LineOf(s.boards[0].placed) \/ (me = 0 /\ won)
      /\ LineOf(t.boards[1].placed) <=> LineOf(s.boards[1].placed) \/ (me = 1 /\ won)
      /\ Lead(s) \in Int /\ Lead(t) = IF me = 0 THEN Lead(s) + 1 ELSE Lead(s) - 1
  BY <1>1, <1>2 DEF Lead, Players
<1> HIDE DEF me, won, full
<1>5. ~won /\ ~HasLine(s) => ~HasLine(t)
  BY <1>4, HasLineOf
<1>6. Balanced(t)
  <2>1. CASE me = 0
    BY <1>1, <1>3, <1>4, <2>1 DEF Balanced, me, full
  <2>2. CASE me = 1
    BY <1>1, <1>3, <1>4, <2>2 DEF Balanced, me, full
  <2> QED BY <1>1, <2>1, <2>2 DEF Players
<1> QED BY <1>5, <1>6 DEF won

\* Exact stages with the same digest differ at most in the turn.
LEMMA DigestIdentifies ==
  ASSUME NEW s, Exact(s), NEW t, Exact(t), Digest(s) = Digest(t)
  PROVE  s.boards = t.boards /\ s.merged = t.merged
<1>1. /\ s.boards \in [Players -> Boards] /\ t.boards \in [Players -> Boards]
      /\ \A p \in Players : /\ s.boards[p].digest = KeysOf(p, s.boards[p].placed)
                            /\ t.boards[p].digest = KeysOf(p, t.boards[p].placed)
      /\ s.merged = Both(s.boards) /\ t.merged = Both(t.boards)
  BY DEF Exact, ExactBoards
<1>2. KeysOf(0, s.boards[0].placed) \cup KeysOf(1, s.boards[1].placed) =
        KeysOf(0, t.boards[0].placed) \cup KeysOf(1, t.boards[1].placed)
  BY <1>1 DEF Digest, Both
<1>3. ASSUME NEW p \in Players PROVE s.boards[p] = t.boards[p]
  <2>1. ASSUME NEW i PROVE i \in s.boards[p].placed <=> i \in t.boards[p].placed
    <3>1. /\ i \in s.boards[p].placed <=>
               <<p, i>> \in KeysOf(0, s.boards[0].placed) \cup KeysOf(1, s.boards[1].placed)
          /\ i \in t.boards[p].placed <=>
               <<p, i>> \in KeysOf(0, t.boards[0].placed) \cup KeysOf(1, t.boards[1].placed)
      BY DEF KeysOf, Players
    <3> QED BY <1>2, <3>1
  <2>2. s.boards[p].placed = t.boards[p].placed
    BY <2>1
  <2>3. s.boards[p].digest = t.boards[p].digest
    BY <1>1, <2>2
  <2>4. s.boards[p] \in Boards /\ t.boards[p] \in Boards
    BY <1>1
  <2> QED BY <2>2, <2>3, <2>4 DEF Boards
<1>4. s.boards = t.boards
  BY <1>1, <1>3
<1> QED BY <1>1, <1>4

\* A node that stands for a stage with a free cell and no line is that stage, turn included.
LEMMA OpenStageKnown ==
  ASSUME NEW s, Exact(s), Balanced(s), NEW t, Exact(t), Balanced(t), Digest(s) = Digest(t),
         ~HasLine(s), LegalActions(s.merged) # {}
  PROVE  s = t
<1>1. s.boards = t.boards /\ s.merged = t.merged
  BY DigestIdentifies
<1>2. ~Full(s.merged)
  BY FreeCellLeft
<1>3. s.player = t.player
  BY <1>1, <1>2, HasLineOf DEF Balanced, Lead, Count
<1>4. s \in Stages /\ t \in Stages
  BY DEF Exact
<1> QED BY <1>1, <1>3, <1>4 DEF Stages

\* The child is the stage that a move of its parent leads to, but for the turn on a full
\* board that somebody has won.
IsMove(stage, kid) ==
  \E a \in LegalActions(stage.merged) :
    LET moved == After(stage, a) IN
      \/ kid = moved
      \/ /\ HasLine(moved) /\ Full(moved.merged)
         /\ kid = [moved EXCEPT !.player = 1 - @]

\* Whatever node has the digest of an undecided stage's move is that move.
LEMMA MoveKnown ==
  ASSUME NEW s, Exact(s), Balanced(s), ~HasLine(s), NEW a \in LegalActions(s.merged),
         NEW t, Exact(t), Balanced(t), Digest(t) = Digest(After(s, a))
  PROVE  IsMove(s, t)
<1> DEFINE moved == After(s, a)
           me == s.player
           line(r, p) == LineOf(r.boards[p].placed)
<1>1. Exact(moved) /\ Balanced(moved)
  BY AfterExact, AfterBalanced
<1>2. t.boards = moved.boards /\ t.merged = moved.merged
  BY <1>1, DigestIdentifies
<1>3. moved.player \in Players /\ t.player \in Players /\ me \in Players
      /\ moved \in Stages /\ t \in Stages
  BY <1>1 DEF Exact, Stages
<1>4. t.player = moved.player => t = moved
  BY <1>2, <1>3 DEF Stages
<1>5. t.player # moved.player => t = [moved EXCEPT !.player = 1 - @]
  BY <1>2, <1>3 DEF Stages, Players
<1>6. ASSUME t.player # moved.player PROVE HasLine(moved) /\ Full(moved.merged)
  <2>1. Lead(t) = Lead(moved)
    BY <1>2 DEF Lead, Count
  <2>2. moved.merged.placed # {}
    BY AfterStones
  <2>3. HasLine(moved)
    BY <1>1, <1>2, <1>3, <1>6, <2>1, <2>2, HasLineOf DEF Balanced, Players
  <2>4. SUFFICES ASSUME ~Full(moved.merged) PROVE FALSE
    BY <2>3
  <2>5. ResultOf(s, a) = "Won"
    BY <2>3, AfterBalanced
  <2>6. Lead(s) = me
    <3>1. ~Full(s.merged)
      BY FreeCellLeft
    <3> QED BY <3>1, HasLineOf DEF Balanced
  <2>7. moved.player = me
    BY <2>5, AfterAnswer
  <2>8. \A p \in Players :
          /\ LineOf(moved.boards[p].placed) <=> p = me
          /\ Count(moved, p) = IF p = me THEN Count(s, p) + 1 ELSE Count(s, p)
          /\ Count(s, p) \in Nat
    BY <2>5, MoveCounts, HasLineOf DEF Players
  <2>9. /\ LineOf(t.boards[0].placed) <=> me = 0
        /\ LineOf(t.boards[1].placed) <=> me = 1
        /\ Lead(t) = IF me = 0 THEN 1 ELSE 0
    BY <1>2, <1>3, <2>1, <2>6, <2>8 DEF Lead, Players
  <2>10. ~Full(t.merged) /\ t.player = 1 - me
    BY <1>2, <1>3, <1>6, <2>4, <2>7 DEF Players
  <2> HIDE DEF me
  <2> QED BY <1>3, <2>9, <2>10 DEF Balanced, Players
<1> QED BY <1>4, <1>5, <1>6 DEF IsMove

-----------------------------------------------------------------------------
\* The edges of the tree.

\* How often something is in a sequence.
LEMMA TimesAppend ==
  ASSUME NEW S, NEW s \in Seq(S), NEW x \in S, NEW n
  PROVE  /\ Times(s, n) \in Nat
         /\ Times(Append(s, x), n) = IF x = n THEN Times(s, n) + 1 ELSE Times(s, n)
<1> DEFINE old == {k \in 1..Len(s) : s[k] = n}
           new == {k \in 1..Len(Append(s, x)) : Append(s, x)[k] = n}
           last == Len(s) + 1
<1>1. /\ Len(s) \in Nat /\ Len(Append(s, x)) = last /\ Append(s, x)[last] = x
      /\ \A k \in 1..Len(s) : Append(s, x)[k] = s[k]
  OBVIOUS
<1>2. new = IF x = n THEN old \cup {last} ELSE old
  BY <1>1
<1>3. last \notin old
  BY <1>1
<1>4. IsFiniteSet(old) /\ Cardinality(old) \in Nat
  <2>1. IsFiniteSet(1..Len(s))
    BY <1>1, FS_Interval
  <2> QED BY <2>1, FS_Subset, FS_CardinalityType
<1> HIDE DEF old, new, last
<1>5. Cardinality(new) = IF x = n THEN Cardinality(old) + 1 ELSE Cardinality(old)
  BY <1>2, <1>3, <1>4, FS_AddElement
<1> QED BY <1>4, <1>5 DEF Times, old, new

\* What is not among the elements of a sequence is never in it.
LEMMA TimesOther ==
  ASSUME NEW S, NEW s \in Seq(S), NEW n, n \notin S
  PROVE  Times(s, n) = 0
<1>1. {k \in 1..Len(s) : s[k] = n} = {}
  BY DEF Seq
<1> QED BY <1>1, FS_EmptySet DEF Times

\* The edges of a tree: stages agree with their stones, edges from undecided stages are
\* moves, and both ends of an edge record it equally often.
TreeEdges(t) ==
  /\ \A n \in DOMAIN t : Balanced(t[n].stage)
  /\ \A n \in DOMAIN t : ~HasLine(t[n].stage) =>
       \A c \in ToSet(t[n].children) : IsMove(t[n].stage, t[c].stage)
  /\ \A n, c \in DOMAIN t : Times(t[n].children, c) = Times(t[c].parents, n)

\* A move from a stage whose node is in the tree keeps this, whichever game reached it.
LEMMA LinkEdges ==
  ASSUME NEW t, NEW m \in Nat, GoodTree(t, m), TreeEdges(t),
         NEW r, Exact(r), Balanced(r), Digest(r) \in DOMAIN t, NEW a \in LegalActions(r.merged),
         NEW u, Linked(t, m, Digest(r), After(r, a), u)
  PROVE  TreeEdges(u)
<1> DEFINE parent == Digest(r)
           s == After(r, a)
           c == Digest(s)
<1>1. /\ GoodTree(u, m) /\ DOMAIN u = DOMAIN t \cup {c} /\ parent # c
      /\ \A n \in DOMAIN t : u[n].stage = t[n].stage
      /\ c \notin DOMAIN t => u[c].stage = s
      /\ \A n \in DOMAIN u :
           /\ u[n].children = IF n = parent THEN Append(ChildrenIn(t, n), c) ELSE ChildrenIn(t, n)
           /\ u[n].parents = IF n = c THEN Append(ParentsIn(t, n), parent) ELSE ParentsIn(t, n)
  BY AfterExact DEF Linked, Digest
<1>2. Exact(s) /\ Balanced(s)
  BY AfterExact, AfterBalanced
<1> HIDE DEF parent, s, c
<1>3. ASSUME NEW n \in DOMAIN t
      PROVE  /\ t[n].children \in Seq(DOMAIN t) /\ t[n].parents \in Seq(DOMAIN t)
             /\ Exact(t[n].stage) /\ Digest(t[n].stage) = n /\ Balanced(t[n].stage)
  BY DEF GoodTree, GoodNode, NodesOf, TreeEdges
<1>4. \A n \in DOMAIN u : Exact(u[n].stage) /\ Digest(u[n].stage) = n
  BY <1>1 DEF GoodTree, GoodNode
<1>5. \A n \in DOMAIN u : Balanced(u[n].stage)
  BY <1>1, <1>2, <1>3
<1>6. ASSUME NEW n \in DOMAIN u
      PROVE  ChildrenIn(t, n) \in Seq(DOMAIN t) /\ ParentsIn(t, n) \in Seq(DOMAIN t)
  <2>1. <<>> \in Seq(DOMAIN t)
    OBVIOUS
  <2> QED BY <1>3, <2>1 DEF ChildrenIn, ParentsIn
<1>7. ASSUME NEW n \in DOMAIN u, ~HasLine(u[n].stage), NEW k \in ToSet(u[n].children)
      PROVE  IsMove(u[n].stage, u[k].stage)
  <2>1. CASE n = parent /\ k = c
    <3>1. t[n].stage = r
      <4>1. n \in DOMAIN t /\ Digest(t[n].stage) = Digest(r) /\ Exact(t[n].stage)
            /\ Balanced(t[n].stage) /\ ~HasLine(t[n].stage)
        BY <1>1, <1>3, <1>7, <2>1 DEF parent
      <4>2. r.boards = t[n].stage.boards
        BY <4>1, DigestIdentifies
      <4>3. ~HasLine(r)
        BY <4>1, <4>2, HasLineOf
      <4> QED BY <4>1, <4>3, OpenStageKnown
    <3>2. u[n].stage = r /\ ~HasLine(r) /\ c \in DOMAIN u
      BY <1>1, <1>7, <2>1, <3>1 DEF parent
    <3>3. Exact(u[c].stage) /\ Balanced(u[c].stage) /\ Digest(u[c].stage) = Digest(After(r, a))
      BY <1>4, <1>5, <3>2 DEF c, s
    <3>4. IsMove(r, u[c].stage)
      BY <3>2, <3>3, MoveKnown
    <3> QED BY <2>1, <3>2, <3>4
  <2>2. CASE ~(n = parent /\ k = c)
    <3>1. k \in ToSet(ChildrenIn(t, n))
      <4>1. CASE n = parent
        <5>1. /\ ChildrenIn(t, n) \in Seq(DOMAIN u) /\ c \in DOMAIN u
          BY <1>1, <1>6, SeqMonotone
        <5>2. ToSet(Append(ChildrenIn(t, n), c)) = ToSet(ChildrenIn(t, n)) \cup {c}
          BY <5>1, ToSetAppend
        <5>3. u[n].children = Append(ChildrenIn(t, n), c)
          BY <1>1, <4>1
        <5> QED BY <1>7, <2>2, <4>1, <5>2, <5>3
      <4>2. CASE n # parent
        BY <1>1, <1>7, <4>2
      <4> QED BY <4>1, <4>2
    <3>2. n \in DOMAIN t /\ ChildrenIn(t, n) = t[n].children
      <4>1. ToSet(<<>>) = {}
        BY DEF ToSet
      <4> QED BY <3>1, <4>1 DEF ChildrenIn
    <3>3. k \in DOMAIN t
      <4>1. ChildrenIn(t, n) \in Seq(DOMAIN t)
        BY <1>3, <3>2
      <4>2. PICK i \in 1..Len(ChildrenIn(t, n)) : k = ChildrenIn(t, n)[i]
        BY <3>1, <4>1, InToSet
      <4> QED BY <4>1, <4>2
    <3>4. u[n].stage = t[n].stage /\ u[k].stage = t[k].stage
      BY <1>1, <3>2, <3>3
    <3> QED BY <1>7, <3>1, <3>2, <3>4 DEF TreeEdges
  <2> QED BY <2>1, <2>2
<1>8. ASSUME NEW n \in DOMAIN u, NEW k \in DOMAIN u
      PROVE  Times(u[n].children, k) = Times(u[k].parents, n)
  <2>1. Times(ChildrenIn(t, n), k) = Times(ParentsIn(t, k), n)
    <3>1. CASE n \in DOMAIN t /\ k \in DOMAIN t
      BY <3>1 DEF TreeEdges, ChildrenIn, ParentsIn
    <3>2. CASE n \notin DOMAIN t
      <4>1. ChildrenIn(t, n) \in Seq({})
        BY <3>2 DEF ChildrenIn
      <4>2. Times(ChildrenIn(t, n), k) = 0
        BY <4>1, TimesOther
      <4>3. Times(ParentsIn(t, k), n) = 0
        BY <1>6, <3>2, TimesOther
      <4> QED BY <4>2, <4>3
    <3>3. CASE k \notin DOMAIN t
      <4>1. ParentsIn(t, k) \in Seq({})
        BY <3>3 DEF ParentsIn
      <4>2. Times(ParentsIn(t, k), n) = 0
        BY <4>1, TimesOther
      <4>3. Times(ChildrenIn(t, n), k) = 0
        BY <1>6, <3>3, TimesOther
      <4> QED BY <4>2, <4>3
    <3> QED BY <3>1, <3>2, <3>3
  <2>2. /\ ChildrenIn(t, n) \in Seq(DOMAIN u) /\ c \in DOMAIN u
        /\ ParentsIn(t, k) \in Seq(DOMAIN u) /\ parent \in DOMAIN u
    <3>1. DOMAIN t \subseteq DOMAIN u /\ c \in DOMAIN u /\ parent \in DOMAIN u
      BY <1>1 DEF parent
    <3> QED BY <1>6, <3>1, SeqMonotone
  <2>3. Times(u[n].children, k) =
          IF n = parent /\ k = c THEN Times(ChildrenIn(t, n), k) + 1 ELSE Times(ChildrenIn(t, n), k)
    <3>1. Times(Append(ChildrenIn(t, n), c), k) =
            IF c = k THEN Times(ChildrenIn(t, n), k) + 1 ELSE Times(ChildrenIn(t, n), k)
      BY <2>2, TimesAppend
    <3> QED BY <1>1, <3>1
  <2>4. Times(u[k].parents, n) =
          IF n = parent /\ k = c THEN Times(ParentsIn(t, k), n) + 1 ELSE Times(ParentsIn(t, k), n)
    <3>1. Times(Append(ParentsIn(t, k), parent), n) =
            IF parent = n THEN Times(ParentsIn(t, k), n) + 1 ELSE Times(ParentsIn(t, k), n)
      BY <2>2, TimesAppend
    <3> QED BY <1>1, <3>1
  <2> QED BY <2>1, <2>3, <2>4
<1> QED BY <1>5, <1>7, <1>8 DEF TreeEdges

\* A tree with the same stages and edges.
LEMMA SameEdges ==
  ASSUME NEW t, NEW u, TreeEdges(t), DOMAIN u = DOMAIN t,
         \A n \in DOMAIN t : ToSet(t[n].children) \subseteq DOMAIN t,
         \A n \in DOMAIN t : /\ u[n].stage = t[n].stage
                             /\ u[n].children = t[n].children /\ u[n].parents = t[n].parents
  PROVE  TreeEdges(u)
BY DEF TreeEdges

\* The game of a match is not won, as a won one is followed by the next.
Edges == TreeEdges(nodes) /\ Balanced(game) /\ ~HasLine(game)

\* The tree of the root alone has no edge.
LEMMA EdgesInit == Init => Edges
<1> SUFFICES ASSUME Init PROVE Edges
  OBVIOUS
<1>1. DOMAIN nodes = {Root} /\ nodes[Root] = NewNode(InitialStage)
  BY DEF Init, Add, Root
<1>2. /\ nodes[Root].stage = InitialStage
      /\ nodes[Root].children = <<>> /\ nodes[Root].parents = <<>>
  BY <1>1 DEF NewNode
<1>3. ToSet(<<>>) = {}
  BY DEF ToSet
<1> QED BY <1>1, <1>2, <1>3, InitialBalanced DEF Init, Edges, TreeEdges

\* Every step keeps the edges: a move adds one at both of its ends, and the rest of a
\* playout changes marks and counts only.
LEMMA EdgesStep == Inv /\ Edges /\ [Next]_vars => Edges'
<1> SUFFICES ASSUME Inv, Edges, [Next]_vars PROVE Edges'
  OBVIOUS
<1>1. /\ GoodTree(nodes, playouts) /\ playouts \in Nat
      /\ TreeEdges(nodes) /\ Balanced(game) /\ ~HasLine(game)
  BY MctsAssumption DEF Inv, Shape, Edges
<1>2. \A n \in DOMAIN nodes : ToSet(nodes[n].children) \subseteq DOMAIN nodes
  <2> TAKE n \in DOMAIN nodes
  <2> DEFINE kids == nodes[n].children
  <2>1. kids \in Seq(DOMAIN nodes)
    BY <1>1 DEF GoodTree, GoodNode, NodesOf
  <2> HIDE DEF kids
  <2>2. \A k \in ToSet(kids) : \E i \in 1..Len(kids) : k = kids[i]
    BY <2>1, InToSet
  <2>3. \A i \in 1..Len(kids) : kids[i] \in DOMAIN nodes
    BY <2>1
  <2> QED BY <2>2, <2>3 DEF kids
<1>3. ASSUME NEW strategy, NEW a, MatchMove(strategy, a) PROVE Edges'
  <2>1. /\ Exact(game) /\ a \in LegalActions(game.merged) /\ Digest(game) \in DOMAIN nodes
        /\ Linked(nodes, playouts, Digest(game), After(game, a), nodes')
    BY <1>3, MatchMoveLinks
  <2>2. TreeEdges(nodes')
    BY <1>1, <2>1, LinkEdges
  <2>3. game' = IF ResultOf(game, a) = "Won" THEN InitialStage ELSE After(game, a)
    BY <1>3 DEF MatchMove
  <2>4. Balanced(game') /\ ~HasLine(game')
    BY <1>1, <2>1, <2>3, AfterBalanced, InitialBalanced
  <2> QED BY <2>2, <2>4 DEF Edges
<1>4. CASE ExpandMove
  <2> DEFINE s == nodes[at].stage
             a == Leftmost(todo)
  <2>1. /\ at \in DOMAIN nodes /\ a \in LegalActions(s.merged)
        /\ Linked(nodes, playouts, at, After(s, a), nodes')
    BY <1>4, ExpandMoveLinks
  <2>2. Exact(s) /\ Digest(s) = at /\ Balanced(s)
    BY <1>1, <2>1 DEF GoodTree, GoodNode, TreeEdges
  <2> HIDE DEF s, a
  <2>3. TreeEdges(nodes')
    BY <1>1, <2>1, <2>2, LinkEdges
  <2> QED BY <1>1, <1>4, <2>3 DEF ExpandMove, Edges
<1>5. CASE VisitInner
  <2>1. CASE UNCHANGED nodes
    BY <1>1, <1>5, <2>1 DEF VisitInner, Edges
  <2>2. CASE nodes' = [nodes EXCEPT ![at].expanded = TRUE]
    <3>1. at \in DOMAIN nodes
      BY DEF Inv, Shape
    <3>2. Marked(nodes, playouts, at, nodes')
      BY <1>1, <2>2, <3>1, ExpandedGood
    <3>3. TreeEdges(nodes')
      BY <1>1, <1>2, <3>2, SameEdges DEF Marked
    <3> QED BY <1>1, <1>5, <3>3 DEF VisitInner, Edges
  <2> QED BY <1>5, <2>1, <2>2 DEF VisitInner
<1>6. CASE Credit
  <2>1. CASE UNCHANGED nodes
    BY <1>1, <1>6, <2>1 DEF Credit, Edges
  <2>2. CASE Head(queue) \notin visited /\ nodes' = [nodes EXCEPT ![Head(queue)] = Credited(@)]
    <3>1. Head(queue) \in DOMAIN nodes
      BY <1>6, ToSetTail DEF Inv, Shape, Credit
    <3>2. nodes[Head(queue)].tried < playouts
      BY <1>6, <2>2, <3>1 DEF Inv, Shape, Credit
    <3>3. Scored(nodes, playouts, Head(queue), nodes')
      BY <1>1, <2>2, <3>1, <3>2, CreditGood
    <3>4. TreeEdges(nodes')
      BY <1>1, <1>2, <3>3, SameEdges DEF Scored
    <3> QED BY <1>1, <1>6, <3>4 DEF Credit, Edges
  <2> QED BY <1>6, <2>1, <2>2 DEF Credit, CreditNode
<1>7. CASE MatchDraw
  BY <1>1, <1>7, InitialBalanced DEF MatchDraw, Edges
<1>8. CASE StartPlayout
  <2>1. nodes' = nodes
    BY <1>1, <1>8, AddKeeps DEF StartPlayout, Inv, Shape
  <2> QED BY <1>1, <1>8, <2>1 DEF StartPlayout, Edges
<1>9. ASSUME UNCHANGED <<nodes, game>> PROVE Edges'
  BY <1>1, <1>9 DEF Edges
<1>10. CASE PlayoutStep
  <2>1. ASSUME VisitLeaf \/ Select \/ PlayEnds \/ EndPlayout \/ \E a \in Cells : PlayRandom(a)
        PROVE  UNCHANGED <<nodes, game>>
    BY <2>1 DEF VisitLeaf, Select, PlayEnds, EndPlayout, PlayRandom
  <2> QED BY <1>4, <1>5, <1>6, <1>9, <1>10, <2>1 DEF PlayoutStep
<1>11. CASE UNCHANGED vars
  BY <1>9, <1>11 DEF vars
<1> QED BY <1>3, <1>7, <1>8, <1>10, <1>11 DEF Next, Idle

\* An edge from an undecided stage is a move, turn included, however the child came into the
\* tree, but for the turn on a full board that somebody has won; and both nodes of an edge
\* record it equally often.
THEOREM EdgesFollowMoves == Spec => []EdgesAreMoves
<1>1. Edges => EdgesAreMoves
  BY DEF Edges, TreeEdges, IsMove, EdgesAreMoves
<1>2. Inv /\ Edges /\ [Next]_vars => Inv' /\ Edges'
  BY InvStep, EdgesStep
<1> QED BY <1>1, <1>2, InvInit, EdgesInit, PTL DEF Spec

\* Whoever occurs in a sequence is an element of it, and vice versa.
LEMMA TimesPositive ==
  ASSUME NEW S, NEW s \in Seq(S), NEW n
  PROVE  n \in ToSet(s) <=> Times(s, n) # 0
<1> DEFINE places == {k \in 1..Len(s) : s[k] = n}
<1>1. Len(s) \in Nat
  OBVIOUS
<1>2. IsFiniteSet(places)
  <2>1. IsFiniteSet(1..Len(s)) /\ places \subseteq 1..Len(s)
    BY <1>1, FS_Interval
  <2> QED BY <2>1, FS_Subset
<1>3. n \in ToSet(s) <=> places # {}
  <2>1. n \in ToSet(s) <=> \E k \in 1..Len(s) : n = s[k]
    BY InToSet
  <2> QED BY <2>1
<1> HIDE DEF places
<1>4. places = {} <=> Cardinality(places) = 0
  BY <1>2, FS_EmptySet
<1> QED BY <1>3, <1>4 DEF Times, places

\* visit never goes round in a circle, whatever transpositions have linked: whoever is selected
\* has all the stones of its parent and one more, so that a playout descends as often as
\* the board has cells, at most.
VisitDescends == [][pc = "expand" /\ pc' = "visit" => at \subseteq at' /\ at # at']_vars

\* Every step that selects a child goes down, because the child records the edge too, and
\* the parents a node has recorded have fewer stones.
THEOREM VisitGoesDown == Spec => VisitDescends
<1>1. ASSUME Inv, Edges, [Next]_vars, pc = "expand", pc' = "visit", ~UNCHANGED vars
      PROVE  at \subseteq at' /\ at # at'
  <2>1. Select /\ at' \in Selectable(at)
    <3>1. Select
      BY <1>1 DEF Next, MatchMove, MatchDraw, StartPlayout, Idle, PlayoutStep, VisitLeaf,
        VisitInner, ExpandMove, PlayEnds, PlayRandom, Credit, EndPlayout, StartPlay
    <3> QED BY <1>1, <3>1 DEF Select, StartPlay
  <2> DEFINE kids == nodes[at].children
  <2>2. /\ at \in DOMAIN nodes /\ GoodNode(nodes, at, playouts)
        /\ \A n \in DOMAIN nodes : GoodNode(nodes, n, playouts)
    BY <1>1 DEF Inv, Shape, GoodTree
  <2>3. kids \in Seq(DOMAIN nodes)
    BY <2>1, <2>2 DEF GoodNode, NodesOf
  <2>4. at' \in ToSet(kids)
    <3> HIDE DEF kids
    <3> DEFINE undecided == {k \in 1..Len(kids) : Decided(nodes[kids[k]]) = 0}
    <3>1. at' \in IF undecided # {} THEN {kids[Min(undecided)]} ELSE ToSet(kids)
      BY <2>1 DEF Selectable, kids
    <3>2. CASE undecided # {}
      <4>1. undecided \subseteq Nat
        BY <2>3
      <4>2. PICK x \in undecided : \A y \in undecided : x <= y
        <5> HIDE DEF undecided
        <5> QED BY <3>2, <4>1, LeastExists
      <4>3. Min(undecided) \in undecided
        BY <4>2 DEF Min
      <4> QED BY <2>3, <3>1, <3>2, <4>3, InToSet
    <3> QED BY <3>1, <3>2
  <2> HIDE DEF kids
  <2>5. at' \in DOMAIN nodes
    <3>1. PICK i \in 1..Len(kids) : at' = kids[i]
      BY <2>3, <2>4, InToSet
    <3> QED BY <2>3, <3>1
  <2>6. at \in ToSet(nodes[at'].parents)
    <3>1. nodes[at'].parents \in Seq(DOMAIN nodes)
      BY <2>2, <2>5 DEF GoodNode, NodesOf
    <3>2. Times(kids, at') = Times(nodes[at'].parents, at)
      BY <1>1, <2>2, <2>5 DEF Edges, TreeEdges, kids
    <3> QED BY <2>3, <2>4, <3>1, <3>2, TimesPositive
  <2> QED BY <2>2, <2>5, <2>6 DEF GoodNode
<1>2. Inv /\ Edges /\ [Next]_vars =>
        [pc = "expand" /\ pc' = "visit" => at \subseteq at' /\ at # at']_vars
  BY <1>1
<1>3. Inv /\ Edges /\ [Next]_vars => Inv' /\ Edges'
  BY InvStep, EdgesStep
<1> QED BY <1>2, <1>3, InvInit, EdgesInit, PTL DEF Spec, VisitDescends

-----------------------------------------------------------------------------
\* The move that has been learned.

\* Induction up to a bound.
LEMMA UpTo ==
  ASSUME NEW max \in Nat, NEW S, 0 \in S, \A k \in 0..(max - 1) : k \in S => k + 1 \in S
  PROVE  0..max \subseteq S
<1> DEFINE others == {k \in 0..max : k \notin S}
<1>1. SUFFICES ASSUME others # {} PROVE FALSE
  OBVIOUS
<1>2. PICK k \in others : \A l \in others : k <= l
  <2>1. others \subseteq Nat
    OBVIOUS
  <2> HIDE DEF others
  <2> QED BY <1>1, <2>1, LeastExists
<1>3. k \in 1..max
  BY <1>2
<1>4. k - 1 \in 0..(max - 1) /\ k - 1 \notin others /\ (k - 1) + 1 = k
  BY <1>2, <1>3
<1> QED BY <1>2, <1>4

\* What select knows before it has looked at a move: a ratio smaller than any.
NothingLearned == [actions |-> {}, won |-> 0, tried |-> 1]

\* The best move of the first columns, one after the other.
Learning(stage, best, columns) ==
  /\ DOMAIN best = 0..columns
  /\ best[0] = NothingLearned
  /\ \A k \in 0..(columns - 1) : best[k + 1] = Improved(stage, best[k], k)

\* The loop of select has such a sequence of best moves, and answers its last one.
LEMMA LearnedByColumns ==
  ASSUME NEW stage
  PROVE  \E best : Learning(stage, best, ColumnSize) /\ Learned(stage) = best[ColumnSize].actions
<1> DEFINE S == {c \in Nat : \E best : Learning(stage, best, c)}
           Recurs(g) == g = [c \in 0..ColumnSize |->
                              IF c = 0 THEN NothingLearned ELSE Improved(stage, g[c - 1], c - 1)]
<1>1. ColumnSize \in Nat
  BY BoardAssumption
<1>2. 0 \in S
  <2>1. Learning(stage, [k \in {0} |-> NothingLearned], 0)
    BY DEF Learning
  <2> QED BY <2>1
<1>3. ASSUME NEW c \in Nat, c \in S PROVE c + 1 \in S
  <2>1. PICK g : Learning(stage, g, c)
    BY <1>3
  <2> DEFINE h == [k \in 0..(c + 1) |-> IF k = c + 1 THEN Improved(stage, g[c], c) ELSE g[k]]
  <2>2. h[0] = NothingLearned
    BY <2>1 DEF Learning
  <2>3. ASSUME NEW k \in 0..c PROVE h[k + 1] = Improved(stage, h[k], k)
    <3>1. h[k] = g[k]
      OBVIOUS
    <3>2. CASE k = c
      BY <3>1, <3>2
    <3>3. CASE k # c
      <4>1. k \in 0..(c - 1) /\ h[k + 1] = g[k + 1]
        BY <3>3
      <4> QED BY <2>1, <3>1, <4>1 DEF Learning
    <3> QED BY <3>2, <3>3
  <2>4. Learning(stage, h, c + 1)
    <3>1. 0..((c + 1) - 1) = 0..c
      OBVIOUS
    <3> QED BY <2>2, <2>3, <3>1 DEF Learning
  <2> QED BY <2>4
<1>4. \E g : Recurs(g)
  <2>1. ColumnSize \in S
    <3>1. \A k \in 0..(ColumnSize - 1) : k \in S => k + 1 \in S
      BY <1>1, <1>3
    <3> HIDE DEF S
    <3>2. 0..ColumnSize \subseteq S
      BY <1>1, <1>2, <3>1, UpTo
    <3> QED BY <1>1, <3>2
  <2>2. PICK g : Learning(stage, g, ColumnSize)
    BY <2>1
  <2> DEFINE h == [c \in 0..ColumnSize |-> g[c]]
  <2>3. ASSUME NEW c \in 0..ColumnSize
        PROVE  h[c] = IF c = 0 THEN NothingLearned ELSE Improved(stage, h[c - 1], c - 1)
    <3>1. CASE c = 0
      BY <2>2, <3>1 DEF Learning
    <3>2. CASE c # 0
      <4>1. c - 1 \in 0..(ColumnSize - 1) /\ (c - 1) + 1 = c
        BY <1>1, <3>2
      <4>2. g[c] = Improved(stage, g[c - 1], c - 1)
        BY <2>2, <4>1 DEF Learning
      <4>3. h[c] = g[c] /\ h[c - 1] = g[c - 1]
        BY <1>1, <4>1
      <4> QED BY <3>2, <4>2, <4>3
    <3> QED BY <3>1, <3>2
  <2> HIDE DEF h
  <2>4. h = [c \in 0..ColumnSize |-> h[c]]
    BY DEF h
  <2>5. Recurs(h)
    BY <2>3, <2>4
  <2> QED BY <2>5
<1> DEFINE best == CHOOSE g : Recurs(g)
<1>5. Recurs(best)
  BY <1>4
<1>6. Learned(stage) = best[ColumnSize].actions
  BY DEF Learned, NothingLearned
<1> HIDE DEF best
<1>7. Learning(stage, best, ColumnSize)
  <2>1. DOMAIN best = 0..ColumnSize /\ best[0] = NothingLearned
    BY <1>1, <1>5
  <2>2. ASSUME NEW k \in 0..(ColumnSize - 1) PROVE best[k + 1] = Improved(stage, best[k], k)
    <3>1. k + 1 \in 0..ColumnSize /\ k + 1 # 0 /\ (k + 1) - 1 = k
      BY <1>1
    <3> QED BY <1>5, <3>1
  <2> QED BY <2>1, <2>2 DEF Learning
<1> QED BY <1>6, <1>7

\* Ratios: what is less than a ratio exceeded is less than the one that exceeds it.
LEMMA RatioTransitive ==
  ASSUME NEW w1 \in Nat, NEW d1 \in Nat, NEW w2 \in Nat, NEW d2 \in Nat \ {0},
         NEW w3 \in Nat, NEW d3 \in Nat,
         w1 * d2 <= w2 * d1, w3 * d2 > w2 * d3
  PROVE  w1 * d3 <= w3 * d1
<1>1. w1 * d2 * d3 <= w2 * d1 * d3
  OBVIOUS
<1>2. w2 * d3 * d1 <= w3 * d2 * d1
  OBVIOUS
<1>3. d2 * (w1 * d3) <= d2 * (w3 * d1)
  <2>1. w1 * d2 * d3 = d2 * (w1 * d3) /\ w2 * d1 * d3 = w2 * d3 * d1 /\ w3 * d2 * d1 = d2 * (w3 * d1)
    OBVIOUS
  <2> QED BY <1>1, <1>2, <2>1
<1> DEFINE m == w1 * d3
           n == w3 * d1
<1>4. m \in Nat /\ n \in Nat /\ d2 * m <= d2 * n
  BY <1>3
<1> HIDE DEF m, n
<1>5. m <= n
  <2>1. SUFFICES ASSUME m >= n + 1 PROVE FALSE
    BY <1>4
  <2>2. d2 * m >= d2 * (n + 1)
    BY <1>4, <2>1
  <2>3. d2 * (n + 1) = d2 * n + d2
    BY <1>4
  <2> QED BY <1>4, <2>2, <2>3
<1> QED BY <1>5 DEF m, n

\* A column has one legal action at most.
LEMMA OneLegalPerColumn ==
  ASSUME NEW board, NEW a \in LegalActions(board), NEW b \in LegalActions(board), a[1] = b[1]
  PROVE  a = b
<1>1. a = <<a[1], a[2]>> /\ b = <<b[1], b[2]>> /\ a[2] \in Nat /\ b[2] \in Nat
  BY BoardAssumption DEF LegalActions, Cells
<1>2. ASSUME NEW c \in LegalActions(board), NEW d \in LegalActions(board), c[1] = d[1],
             c[2] \in Nat, d[2] \in Nat
      PROVE  ~(c[2] < d[2])
  <2>1. SUFFICES ASSUME c[2] < d[2] PROVE FALSE
    OBVIOUS
  <2>2. c[2] \in 0..(d[2] - 1)
    BY <1>2, <2>1
  <2> QED BY <1>2, <2>2 DEF LegalActions
<1>3. a[2] = b[2]
  BY <1>1, <1>2
<1> QED BY <1>1, <1>3

\* What the tree has counted for a move: the games won by whoever makes it, and all decided.
WonBy(stage, a) == nodes[Digest(After(stage, a))].won[stage.player]
DecidedBy(stage, a) == Decided(nodes[Digest(After(stage, a))])

\* The counts of a move are numbers, and nobody has won more games than were decided.
LEMMA CountsOfMoves ==
  ASSUME Shape, NEW stage, stage.player \in Players, NEW a \in Known(stage)
  PROVE  /\ WonBy(stage, a) \in Nat /\ DecidedBy(stage, a) \in Nat
         /\ WonBy(stage, a) <= DecidedBy(stage, a)
<1> DEFINE node == nodes[Digest(After(stage, a))]
<1>1. node.won \in [Players -> 0..playouts] /\ playouts \in Nat
  <2>1. node \in NodesOf(DOMAIN nodes, playouts)
    BY DEF Known, Shape, GoodTree, GoodNode
  <2> QED BY <2>1, MctsAssumption DEF Shape, NodesOf
<1>2. node.won[0] \in Nat /\ node.won[1] \in Nat
  BY <1>1 DEF Players
<1> QED BY <1>2 DEF WonBy, DecidedBy, Decided, Players

\* The best of the moves in the first columns, or none if they have won nothing.
BestOf(stage, best, columns) ==
  \/ /\ best = NothingLearned
     /\ \A a \in Known(stage) : a[1] < columns => WonBy(stage, a) = 0
  \/ \E a \in Known(stage) :
       /\ best = [actions |-> {a}, won |-> WonBy(stage, a), tried |-> DecidedBy(stage, a)]
       /\ WonBy(stage, a) > 0
       /\ \A b \in Known(stage) : b[1] < columns =>
            WonBy(stage, b) * DecidedBy(stage, a) <= WonBy(stage, a) * DecidedBy(stage, b)

\* A column more.
LEMMA ImprovedIsBest ==
  ASSUME Shape, NEW stage, stage.player \in Players, NEW c \in 0..(ColumnSize - 1),
         NEW best, BestOf(stage, best, c)
  PROVE  BestOf(stage, Improved(stage, best, c), c + 1)
<1> DEFINE known == Known(stage)
           won(a) == WonBy(stage, a)
           games(a) == DecidedBy(stage, a)
           better == {a \in known : a[1] = c /\ won(a) * best.tried > best.won * games(a)}
           next == Improved(stage, best, c)
<1>1. next = IF better = {} THEN best
             ELSE [actions |-> {Leftmost(better)}, won |-> won(Leftmost(better)),
                   tried |-> games(Leftmost(better))]
  BY DEF Improved, Exceeds, WonBy, DecidedBy, Known
<1>2. \A a \in known : won(a) \in Nat /\ games(a) \in Nat /\ won(a) <= games(a)
  BY CountsOfMoves
<1>3. \A a \in known : a \in LegalActions(stage.merged) /\ a[1] \in Nat
  BY BoardAssumption DEF Known, LegalActions, Cells
<1>4. \A a \in known : a[1] < c + 1 <=> a[1] < c \/ a[1] = c
  BY <1>3
<1> HIDE DEF won, games, known
<1>5. CASE better = {}
  <2>1. next = best /\ \A a \in known : a[1] = c => ~(won(a) * best.tried > best.won * games(a))
    BY <1>1, <1>5
  <2> HIDE DEF next, better
  <2>2. CASE /\ best = NothingLearned
             /\ \A a \in known : a[1] < c => won(a) = 0
    <3>1. best.tried = 1 /\ best.won = 0
      BY <2>2 DEF NothingLearned
    <3>2. ASSUME NEW a \in known, a[1] = c PROVE won(a) = 0
      <4>1. won(a) \in Nat /\ games(a) \in Nat
        BY <1>2
      <4>2. ~(won(a) * 1 > 0 * games(a))
        BY <2>1, <3>1, <3>2
      <4> QED BY <4>1, <4>2
    <3> QED BY <1>4, <2>1, <2>2, <3>2 DEF BestOf, known, won, next
  <2>3. ASSUME NEW a \in known, best = [actions |-> {a}, won |-> won(a), tried |-> games(a)],
               won(a) > 0,
               \A b \in known : b[1] < c => won(b) * games(a) <= won(a) * games(b)
        PROVE  BestOf(stage, next, c + 1)
    <3>1. ASSUME NEW b \in known, b[1] = c PROVE won(b) * games(a) <= won(a) * games(b)
      <4>1. ~(won(b) * games(a) > won(a) * games(b))
        BY <2>1, <2>3, <3>1
      <4>2. won(b) * games(a) \in Nat /\ won(a) * games(b) \in Nat
        BY <1>2
      <4> QED BY <4>1, <4>2
    <3>2. \A b \in known : b[1] < c + 1 => won(b) * games(a) <= won(a) * games(b)
      BY <1>4, <2>3, <3>1
    <3> QED BY <2>1, <2>3, <3>2 DEF BestOf, known, won, games, next
  <2> QED BY <1>5, <2>2, <2>3 DEF BestOf, known, won, games, next
<1>6. CASE better # {}
  <2> DEFINE a == Leftmost(better)
  <2>1. a \in better
    <3>1. better \subseteq Cells
      BY <1>3 DEF LegalActions
    <3> QED BY <1>6, <3>1, LeftmostExists
  <2>2. a \in known /\ a[1] = c /\ won(a) * best.tried > best.won * games(a)
    BY <2>1
  <2>3. next = [actions |-> {a}, won |-> won(a), tried |-> games(a)]
    BY <1>1, <1>6
  <2>4. \A b \in known : b[1] = c => b = a
    BY <1>3, <2>2, OneLegalPerColumn
  <2> HIDE DEF a, next, better
  <2>5. won(a) \in Nat /\ games(a) \in Nat
    BY <1>2, <2>2
  <2>6. best.tried \in Nat \ {0} /\ best.won \in Nat
        /\ \A b \in known : b[1] < c => won(b) * best.tried <= best.won * games(b)
    <3>1. CASE /\ best = NothingLearned
               /\ \A b \in known : b[1] < c => won(b) = 0
      <4>1. best.tried = 1 /\ best.won = 0
        BY <3>1 DEF NothingLearned
      <4>2. \A b \in known : b[1] < c => won(b) * 1 <= 0 * games(b)
        BY <1>2, <3>1
      <4> QED BY <4>1, <4>2
    <3>2. ASSUME NEW d \in known, best = [actions |-> {d}, won |-> won(d), tried |-> games(d)],
                 won(d) > 0,
                 \A b \in known : b[1] < c => won(b) * games(d) <= won(d) * games(b)
          PROVE  /\ best.tried \in Nat \ {0} /\ best.won \in Nat
                 /\ \A b \in known : b[1] < c => won(b) * best.tried <= best.won * games(b)
      <4>1. best.tried = games(d) /\ best.won = won(d)
        BY <3>2
      <4>2. games(d) \in Nat \ {0} /\ won(d) \in Nat
        BY <1>2, <3>2
      <4> QED BY <3>2, <4>1, <4>2
    <3> QED BY <3>1, <3>2 DEF BestOf, known, won, games
  <2>7. won(a) > 0
    <3>1. SUFFICES ASSUME won(a) = 0 PROVE FALSE
      BY <2>5
    <3>2. best.won * games(a) \in Nat
      BY <2>5, <2>6
    <3> QED BY <2>2, <2>6, <3>1, <3>2
  <2>8. ASSUME NEW b \in known, b[1] < c + 1 PROVE won(b) * games(a) <= won(a) * games(b)
    <3>1. won(b) \in Nat /\ games(b) \in Nat
      BY <1>2
    <3>2. CASE b[1] = c
      <4>1. b = a
        BY <2>4, <3>2
      <4> QED BY <2>5, <4>1
    <3>3. CASE b[1] < c
      BY <2>2, <2>5, <2>6, <3>1, <3>3, RatioTransitive
    <3> QED BY <1>4, <2>8, <3>2, <3>3
  <2> QED BY <2>2, <2>3, <2>7, <2>8 DEF BestOf, known, won, games, next
<1> QED BY <1>5, <1>6

\* What is learned of any node in the tree is a move with the best ratio.
THEOREM LearnedIsBest == Spec => []SelectsBest
<1>1. ASSUME Shape, NEW n \in DOMAIN nodes
      PROVE  \E best : /\ BestOf(nodes[n].stage, best, ColumnSize)
                       /\ Learned(nodes[n].stage) = best.actions
  <2> DEFINE stage == nodes[n].stage
  <2>1. stage.player \in Players
    BY <1>1 DEF Shape, GoodTree, GoodNode, Exact, Stages
  <2> HIDE DEF stage
  <2>2. PICK best : /\ Learning(stage, best, ColumnSize)
                    /\ Learned(stage) = best[ColumnSize].actions
    BY LearnedByColumns
  <2> DEFINE S == {c \in 0..ColumnSize : BestOf(stage, best[c], c)}
  <2>3. ColumnSize \in Nat
    BY BoardAssumption
  <2>4. BestOf(stage, NothingLearned, 0)
    <3>1. \A a \in Known(stage) : ~(a[1] < 0)
      BY BoardAssumption DEF Known, LegalActions, Cells
    <3> QED BY <3>1 DEF BestOf
  <2>5. 0 \in S
    BY <2>2, <2>3, <2>4 DEF Learning
  <2>6. ASSUME NEW k \in 0..(ColumnSize - 1), k \in S PROVE k + 1 \in S
    <3>1. BestOf(stage, Improved(stage, best[k], k), k + 1)
      BY <1>1, <2>1, <2>6, ImprovedIsBest
    <3>2. best[k + 1] = Improved(stage, best[k], k) /\ k + 1 \in 0..ColumnSize
      BY <2>2, <2>3 DEF Learning
    <3> QED BY <3>1, <3>2
  <2> HIDE DEF S
  <2>7. 0..ColumnSize \subseteq S
    BY <2>3, <2>5, <2>6, UpTo
  <2>8. BestOf(stage, best[ColumnSize], ColumnSize)
    BY <2>3, <2>7 DEF S
  <2> QED BY <2>2, <2>8 DEF stage
<1>2. Inv => SelectsBest
  <2> SUFFICES ASSUME Inv, NEW n \in DOMAIN nodes
               PROVE  LET stage == nodes[n].stage
                          moved(a) == nodes[Digest(After(stage, a))]
                          known == {a \in LegalActions(stage.merged) :
                                      Digest(After(stage, a)) \in DOMAIN nodes}
                          wins(a) == moved(a).won[stage.player]
                      IN  IF Learned(stage) = {} THEN \A a \in known : wins(a) = 0
                          ELSE \E a \in known :
                                 /\ Learned(stage) = {a} /\ wins(a) > 0
                                 /\ \A b \in known : wins(b) * Decided(moved(a)) <=
                                                     wins(a) * Decided(moved(b))
    BY DEF SelectsBest
  <2> DEFINE stage == nodes[n].stage
  <2>1. PICK best : BestOf(stage, best, ColumnSize) /\ Learned(stage) = best.actions
    BY <1>1 DEF Inv
  <2>2. \A a \in Known(stage) : a[1] < ColumnSize
    BY BoardAssumption DEF Known, LegalActions, Cells
  <2>3. CASE /\ Learned(stage) = {}
             /\ \A a \in Known(stage) : WonBy(stage, a) = 0
    BY <2>3 DEF Known, WonBy
  <2>4. CASE \E a \in Known(stage) :
               /\ Learned(stage) = {a} /\ WonBy(stage, a) > 0
               /\ \A b \in Known(stage) : WonBy(stage, b) * DecidedBy(stage, a) <=
                                          WonBy(stage, a) * DecidedBy(stage, b)
    BY <2>4 DEF Known, WonBy, DecidedBy
  <2> HIDE DEF stage
  <2>5. (best = NothingLearned /\ \A a \in Known(stage) : WonBy(stage, a) = 0)
        \/ \E a \in Known(stage) :
             /\ best.actions = {a} /\ WonBy(stage, a) > 0
             /\ \A b \in Known(stage) : WonBy(stage, b) * DecidedBy(stage, a) <=
                                        WonBy(stage, a) * DecidedBy(stage, b)
    BY <2>1, <2>2 DEF BestOf
  <2>6. NothingLearned.actions = {}
    BY DEF NothingLearned
  <2> QED BY <2>1, <2>3, <2>4, <2>5, <2>6
<1> QED BY <1>2, Invariance, PTL
=============================================================================
