------------------------------ MODULE GraphProofs ------------------------------
(***************************************************************************)
(* What the searches of the transaction graph return, for every set of     *)
(* wallets, graph, window and depth: no edge dangles, a windowed search    *)
(* finds what paths lead to, and the temporal search the cheapest path in  *)
(* order of time.  A path is taken apart as a function on 1 .. k + 1.      *)
(***************************************************************************)
EXTENDS Graph, SortingProofs

-----------------------------------------------------------------------------
(* The graph. *)

\* Nodes come one by one, so that there are finitely many.
GraphInv == TypeOK /\ IsFiniteSet(nodes)

LEMMA AddEdgeInv ==
  ASSUME GraphInv, NEW u \in Wallet, NEW v \in Wallet, NEW weight \in Weight,
         NEW time \in Time \cup {NoTime}, AddEdge(u, v, weight, time)
  PROVE  GraphInv'
<1> DEFINE e == <<u, v>>
<1>1. nodes' = nodes \cup {u, v} /\ IsFiniteSet(nodes')
  <2>1. IsFiniteSet(nodes \cup {u})
    BY FS_AddElement DEF GraphInv
  <2>2. IsFiniteSet((nodes \cup {u}) \cup {v})
    BY <2>1, FS_AddElement
  <2>3. nodes' = (nodes \cup {u}) \cup {v}
    BY DEF AddEdge, WithEndpoints
  <2> QED BY <2>2, <2>3
<1>2. Merged(e, weight, time) \in Data
  BY DEF Merged, Data, GraphInv, TypeOK
<1>3. /\ DOMAIN edges' = DOMAIN edges \cup {e}
      /\ \A f \in DOMAIN edges' :
           edges'[f] = IF f = e THEN Merged(e, weight, time) ELSE edges[f]
  BY DEF AddEdge
<1>4. \A f \in DOMAIN edges' : edges'[f] \in Data
  <2> SUFFICES ASSUME NEW f \in DOMAIN edges' PROVE edges'[f] \in Data
    OBVIOUS
  <2>1. CASE f = e
    BY <1>2, <1>3, <2>1
  <2>2. CASE f # e
    <3>1. edges[f] \in Data
      BY <1>3, <2>2 DEF GraphInv, TypeOK
    <3> QED BY <1>3, <2>2, <3>1
  <2> QED BY <2>1, <2>2
<1>5. nodes' \subseteq Wallet /\ DOMAIN edges' \subseteq nodes' \X nodes'
  BY <1>1, <1>3 DEF GraphInv, TypeOK
<1> QED BY <1>1, <1>4, <1>5 DEF GraphInv, TypeOK, Data

LEMMA GraphInvHolds == Spec => []GraphInv
<1>1. Init => GraphInv
  <2> SUFFICES ASSUME Init PROVE GraphInv
    OBVIOUS
  <2>1. DOMAIN edges = {} /\ nodes = {}
    BY DEF Init
  <2> QED BY <2>1, FS_EmptySet DEF GraphInv, TypeOK
<1>2. GraphInv /\ [Next]_vars => GraphInv'
  <2> SUFFICES ASSUME GraphInv, [Next]_vars PROVE GraphInv'
    OBVIOUS
  <2>1. ASSUME NEW id \in Wallet, AddNode(id) PROVE GraphInv'
    <3>1. IsFiniteSet(nodes')
      BY <2>1, FS_AddElement DEF AddNode, GraphInv
    <3> QED BY <2>1, <3>1 DEF AddNode, GraphInv, TypeOK, Data
  <2>2. ASSUME NEW link \in Links, NEW weight \in Weight, NEW time \in Time \cup {NoTime},
               AddEdge(link[1], link[2], weight, time)
        PROVE  GraphInv'
    <3>1. link[1] \in Wallet /\ link[2] \in Wallet
      BY GraphConstantsOK
    <3> QED BY <2>2, <3>1, AddEdgeInv
  <2>3. CASE Clear
    <3>1. DOMAIN edges' = {} /\ nodes' = {}
      BY <2>3 DEF Clear
    <3> QED BY <3>1, FS_EmptySet DEF GraphInv, TypeOK
  <2>4. CASE UNCHANGED vars
    BY <2>4 DEF vars, GraphInv, TypeOK, Data
  <2> QED BY <2>1, <2>2, <2>3, <2>4 DEF Next
<1> QED BY <1>1, <1>2, PTL DEF Spec

\* However nodes and edges are added and dropped, no edge dangles and every edge has
\* its weight and timestamp.
THEOREM GraphIsTyped == Spec => []TypeOK
<1>1. GraphInv => TypeOK
  BY DEF GraphInv
<1> QED BY <1>1, GraphInvHolds, PTL

-----------------------------------------------------------------------------
(* Treks through a relation between wallets. *)

Trek(R, s, k) ==
    {p \in [1 .. k + 1 -> Wallet] : p[1] = s /\ \A i \in 1 .. k : <<p[i], p[i + 1]>> \in R}

\* What treks of at most k steps lead to.
Reached(R, s, k) == {v \in Wallet : \E j \in 0 .. k : \E p \in Trek(R, s, j) : p[j + 1] = v}

Beyond(R, S) == {v \in Wallet : \E n \in S : <<n, v>> \in R}

LEMMA ReachedNothing ==
  ASSUME NEW R, NEW s \in Wallet
  PROVE  Reached(R, s, 0) = {s}
<1>1. [i \in 1 .. 0 + 1 |-> s] \in Trek(R, s, 0)
  BY DEF Trek
<1>2. \A j \in 0 .. 0 : j = 0
  OBVIOUS
<1>3. \A p \in Trek(R, s, 0) : p[0 + 1] = s
  BY DEF Trek
<1>4. s \in Reached(R, s, 0)
  BY <1>1, <1>3 DEF Reached
<1> QED BY <1>2, <1>3, <1>4 DEF Reached

\* A trek goes one step further.
LEMMA TrekGrows ==
  ASSUME NEW R, NEW s \in Wallet, NEW j \in Nat, NEW p \in Trek(R, s, j),
         NEW v \in Wallet, <<p[j + 1], v>> \in R
  PROVE  \E q \in Trek(R, s, j + 1) : q[j + 1 + 1] = v
<1> DEFINE q == [i \in 1 .. j + 1 + 1 |-> IF i <= j + 1 THEN p[i] ELSE v]
<1>1. p \in [1 .. j + 1 -> Wallet] /\ p[1] = s /\ \A i \in 1 .. j : <<p[i], p[i + 1]>> \in R
  BY DEF Trek
<1>2. q \in [1 .. j + 1 + 1 -> Wallet] /\ q[1] = s /\ q[j + 1 + 1] = v
  BY <1>1
<1>3. ASSUME NEW i \in 1 .. j + 1 PROVE <<q[i], q[i + 1]>> \in R
  <2>1. CASE i = j + 1
    <3>1. q[i] = p[j + 1] /\ q[i + 1] = v
      BY <2>1
    <3> QED BY <3>1
  <2>2. CASE i # j + 1
    <3>1. i \in 1 .. j /\ i + 1 <= j + 1 /\ i <= j + 1 /\ i + 1 \in 1 .. j + 1 + 1
      BY <2>2
    <3>2. q[i] = p[i] /\ q[i + 1] = p[i + 1]
      BY <3>1
    <3> QED BY <1>1, <3>1, <3>2
  <2> QED BY <2>1, <2>2
<1>4. q \in Trek(R, s, j + 1)
  BY <1>2, <1>3 DEF Trek
<1> QED BY <1>2, <1>4

\* The trek before the last step.
LEMMA TrekShrinks ==
  ASSUME NEW R, NEW s \in Wallet, NEW k \in Nat, NEW p \in Trek(R, s, k + 1)
  PROVE  \E q \in Trek(R, s, k) : /\ q = [i \in 1 .. k + 1 |-> p[i]]
                                  /\ <<q[k + 1], p[k + 1 + 1]>> \in R
<1> DEFINE q == [i \in 1 .. k + 1 |-> p[i]]
<1>1. /\ p \in [1 .. k + 1 + 1 -> Wallet] /\ p[1] = s
      /\ \A i \in 1 .. k + 1 : <<p[i], p[i + 1]>> \in R
  BY DEF Trek
<1>2. q \in [1 .. k + 1 -> Wallet] /\ q[1] = s /\ q[k + 1] = p[k + 1]
  BY <1>1
<1>3. \A i \in 1 .. k : q[i] = p[i] /\ q[i + 1] = p[i + 1] /\ i \in 1 .. k + 1
  OBVIOUS
<1>4. q \in Trek(R, s, k)
  BY <1>1, <1>2, <1>3 DEF Trek
<1> QED BY <1>1, <1>2, <1>4

LEMMA ReachedGrows ==
  ASSUME NEW R, NEW s \in Wallet, NEW k \in Nat
  PROVE  Reached(R, s, k + 1) = Reached(R, s, k) \cup Beyond(R, Reached(R, s, k))
<1>1. ASSUME NEW v \in Reached(R, s, k + 1)
      PROVE  v \in Reached(R, s, k) \cup Beyond(R, Reached(R, s, k))
  <2>1. PICK j \in 0 .. k + 1 : \E p \in Trek(R, s, j) : p[j + 1] = v
    BY <1>1 DEF Reached
  <2>2. PICK p \in Trek(R, s, j) : p[j + 1] = v
    BY <2>1
  <2>3. CASE j \in 0 .. k
    BY <1>1, <2>2, <2>3 DEF Reached
  <2>4. CASE j = k + 1
    <3>1. PICK q \in Trek(R, s, k) : /\ q = [i \in 1 .. k + 1 |-> p[i]]
                                     /\ <<q[k + 1], p[k + 1 + 1]>> \in R
      BY <2>4, TrekShrinks
    <3>2. q[k + 1] \in Wallet /\ k \in 0 .. k
      BY DEF Trek
    <3>3. q[k + 1] \in Reached(R, s, k)
      BY <3>2 DEF Reached
    <3> QED BY <1>1, <2>2, <2>4, <3>1, <3>3 DEF Beyond, Reached
  <2>5. j \in 0 .. k \/ j = k + 1
    OBVIOUS
  <2> QED BY <2>3, <2>4, <2>5
<1>2. ASSUME NEW v \in Reached(R, s, k) PROVE v \in Reached(R, s, k + 1)
  <2>1. \A j \in 0 .. k : j \in 0 .. k + 1
    OBVIOUS
  <2> QED BY <1>2, <2>1 DEF Reached
<1>3. ASSUME NEW v \in Beyond(R, Reached(R, s, k)) PROVE v \in Reached(R, s, k + 1)
  <2>1. PICK n \in Reached(R, s, k) : <<n, v>> \in R
    BY <1>3 DEF Beyond
  <2>2. PICK j \in 0 .. k : \E p \in Trek(R, s, j) : p[j + 1] = n
    BY <2>1 DEF Reached
  <2>3. PICK p \in Trek(R, s, j) : p[j + 1] = n
    BY <2>2
  <2>4. v \in Wallet
    BY <1>3 DEF Beyond
  <2>5. j \in Nat /\ j + 1 \in 0 .. k + 1
    OBVIOUS
  <2>6. \E q \in Trek(R, s, j + 1) : q[j + 1 + 1] = v
    BY <2>1, <2>3, <2>4, <2>5, TrekGrows
  <2> QED BY <2>4, <2>5, <2>6 DEF Reached
<1> QED BY <1>1, <1>2, <1>3

IsSimple(p, k) == \A i, j \in 1 .. k + 1 : p[i] = p[j] => i = j

\* A trek that meets a wallet twice has a shorter one to the same end.
LEMMA TrekShortens ==
  ASSUME NEW R, NEW s \in Wallet, NEW j \in Nat, NEW p \in Trek(R, s, j),
         NEW a \in 1 .. j + 1, NEW b \in 1 .. j + 1, a < b, p[a] = p[b]
  PROVE  \E i \in 0 .. j - 1 : \E q \in Trek(R, s, i) : q[i + 1] = p[j + 1]
<1> DEFINE i == j - (b - a)
           q == [l \in 1 .. i + 1 |-> IF l <= a THEN p[l] ELSE p[l + (b - a)]]
<1>1. p \in [1 .. j + 1 -> Wallet] /\ p[1] = s /\ \A l \in 1 .. j : <<p[l], p[l + 1]>> \in R
  BY DEF Trek
<1>2. i \in 0 .. j - 1 /\ a \in 1 .. i + 1
  OBVIOUS
<1>3. ASSUME NEW l \in 1 .. i + 1 PROVE q[l] = IF l <= a THEN p[l] ELSE p[l + (b - a)]
  OBVIOUS
<1>4. \A l \in 1 .. i + 1 : l \in 1 .. j + 1 /\ (l > a => l + (b - a) \in 1 .. j + 1)
  OBVIOUS
<1>5. q \in [1 .. i + 1 -> Wallet] /\ q[1] = s
  BY <1>1, <1>2, <1>4
<1>6. q[i + 1] = p[j + 1]
  <2>1. CASE i + 1 <= a
    <3>1. i + 1 = a /\ b = j + 1
      BY <2>1
    <3>2. q[i + 1] = p[a]
      BY <1>2, <1>3, <3>1
    <3> QED BY <3>1, <3>2
  <2>2. CASE ~(i + 1 <= a)
    <3>1. i + 1 + (b - a) = j + 1
      OBVIOUS
    <3> QED BY <1>2, <1>3, <2>2, <3>1
  <2> QED BY <2>1, <2>2
<1>7. ASSUME NEW l \in 1 .. i PROVE <<q[l], q[l + 1]>> \in R
  <2>1. l \in 1 .. i + 1 /\ l + 1 \in 1 .. i + 1
    BY <1>2
  <2>2. CASE l + 1 <= a
    <3>1. q[l] = p[l] /\ q[l + 1] = p[l + 1] /\ l \in 1 .. j
      BY <1>3, <2>1, <2>2
    <3> QED BY <1>1, <3>1
  <2>3. CASE l = a
    <3>1. b \in 1 .. j /\ a + 1 + (b - a) = b + 1
      BY <2>3
    <3>2. q[l] = p[b] /\ q[l + 1] = p[b + 1]
      BY <1>3, <2>1, <2>3, <3>1
    <3> QED BY <1>1, <3>1, <3>2
  <2>4. CASE l > a
    <3>1. l + (b - a) \in 1 .. j /\ l + 1 + (b - a) = l + (b - a) + 1
      BY <2>4
    <3>2. q[l] = p[l + (b - a)] /\ q[l + 1] = p[l + (b - a) + 1]
      BY <1>3, <2>1, <2>4, <3>1
    <3> QED BY <1>1, <3>1, <3>2
  <2> QED BY <2>2, <2>3, <2>4
<1> HIDE DEF q, i
<1>8. q \in Trek(R, s, i)
  BY <1>5, <1>7 DEF Trek
<1> QED BY <1>2, <1>6, <1>8

\* What a trek leads to, a simple trek that is no longer leads to.
LEMMA ShortestIsSimple ==
  ASSUME NEW R, NEW s \in Wallet, NEW k \in Nat, NEW v \in Reached(R, s, k)
  PROVE  \E j \in 0 .. k : \E p \in Trek(R, s, j) : p[j + 1] = v /\ IsSimple(p, j)
<1> DEFINE X == {j \in 0 .. k : \E p \in Trek(R, s, j) : p[j + 1] = v}
<1>1. X \in SUBSET Nat /\ X # {}
  BY DEF Reached
<1>2. PICK j \in X : \A i \in X : j <= i
  <2> HIDE DEF X
  <2> QED BY <1>1, LeastNat
<1>3. PICK p \in Trek(R, s, j) : p[j + 1] = v
  BY <1>2
<1>4. j \in Nat /\ j \in 0 .. k
  BY <1>2
<1>5. ASSUME NEW a \in 1 .. j + 1, NEW b \in 1 .. j + 1, p[a] = p[b], a < b PROVE FALSE
  <2>1. PICK i \in 0 .. j - 1 : \E q \in Trek(R, s, i) : q[i + 1] = p[j + 1]
    BY <1>4, <1>5, TrekShortens
  <2>2. i \in X /\ ~(j <= i)
    BY <1>3, <1>4, <2>1
  <2> HIDE DEF X
  <2> QED BY <1>2, <2>2
<1>6. IsSimple(p, j)
  <2>1. \A a, b \in 1 .. j + 1 : a < b \/ b < a \/ a = b
    BY <1>4
  <2> QED BY <1>5, <2>1 DEF IsSimple
<1> QED BY <1>3, <1>4, <1>6

-----------------------------------------------------------------------------
(* Searches within a window. *)

\* The pairs that a search passes.
Passable(from, to, directed) ==
    {e \in Wallet \X Wallet : e[2] \in Passes(e[1], from, to, directed)}

LEMMA PassesAreBeyond ==
  ASSUME NEW from, NEW to, NEW directed, NEW S \in SUBSET Wallet
  PROVE  UNION {Passes(n, from, to, directed) : n \in S} = Beyond(Passable(from, to, directed), S)
<1>1. \A n : Passes(n, from, to, directed) \subseteq Wallet
  BY DEF Passes, Neighbors, Successors, Either
<1>2. \A n \in Wallet, v \in Wallet :
        <<n, v>> \in Passable(from, to, directed) <=> v \in Passes(n, from, to, directed)
  BY DEF Passable
<1> QED BY <1>1, <1>2 DEF Beyond

\* The states of a search, and what holds of them after i turns: every node is
\* queued once, at the depth of some trek to it, nearer nodes first; the depths
\* of the nodes still to be looked at are no less than any but by one; and what a
\* node that has been looked at passes on to is queued, one step deeper at most.
SearchState(depth) ==
    [frontier : Seq([node : nodes, depth : 0 .. depth]), visited : SUBSET nodes]

QueueOK(R, s, depth, i, x) ==
    LET q == x.frontier IN
    /\ x \in SearchState(depth)
    /\ Len(q) >= 1 /\ q[1] = Queued(s, 0)
    /\ x.visited = {q[k].node : k \in 1 .. Len(q)}
    /\ \A k, l \in 1 .. Len(q) : q[k].node = q[l].node => k = l
    /\ \A k, l \in 1 .. Len(q) : k <= l => q[k].depth <= q[l].depth
    /\ \A k, l \in 1 .. Len(q) : l > i => q[k].depth <= q[l].depth + 1
    /\ \A k \in 1 .. Len(q) : q[k].node \in Reached(R, s, q[k].depth)
    /\ \A k \in 1 .. Len(q) : k <= i /\ q[k].depth < depth =>
         \A v \in Beyond(R, {q[k].node}) :
           \E l \in 1 .. Len(q) : q[l].node = v /\ q[l].depth <= q[k].depth + 1

\* SetToSeq lists a finite set, each element once.
LEMMA ListedOnce ==
  ASSUME NEW S, IsFiniteSet(S)
  PROVE  /\ SetToSeq(S) \in Seq(S) /\ Range(SetToSeq(S)) = S
         /\ \A k, l \in DOMAIN SetToSeq(S) : SetToSeq(S)[k] = SetToSeq(S)[l] => k = l
<1> DEFINE n == Cardinality(S)
           f == SetToSeq(S)
<1>1. n \in Nat /\ \E g : g \in Bijection(1 .. n, S)
  BY FS_CardinalityType DEF ExistsBijection
<1>2. \E g \in [1 .. n -> S] : IsInjective(g)
  BY <1>1 DEF Bijection, Injection
<1>3. f \in [1 .. n -> S] /\ IsInjective(f)
  BY <1>2 DEF SetToSeq
<1> HIDE DEF f
<1>4. f \in Injection(1 .. n, S) /\ Cardinality(1 .. n) = n
  <2>1. Cardinality(1 .. n) = n
    BY <1>1, FS_Interval
  <2> QED BY <1>3, <2>1 DEF Injection
<1>5. f \in Surjection(1 .. n, S)
  BY <1>4, FS_Injection
<1>6. Range(f) = S
  BY <1>3, <1>5 DEF Surjection, Range
<1>7. f \in Seq(S)
  BY <1>1, <1>3, SeqDef
<1> QED BY <1>3, <1>6, <1>7 DEF IsInjective, f

LEMMA PassedAreNodes ==
  ASSUME GraphInv, NEW n, NEW from, NEW to, NEW directed
  PROVE  Passes(n, from, to, directed) \subseteq nodes
<1>1. \A v : <<n, v>> \in DOMAIN edges \/ <<v, n>> \in DOMAIN edges => v \in nodes
  BY DEF GraphInv, TypeOK
<1> QED BY <1>1 DEF Passes, Neighbors, Successors, Either

\* What the i-th turn makes of a queue, when it comes to nodes new: nothing, at its
\* end or at the depth limit, or else it adds new, each node once.
Joins(x, i, depth, new, y) ==
    LET q == x.frontier
        c == y.frontier
    IN  /\ y \in SearchState(depth)
        /\ i > Len(q) => y = x
        /\ i \in 1 .. Len(q) /\ q[i].depth >= depth => y = x
        /\ i \in 1 .. Len(q) /\ q[i].depth < depth =>
             /\ Len(c) >= Len(q)
             /\ \A k \in 1 .. Len(q) : c[k] = q[k]
             /\ \A k \in Len(q) + 1 .. Len(c) : c[k].node \in new /\ c[k].depth = q[i].depth + 1
             /\ \A k, l \in Len(q) + 1 .. Len(c) : c[k].node = c[l].node => k = l
             /\ \A v \in new : \E k \in Len(q) + 1 .. Len(c) : c[k].node = v
             /\ y.visited = x.visited \cup new

LEMMA TurnQueues ==
  ASSUME GraphInv, NEW depth \in Nat, NEW from, NEW to, NEW directed,
         NEW x \in SearchState(depth), NEW i \in Nat \ {0}
  PROVE  Joins(x, i, depth, Passes(x.frontier[i].node, from, to, directed) \ x.visited,
               Turn(x, i, depth, from, to, directed))
<1> DEFINE q == x.frontier
           y == Turn(x, i, depth, from, to, directed)
           new == Passes(q[i].node, from, to, directed) \ x.visited
           f == SetToSeq(new)
           T == [node : nodes, depth : 0 .. depth]
<1> SUFFICES Joins(x, i, depth, new, y)
  OBVIOUS
<1>1. /\ q \in Seq(T) /\ Len(q) \in Nat /\ x.visited \subseteq nodes
      /\ \A k \in 1 .. Len(q) : q[k] \in T /\ q[k].depth \in 0 .. depth
  <2>1. q \in Seq(T) /\ Len(q) \in Nat /\ x.visited \subseteq nodes
    BY LenProperties DEF SearchState
  <2>2. \A k \in 1 .. Len(q) : q[k] \in T
    BY <2>1, ElementOfSeq
  <2> QED BY <2>1, <2>2
<1>2. new \subseteq nodes /\ IsFiniteSet(new)
  <2>1. new \subseteq nodes
    BY PassedAreNodes
  <2> HIDE DEF new
  <2> QED BY <2>1, FS_Subset DEF GraphInv
<1>3. /\ f \in Seq(new) /\ Range(f) = new
      /\ \A k, l \in DOMAIN f : f[k] = f[l] => k = l
  <2> HIDE DEF new
  <2> QED BY <1>2, ListedOnce
<1> HIDE DEF f
<1>4. f \in [1 .. Len(f) -> new] /\ Len(f) \in Nat /\ DOMAIN f = 1 .. Len(f)
  BY <1>3, LenProperties
<1>5. CASE i > Len(q)
  <2>1. y = x
    BY <1>5 DEF Turn
  <2>2. i \notin 1 .. Len(q)
    BY <1>1, <1>5
  <2> HIDE DEF y, new
  <2> QED BY <2>1, <2>2 DEF Joins
<1>6. CASE i \in 1 .. Len(q) /\ q[i].depth >= depth
  <2>1. y = x
    BY <1>6 DEF Turn
  <2>2. ~(q[i].depth < depth) /\ ~(i > Len(q))
    BY <1>1, <1>6
  <2> HIDE DEF y, new
  <2> QED BY <2>1, <2>2 DEF Joins
<1>7. CASE i \in 1 .. Len(q) /\ q[i].depth < depth
  <2> DEFINE d == q[i].depth + 1
             e == [k \in DOMAIN f |-> Queued(f[k], d)]
             z == [frontier |-> q \o e, visited |-> x.visited \cup Range(f)]
  <2>1. ~(i > Len(q)) /\ ~(q[i].depth >= depth) /\ d \in 0 .. depth
    <3>1. q[i] \in T
      BY <1>1, <1>7, ElementOfSeq
    <3> QED BY <1>1, <1>7, <3>1
  <2>2. y = z
    BY <2>1 DEF Turn, f
  <2> HIDE DEF q, y, new, d
  <2>3. e \in [1 .. Len(f) -> T]
    <3>1. \A k \in 1 .. Len(f) : Queued(f[k], d) \in T
      BY <1>2, <1>4, <2>1 DEF Queued
    <3> QED BY <1>4, <3>1
  <2>4. e \in Seq(T) /\ Len(e) = Len(f)
    <3> HIDE DEF e, T
    <3> QED BY <1>4, <2>3, FunctionIsSeq
  <2>5. \A k \in 1 .. Len(f) : e[k].node = f[k] /\ e[k].depth = d
    BY <1>4 DEF Queued
  <2> HIDE DEF e, T
  <2>6. /\ q \o e \in Seq(T) /\ Len(q \o e) = Len(q) + Len(f)
        /\ \A k \in 1 .. Len(q) + Len(f) :
             (q \o e)[k] = IF k <= Len(q) THEN q[k] ELSE e[k - Len(q)]
    BY <1>1, <2>4, ConcatProperties
  <2> DEFINE c == q \o e
  <2>7. z.frontier = c /\ z.visited = x.visited \cup new
    BY <1>3
  <2> HIDE DEF c
  <2>8. c \in Seq(T) /\ Len(c) = Len(q) + Len(f) /\ \A k \in 1 .. Len(q) : c[k] = q[k]
    BY <1>1, <1>4, <2>6 DEF c
  <2>9. \A k \in Len(q) + 1 .. Len(c) :
          k - Len(q) \in 1 .. Len(f) /\ c[k] = e[k - Len(q)]
    BY <1>1, <1>4, <2>6, <2>8 DEF c
  <2>10. \A k \in Len(q) + 1 .. Len(c) : c[k].node \in new /\ c[k].depth = d
    BY <1>4, <2>5, <2>9
  <2>11. ASSUME NEW k \in Len(q) + 1 .. Len(c), NEW l \in Len(q) + 1 .. Len(c),
                c[k].node = c[l].node
         PROVE  k = l
    <3>1. f[k - Len(q)] = f[l - Len(q)]
      BY <2>5, <2>9, <2>11
    <3>2. k - Len(q) = l - Len(q)
      BY <1>3, <1>4, <2>9, <3>1
    <3> QED BY <1>1, <2>8, <1>4, <3>2
  <2>12. ASSUME NEW v \in new PROVE \E k \in Len(q) + 1 .. Len(c) : c[k].node = v
    <3>1. PICK k \in 1 .. Len(f) : f[k] = v
      BY <1>3, <1>4 DEF Range
    <3>2. Len(q) + k \in Len(q) + 1 .. Len(c) /\ Len(q) + k - Len(q) = k
      BY <1>1, <1>4, <2>8
    <3>3. c[Len(q) + k].node = v
      BY <2>5, <2>9, <3>1, <3>2
    <3> QED BY <3>2, <3>3
  <2>13. z \in SearchState(depth)
    <3>1. x.visited \cup new \subseteq nodes
      BY <1>1, <1>2
    <3> QED BY <1>3, <2>8, <3>1 DEF SearchState, T, c
  <2>14. Len(c) >= Len(q)
    BY <1>1, <1>4, <2>8
  <2> HIDE DEF z
  <2> QED BY <1>7, <2>1, <2>2, <2>7, <2>8, <2>10, <2>11, <2>12, <2>13, <2>14 DEF d, q, Joins
<1>8. i > Len(q) \/ (i \in 1 .. Len(q) /\ q[i].depth >= depth)
        \/ (i \in 1 .. Len(q) /\ q[i].depth < depth)
  <2>1. i > Len(q) \/ i \in 1 .. Len(q)
    BY <1>1
  <2>2. i \in 1 .. Len(q) => q[i].depth \in 0 .. depth
    BY <1>1
  <2> QED BY <2>1, <2>2
<1> QED BY <1>5, <1>6, <1>7, <1>8

LEMMA ReachedWider ==
  ASSUME NEW R, NEW s, NEW k \in Nat, NEW j \in Nat, j <= k
  PROVE  Reached(R, s, j) \subseteq Reached(R, s, k)
<1>1. 0 .. j \subseteq 0 .. k
  OBVIOUS
<1> QED BY <1>1 DEF Reached

LEMMA QueueStarts ==
  ASSUME NEW R, NEW s \in nodes, s \in Wallet, NEW depth \in Nat
  PROVE  QueueOK(R, s, depth, 0, [frontier |-> <<Queued(s, 0)>>, visited |-> {s}])
<1> DEFINE q == <<Queued(s, 0)>>
<1>1. Queued(s, 0) \in [node : nodes, depth : 0 .. depth]
  BY DEF Queued
<1>2. q \in Seq([node : nodes, depth : 0 .. depth]) /\ Len(q) = 1 /\ q[1] = Queued(s, 0)
  BY <1>1
<1>3. q[1].node = s /\ q[1].depth = 0 /\ 1 .. Len(q) = {1}
  BY <1>2 DEF Queued
<1>4. s \in Reached(R, s, 0)
  BY ReachedNothing
<1> DEFINE x == [frontier |-> q, visited |-> {s}]
<1>5. x \in SearchState(depth) /\ x.frontier = q /\ x.visited = {s}
  BY <1>2 DEF SearchState
<1> HIDE DEF q, x
<1>6. x.visited = {q[k].node : k \in 1 .. Len(q)}
  BY <1>3, <1>5
<1>7. \A k \in 1 .. Len(q) : k = 1 /\ ~(k <= 0) /\ q[k].depth = 0 /\ q[k].node = s
  BY <1>3
<1>8. /\ \A k, l \in 1 .. Len(q) : k = l /\ q[k].depth <= q[l].depth /\ q[k].depth <= q[l].depth + 1
      /\ \A k \in 1 .. Len(q) : q[k].node \in Reached(R, s, q[k].depth)
  BY <1>4, <1>7
<1>9. QueueOK(R, s, depth, 0, x)
  <2> DEFINE c == x.frontier
  <2>1. c = q /\ Len(c) >= 1 /\ c[1] = Queued(s, 0)
    BY <1>2, <1>5
  <2>2. x.visited = {c[k].node : k \in 1 .. Len(c)}
    BY <1>5, <1>6
  <2>3. /\ \A k, l \in 1 .. Len(c) : k = l /\ c[k].depth <= c[l].depth /\ c[k].depth <= c[l].depth + 1
        /\ \A k \in 1 .. Len(c) : ~(k <= 0) /\ c[k].node \in Reached(R, s, c[k].depth)
    BY <1>5, <1>7, <1>8
  <2>4. x \in SearchState(depth)
    BY <1>5
  <2> HIDE DEF c
  <2>5. \A k \in 1 .. Len(c) : k <= 0 /\ c[k].depth < depth =>
          \A v \in Beyond(R, {c[k].node}) :
            \E l \in 1 .. Len(c) : c[l].node = v /\ c[l].depth <= c[k].depth + 1
    BY <2>3
  <2> QED BY <2>1, <2>2, <2>3, <2>4, <2>5 DEF QueueOK, c
<1> QED BY <1>9 DEF q, x

\* A turn keeps the queue as it should be.
LEMMA TurnKeepsQueue ==
  ASSUME GraphInv, NEW s \in nodes, NEW depth \in Nat, NEW from, NEW to, NEW directed,
         NEW i \in Nat, NEW x, QueueOK(Passable(from, to, directed), s, depth, i, x)
  PROVE  QueueOK(Passable(from, to, directed), s, depth, i + 1,
                 Turn(x, i + 1, depth, from, to, directed))
<1> DEFINE R == Passable(from, to, directed)
           q == x.frontier
           m == Len(q)
           y == Turn(x, i + 1, depth, from, to, directed)
           c == y.frontier
           n == Len(c)
           j == i + 1
           new == Passes(q[j].node, from, to, directed) \ x.visited
<1>1. /\ x \in SearchState(depth) /\ m >= 1 /\ q[1] = Queued(s, 0)
      /\ x.visited = {q[k].node : k \in 1 .. m}
      /\ \A k, l \in 1 .. m : q[k].node = q[l].node => k = l
      /\ \A k, l \in 1 .. m : k <= l => q[k].depth <= q[l].depth
      /\ \A k, l \in 1 .. m : l > i => q[k].depth <= q[l].depth + 1
      /\ \A k \in 1 .. m : q[k].node \in Reached(R, s, q[k].depth)
      /\ \A k \in 1 .. m : k <= i /\ q[k].depth < depth =>
           \A v \in Beyond(R, {q[k].node}) :
             \E l \in 1 .. m : q[l].node = v /\ q[l].depth <= q[k].depth + 1
  BY DEF QueueOK
<1>2. /\ m \in Nat /\ j \in Nat \ {0} /\ s \in Wallet /\ nodes \subseteq Wallet
      /\ \A k \in 1 .. m : q[k].node \in nodes /\ q[k].depth \in 0 .. depth
  <2>1. q \in Seq([node : nodes, depth : 0 .. depth])
    BY <1>1 DEF SearchState
  <2>2. m \in Nat /\ \A k \in 1 .. m : q[k] \in [node : nodes, depth : 0 .. depth]
    BY <2>1, LenProperties, ElementOfSeq
  <2>3. s \in Wallet /\ nodes \subseteq Wallet
    BY DEF GraphInv, TypeOK
  <2> QED BY <2>2, <2>3
<1>3. /\ y \in SearchState(depth)
      /\ j > m => y = x
      /\ j \in 1 .. m /\ q[j].depth >= depth => y = x
      /\ j \in 1 .. m /\ q[j].depth < depth =>
           /\ n >= m
           /\ \A k \in 1 .. m : c[k] = q[k]
           /\ \A k \in m + 1 .. n : c[k].node \in new /\ c[k].depth = q[j].depth + 1
           /\ \A k, l \in m + 1 .. n : c[k].node = c[l].node => k = l
           /\ \A v \in new : \E k \in m + 1 .. n : c[k].node = v
           /\ y.visited = x.visited \cup new
  <2>1. x \in SearchState(depth) /\ j \in Nat \ {0}
    BY <1>1, <1>2
  <2>2. Joins(x, j, depth, new, y)
    BY <2>1, TurnQueues
  <2> HIDE DEF y, new
  <2> QED BY <2>2 DEF Joins
<1>4. CASE y = x /\ (j > m \/ (j \in 1 .. m /\ q[j].depth >= depth))
  <2> HIDE DEF y, R
  <2>1. \A k \in 1 .. m : k <= j /\ q[k].depth < depth => k <= i
    BY <1>2, <1>4
  <2>2. \A k, l \in 1 .. m : l > j => q[k].depth <= q[l].depth + 1
    BY <1>1, <1>2
  <2>3. QueueOK(R, s, depth, j, x)
    BY <1>1, <2>1, <2>2 DEF QueueOK
  <2> QED BY <1>4, <2>3 DEF y, R
<1>5. CASE j \in 1 .. m /\ q[j].depth < depth
  <2> DEFINE here == q[j].node
             d == q[j].depth
  <2>1. /\ here \in nodes /\ here \in Reached(R, s, d) /\ d \in Nat /\ d < depth
        /\ j \in 1 .. m /\ j > i
    BY <1>1, <1>2, <1>5
  <2>2. /\ n >= m /\ \A k \in 1 .. m : c[k] = q[k]
        /\ \A k \in m + 1 .. n : c[k].node \in new /\ c[k].depth = d + 1
        /\ \A k, l \in m + 1 .. n : c[k].node = c[l].node => k = l
        /\ \A v \in new : \E k \in m + 1 .. n : c[k].node = v
        /\ y.visited = x.visited \cup new
    BY <1>3, <1>5
  <2>3. n \in Nat
    BY <1>3, LenProperties DEF SearchState
  <2>4. /\ \A v : v \in Beyond(R, {here}) <=> v \in Passes(here, from, to, directed)
        /\ Beyond(R, {here}) \subseteq Reached(R, s, d + 1)
    <3>1. here \in Wallet
      BY <1>2, <2>1
    <3>2. UNION {Passes(k, from, to, directed) : k \in {here}} = Beyond(R, {here})
      BY <3>1, PassesAreBeyond
    <3>3. Beyond(R, {here}) \subseteq Beyond(R, Reached(R, s, d))
      BY <2>1 DEF Beyond
    <3>4. Reached(R, s, d + 1) = Reached(R, s, d) \cup Beyond(R, Reached(R, s, d))
      <4> HIDE DEF R, d
      <4> QED BY <1>2, <2>1, ReachedGrows
    <3>5. UNION {Passes(k, from, to, directed) : k \in {here}} = Passes(here, from, to, directed)
      OBVIOUS
    <3> HIDE DEF here, d, R
    <3> QED BY <3>2, <3>3, <3>4, <3>5
  <2>5. new \subseteq Reached(R, s, d + 1)
    BY <2>4
  <2> DEFINE old == x.visited
  <2>6. \A v \in Beyond(R, {here}) : v \in old \/ v \in new
    BY <2>4
  <2>7. \A v \in new : v \notin old
    OBVIOUS
  <2>8. old = {q[k].node : k \in 1 .. m}
    BY <1>1
  <2> HIDE DEF y, R, new, c, here, d, old
  <2>9. \A k \in 1 .. n : k \in 1 .. m \/ k \in m + 1 .. n
    BY <1>2, <2>3
  <2>10. \A k \in 1 .. m : k \in 1 .. n /\ c[k].node = q[k].node /\ c[k].depth = q[k].depth
    BY <1>2, <2>2, <2>3
  <2>11. y.visited = {c[k].node : k \in 1 .. n}
    <3>1. ASSUME NEW v \in old \cup new PROVE \E k \in 1 .. n : c[k].node = v
      <4>1. CASE v \in old
        BY <2>8, <2>10, <4>1
      <4>2. CASE v \in new
        <5>1. PICK k \in m + 1 .. n : c[k].node = v
          BY <2>2, <4>2
        <5>2. k \in 1 .. n
          BY <1>2, <2>3
        <5> QED BY <5>1, <5>2
      <4> QED BY <4>1, <4>2
    <3>2. ASSUME NEW k \in 1 .. n PROVE c[k].node \in old \cup new
      BY <2>2, <2>8, <2>9, <2>10
    <3>3. y.visited = old \cup new
      BY <2>2 DEF old
    <3> QED BY <3>1, <3>2, <3>3
  <2>12. ASSUME NEW k \in 1 .. n, NEW l \in 1 .. n, c[k].node = c[l].node PROVE k = l
    <3>1. CASE k \in 1 .. m /\ l \in 1 .. m
      BY <1>1, <2>10, <2>12, <3>1
    <3>2. CASE k \in m + 1 .. n /\ l \in m + 1 .. n
      BY <2>2, <2>12, <3>2
    <3>3. \A a \in 1 .. m, b \in m + 1 .. n : c[a].node # c[b].node
      <4> SUFFICES ASSUME NEW a \in 1 .. m, NEW b \in m + 1 .. n PROVE c[a].node # c[b].node
        OBVIOUS
      <4>1. c[a].node \in old
        BY <2>8, <2>10
      <4> QED BY <2>2, <2>7, <4>1
    <3> QED BY <2>9, <2>12, <3>1, <3>2, <3>3
  <2>13. \A k \in 1 .. m : q[k].depth <= d + 1 /\ q[k].depth \in Nat
    BY <1>1, <1>2, <2>1 DEF d
  <2>14. \A k \in 1 .. n : c[k].depth \in Nat /\ c[k].depth <= d + 1
    BY <2>1, <2>2, <2>9, <2>10, <2>13
  <2>15. ASSUME NEW k \in 1 .. n, NEW l \in 1 .. n, k <= l PROVE c[k].depth <= c[l].depth
    <3>1. CASE l \in m + 1 .. n
      BY <2>2, <2>14, <3>1
    <3>2. CASE l \in 1 .. m
      <4>1. k \in 1 .. m
        BY <1>2, <2>15, <3>2
      <4> QED BY <1>1, <2>10, <2>15, <3>2, <4>1
    <3> QED BY <2>9, <3>1, <3>2
  <2>16. ASSUME NEW k \in 1 .. n, NEW l \in 1 .. n, l > j PROVE c[k].depth <= c[l].depth + 1
    <3>1. c[j].depth = d /\ j \in 1 .. n
      BY <2>1, <2>10 DEF d
    <3>2. d <= c[l].depth
      BY <2>15, <2>16, <3>1
    <3> QED BY <2>1, <2>14, <3>2
  <2>17. ASSUME NEW k \in 1 .. n PROVE c[k].node \in Reached(R, s, c[k].depth)
    <3>1. CASE k \in 1 .. m
      BY <1>1, <2>10, <3>1
    <3>2. CASE k \in m + 1 .. n
      BY <2>2, <2>5, <3>2
    <3> QED BY <2>9, <3>1, <3>2
  <2>18. ASSUME NEW k \in 1 .. n, k <= j, c[k].depth < depth, NEW v \in Beyond(R, {c[k].node})
         PROVE  \E l \in 1 .. n : c[l].node = v /\ c[l].depth <= c[k].depth + 1
    <3>1. k \in 1 .. m
      BY <1>2, <2>1, <2>18
    <3>2. CASE k <= i
      <4>1. \E l \in 1 .. m : q[l].node = v /\ q[l].depth <= q[k].depth + 1
        BY <1>1, <2>10, <2>18, <3>1, <3>2
      <4> QED BY <2>10, <3>1, <4>1
    <3>3. CASE k = j
      <4>1. c[k].node = here /\ c[k].depth = d
        BY <2>10, <3>1, <3>3 DEF here, d
      <4>2. CASE v \in old
        <5>1. PICK l \in 1 .. m : q[l].node = v
          BY <2>8, <4>2
        <5> QED BY <2>10, <2>13, <4>1, <5>1
      <4>3. CASE v \in new
        <5>1. PICK l \in m + 1 .. n : c[l].node = v
          BY <2>2, <4>3
        <5>2. l \in 1 .. n
          BY <1>2, <2>3
        <5> QED BY <2>14, <4>1, <5>1, <5>2
      <4> QED BY <2>6, <2>18, <4>1, <4>2, <4>3
    <3> QED BY <1>2, <2>18, <3>2, <3>3
  <2>19. n >= 1 /\ c[1] = Queued(s, 0)
    BY <1>1, <1>2, <2>2, <2>3
  <2>20. y \in SearchState(depth) /\ y.frontier = c
    BY <1>3 DEF c
  <2>21. QueueOK(R, s, depth, j, y)
    BY <2>11, <2>12, <2>15, <2>16, <2>17, <2>18, <2>19, <2>20 DEF QueueOK
  <2> QED BY <2>21 DEF y, R
<1>6. j > m \/ j \in 1 .. m
  BY <1>2
<1>7. j \in 1 .. m => q[j].depth \in 0 .. depth
  BY <1>2
<1>8. /\ j > m => y = x
      /\ j \in 1 .. m /\ q[j].depth >= depth => y = x
      /\ j \in 1 .. m => q[j].depth >= depth \/ q[j].depth < depth
  BY <1>3, <1>7
<1> HIDE DEF y, R, q
<1> QED BY <1>4, <1>5, <1>6, <1>8

\* When every node of the queue has been looked at, what treks lead to has been
\* visited, and nothing else.
LEMMA QueueIsComplete ==
  ASSUME GraphInv, NEW R, NEW s \in nodes, NEW depth \in Nat, NEW x,
         QueueOK(R, s, depth, Cardinality(nodes), x)
  PROVE  x.visited = Reached(R, s, depth)
<1> DEFINE q == x.frontier
           m == Len(q)
           N == Cardinality(nodes)
<1>1. /\ x \in SearchState(depth) /\ m >= 1 /\ q[1] = Queued(s, 0)
      /\ x.visited = {q[k].node : k \in 1 .. m}
      /\ \A k, l \in 1 .. m : q[k].node = q[l].node => k = l
      /\ \A k \in 1 .. m : q[k].node \in Reached(R, s, q[k].depth)
      /\ \A k \in 1 .. m : k <= N /\ q[k].depth < depth =>
           \A v \in Beyond(R, {q[k].node}) :
             \E l \in 1 .. m : q[l].node = v /\ q[l].depth <= q[k].depth + 1
  BY DEF QueueOK
<1>2. /\ m \in Nat /\ s \in Wallet
      /\ \A k \in 1 .. m : q[k].node \in nodes /\ q[k].depth \in 0 .. depth
  <2>1. q \in Seq([node : nodes, depth : 0 .. depth])
    BY <1>1 DEF SearchState
  <2>2. m \in Nat /\ \A k \in 1 .. m : q[k] \in [node : nodes, depth : 0 .. depth]
    BY <2>1, LenProperties, ElementOfSeq
  <2>3. s \in Wallet
    BY DEF GraphInv, TypeOK
  <2> QED BY <2>2, <2>3
<1> HIDE DEF q
<1>3. m <= N
  <2> DEFINE f == [k \in 1 .. m |-> q[k].node]
  <2>1. f \in Injection(1 .. m, nodes)
    BY <1>1, <1>2 DEF Injection, IsInjective
  <2>2. Cardinality(1 .. m) <= N
    <3> HIDE DEF f
    <3> QED BY <2>1, FS_Injection DEF GraphInv
  <2>3. Cardinality(1 .. m) = m
    BY <1>1, <1>2, FS_Interval
  <2> QED BY <2>2, <2>3
<1>4. \A k \in 1 .. m : k <= N
  <2>1. N \in Nat
    BY FS_CardinalityType DEF GraphInv
  <2> QED BY <1>2, <1>3, <2>1
<1> DEFINE Held(k) == \A v \in Reached(R, s, k) :
                        \E l \in 1 .. m : q[l].node = v /\ q[l].depth <= k
           X == {k \in 0 .. depth : ~Held(k)}
<1>5. Held(0)
  <2>1. Reached(R, s, 0) = {s}
    BY <1>2, ReachedNothing
  <2>2. 1 \in 1 .. m /\ q[1].node = s /\ q[1].depth <= 0
    BY <1>1, <1>2 DEF Queued
  <2> QED BY <2>1, <2>2
<1>6. ASSUME NEW k \in Nat, k < depth, Held(k) PROVE Held(k + 1)
  <2> SUFFICES ASSUME NEW v \in Reached(R, s, k + 1)
               PROVE  \E l \in 1 .. m : q[l].node = v /\ q[l].depth <= k + 1
    OBVIOUS
  <2>1. Reached(R, s, k + 1) = Reached(R, s, k) \cup Beyond(R, Reached(R, s, k))
    BY <1>2, ReachedGrows
  <2>2. CASE v \in Reached(R, s, k)
    <3>1. PICK l \in 1 .. m : q[l].node = v /\ q[l].depth <= k
      BY <1>6, <2>2
    <3>2. q[l].depth <= k + 1
      BY <1>2, <3>1
    <3> QED BY <3>1, <3>2
  <2>3. CASE v \in Beyond(R, Reached(R, s, k))
    <3>1. PICK w \in Reached(R, s, k) : <<w, v>> \in R
      BY <2>3 DEF Beyond
    <3>2. PICK l \in 1 .. m : q[l].node = w /\ q[l].depth <= k
      BY <1>6, <3>1
    <3>3. v \in Beyond(R, {q[l].node}) /\ q[l].depth < depth /\ l <= N
      BY <1>2, <1>4, <1>6, <2>3, <3>1, <3>2 DEF Beyond
    <3>4. PICK r \in 1 .. m : q[r].node = v /\ q[r].depth <= q[l].depth + 1
      BY <1>1, <3>3
    <3>5. q[r].depth <= k + 1
      BY <1>2, <3>2, <3>4
    <3> QED BY <3>4, <3>5
  <2> QED BY <2>1, <2>2, <2>3
<1> HIDE DEF Held
<1>7. X = {}
  <2> SUFFICES ASSUME X # {} PROVE FALSE
    OBVIOUS
  <2>1. X \in SUBSET Nat
    OBVIOUS
  <2>2. PICK k \in X : \A l \in X : k <= l
    <3> HIDE DEF X
    <3> QED BY <2>1, LeastNat
  <2>3. k \in Nat /\ k <= depth /\ ~Held(k) /\ k # 0
    BY <1>5, <2>2
  <2>4. k - 1 \in Nat /\ k - 1 < depth /\ k - 1 \in 0 .. depth /\ k - 1 + 1 = k
    BY <2>3
  <2>5. k - 1 \notin X
    BY <2>2, <2>3, <2>4
  <2>6. Held(k - 1)
    BY <2>4, <2>5
  <2>7. Held(k - 1 + 1)
    BY <1>6, <2>4, <2>6
  <2> QED BY <2>3, <2>4, <2>7
<1>8. Held(depth)
  BY <1>7
<1>9. Reached(R, s, depth) \subseteq x.visited
  BY <1>1, <1>8 DEF Held, q
<1>10. ASSUME NEW k \in 1 .. m PROVE q[k].node \in Reached(R, s, depth)
  <2>1. q[k].depth \in Nat /\ q[k].depth <= depth
    BY <1>2
  <2>2. Reached(R, s, q[k].depth) \subseteq Reached(R, s, depth)
    BY <2>1, ReachedWider
  <2> QED BY <1>1, <2>2 DEF q
<1>11. x.visited = {q[k].node : k \in 1 .. m}
  BY <1>1 DEF q
<1> QED BY <1>9, <1>10, <1>11

\* A windowed search finds what treks over passable pairs lead to.
LEMMA SearchFindsReached ==
  ASSUME GraphInv, NEW s \in nodes, NEW depth \in Nat, NEW from, NEW to, NEW directed
  PROVE  TimeWindowBfs(s, depth, from, to, directed)
           = Reached(Passable(from, to, directed), s, depth)
<1> DEFINE R == Passable(from, to, directed)
           N == Cardinality(nodes)
           start == [frontier |-> <<Queued(s, 0)>>, visited |-> {s}]
           Step(x, i) == Turn(x, i, depth, from, to, directed)
           Body(f) == [i \in 0 .. N |-> IF i = 0 THEN start ELSE Step(f[i - 1], i)]
           search == CHOOSE f : f = Body(f)
           S == SearchState(depth)
           g == [i \in Nat |-> [x \in S |-> Step(x, i + 1)]]
           OK(i, x) == QueueOK(R, s, depth, i, x)
<1>1. TimeWindowBfs(s, depth, from, to, directed) = search[N].visited
  BY DEF TimeWindowBfs
<1>2. N \in Nat /\ s \in Wallet
  BY FS_CardinalityType DEF GraphInv, TypeOK
<1>3. OK(0, start)
  BY <1>2, QueueStarts
<1>4. \A i \in Nat : \A x : OK(i, x) => OK(i + 1, Step(x, i + 1))
  BY TurnKeepsQueue
<1>5. start \in S
  BY <1>3 DEF QueueOK
<1>6. \A x \in S, i \in Nat : Step(x, i + 1) \in S
  <2> SUFFICES ASSUME NEW x \in S, NEW i \in Nat PROVE Step(x, i + 1) \in S
    OBVIOUS
  <2>1. i + 1 \in Nat \ {0}
    OBVIOUS
  <2>2. Joins(x, i + 1, depth, Passes(x.frontier[i + 1].node, from, to, directed) \ x.visited,
              Step(x, i + 1))
    BY <2>1, TurnQueues
  <2> HIDE DEF Step
  <2> QED BY <2>2 DEF Joins
<1> HIDE DEF start, Step, OK, S, R
<1>7. g \in [Nat -> [S -> S]]
  BY <1>6
<1>8. PICK h : Takes(h, S, start, g)
  <2> HIDE DEF g
  <2> QED BY <1>5, <1>7, RecursionExists
<1>9. h[0] = start /\ \A i \in 1 .. N : h[i] = Step(h[i - 1], i)
  <2>1. h \in [Nat -> S] /\ h[0] = start /\ \A i \in Nat : h[i + 1] = g[i][h[i]]
    BY <1>8 DEF Takes
  <2>2. ASSUME NEW i \in 1 .. N PROVE h[i] = Step(h[i - 1], i)
    <3>1. i - 1 \in Nat /\ i - 1 + 1 = i
      OBVIOUS
    <3>2. h[i - 1 + 1] = g[i - 1][h[i - 1]] /\ h[i - 1] \in S
      <4> HIDE DEF g
      <4> QED BY <2>1, <3>1
    <3>3. g[i - 1][h[i - 1]] = Step(h[i - 1], i - 1 + 1)
      BY <3>1, <3>2
    <3> HIDE DEF g
    <3> QED BY <3>1, <3>2, <3>3
  <2> QED BY <2>1, <2>2
<1> HIDE DEF g
<1> DEFINE r == [i \in 0 .. N |-> h[i]]
<1>10. r = Body(r)
  <2>1. \A i \in 0 .. N : r[i] = IF i = 0 THEN start ELSE Step(r[i - 1], i)
    <3> SUFFICES ASSUME NEW i \in 0 .. N
                 PROVE  r[i] = IF i = 0 THEN start ELSE Step(r[i - 1], i)
      OBVIOUS
    <3>1. CASE i = 0
      BY <1>9, <3>1
    <3>2. CASE i # 0
      <4>1. i \in 1 .. N /\ i - 1 \in 0 .. N
        BY <1>2, <3>2
      <4>2. r[i] = h[i] /\ r[i - 1] = h[i - 1]
        BY <4>1
      <4> QED BY <1>9, <3>2, <4>1, <4>2
    <3> QED BY <3>1, <3>2
  <2> HIDE DEF r
  <2>2. r = [i \in 0 .. N |-> r[i]]
    BY DEF r
  <2> QED BY <2>1, <2>2
<1>11. search = Body(search)
  <2> HIDE DEF r, Body
  <2> QED BY <1>10
<1> HIDE DEF search, r
<1>12. search[0] = start /\ \A i \in 1 .. N : search[i] = Step(search[i - 1], i)
  <2>1. 0 \in 0 .. N /\ \A i \in 1 .. N : i \in 0 .. N /\ i # 0
    BY <1>2
  <2> QED BY <1>11, <2>1
<1> DEFINE X == {i \in 0 .. N : ~OK(i, search[i])}
<1>13. X = {}
  <2> SUFFICES ASSUME X # {} PROVE FALSE
    OBVIOUS
  <2>1. X \in SUBSET Nat
    OBVIOUS
  <2>2. PICK i \in X : \A l \in X : i <= l
    <3> HIDE DEF X
    <3> QED BY <2>1, LeastNat
  <2>3. i \in 0 .. N /\ i # 0 /\ ~OK(i, search[i])
    BY <1>3, <1>12, <2>2
  <2>4. i \in 1 .. N /\ i - 1 \in 0 .. N /\ i - 1 \in Nat /\ i - 1 + 1 = i
    BY <1>2, <2>3
  <2>5. i - 1 \notin X
    BY <2>2, <2>4
  <2>6. OK(i - 1, search[i - 1])
    BY <2>4, <2>5
  <2>7. OK(i - 1 + 1, Step(search[i - 1], i - 1 + 1))
    BY <1>4, <2>4, <2>6
  <2>8. OK(i, search[i])
    BY <1>12, <2>4, <2>7
  <2> QED BY <2>3, <2>8
<1>14. OK(N, search[N])
  <2>1. N \in 0 .. N
    BY <1>2
  <2> QED BY <1>13, <2>1
<1>15. search[N].visited = Reached(R, s, depth)
  <2>1. PICK x : x = search[N]
    OBVIOUS
  <2>2. QueueOK(R, s, depth, Cardinality(nodes), x)
    BY <1>14, <2>1 DEF OK
  <2>3. x.visited = Reached(R, s, depth)
    BY <2>2, QueueIsComplete
  <2> QED BY <2>1, <2>3
<1> QED BY <1>1, <1>15 DEF R

\* The fast path finds what treks forward over transfers lead to.
LEMMA FastFindsReached ==
  ASSUME GraphInv, NEW s \in nodes, NEW depth \in Nat, NEW directed,
         \A n : Passes(n, NoTime, NoTime, directed) = Successors(n)
  PROVE  Bfs(s, depth) = Reached(Passable(NoTime, NoTime, directed), s, depth)
<1> DEFINE R == Passable(NoTime, NoTime, directed)
           Body(f) == [k \in 0 .. depth |->
                         IF k = 0 THEN {s}
                         ELSE f[k - 1] \cup UNION {Successors(n) : n \in f[k - 1]}]
           level == CHOOSE f : f = Body(f)
           g == [k \in 0 .. depth |-> Reached(R, s, k)]
           X == {k \in 0 .. depth : level[k] # g[k]}
<1>1. s \in Wallet
  BY DEF GraphInv, TypeOK
<1>2. Bfs(s, depth) = level[depth]
  BY DEF Bfs
<1>3. ASSUME NEW k \in 1 .. depth
      PROVE  /\ k - 1 \in 0 .. depth /\ k - 1 \in Nat /\ k \in 0 .. depth
             /\ g[k] = g[k - 1] \cup UNION {Successors(n) : n \in g[k - 1]}
  <2>1. k - 1 \in Nat /\ k - 1 \in 0 .. depth /\ k - 1 + 1 = k /\ k \in 0 .. depth
    OBVIOUS
  <2>2. Reached(R, s, k) = Reached(R, s, k - 1) \cup Beyond(R, Reached(R, s, k - 1))
    <3> HIDE DEF R
    <3>1. Reached(R, s, k - 1 + 1) = Reached(R, s, k - 1) \cup Beyond(R, Reached(R, s, k - 1))
      BY <1>1, <2>1, ReachedGrows
    <3> QED BY <2>1, <3>1
  <2>3. Reached(R, s, k - 1) \in SUBSET Wallet
    BY DEF Reached
  <2>4. UNION {Successors(n) : n \in Reached(R, s, k - 1)} = Beyond(R, Reached(R, s, k - 1))
    <3>2. UNION {Passes(n, NoTime, NoTime, directed) : n \in Reached(R, s, k - 1)}
            = Beyond(R, Reached(R, s, k - 1))
      <4>1. PICK S \in SUBSET Wallet : S = Reached(R, s, k - 1)
        BY <2>3, Zenon
      <4>2. UNION {Passes(n, NoTime, NoTime, directed) : n \in S}
              = Beyond(Passable(NoTime, NoTime, directed), S)
        BY PassesAreBeyond
      <4>3. UNION {Passes(n, NoTime, NoTime, directed) : n \in S} = Beyond(R, S)
        BY <4>2, Zenon
      <4> HIDE DEF R
      <4> QED BY <4>1, <4>3
    <3>3. {Passes(n, NoTime, NoTime, directed) : n \in Reached(R, s, k - 1)}
            = {Successors(n) : n \in Reached(R, s, k - 1)}
      <4> HIDE DEF R
      <4> QED OBVIOUS
    <3> QED BY <3>2, <3>3, Zenon
  <2>5. g[k] = Reached(R, s, k) /\ g[k - 1] = Reached(R, s, k - 1)
    BY <2>1
  <2> HIDE DEF R, g
  <2> QED BY <2>1, <2>2, <2>4, <2>5
<1>4. g[0] = {s}
  <2>1. Reached(R, s, 0) = {s}
    <3> HIDE DEF R
    <3> QED BY <1>1, ReachedNothing
  <2>2. 0 \in 0 .. depth
    OBVIOUS
  <2> QED BY <2>1, <2>2
<1>5. \A k \in 0 .. depth : k = 0 \/ k \in 1 .. depth
  OBVIOUS
<1>6. g = Body(g)
  <2>1. \A k \in 0 .. depth : g[k] = Body(g)[k]
    <3> HIDE DEF g
    <3> QED BY <1>3, <1>4, <1>5
  <2>2. DOMAIN g = 0 .. depth /\ DOMAIN Body(g) = 0 .. depth
    OBVIOUS
  <2>3. g = [k \in 0 .. depth |-> g[k]]
    OBVIOUS
  <2>4. Body(g) = [k \in 0 .. depth |-> Body(g)[k]]
    <3> HIDE DEF g
    <3> QED OBVIOUS
  <2> HIDE DEF g, Body
  <2> QED BY <2>1, <2>3, <2>4
<1>7. level = Body(level)
  <2> HIDE DEF Body
  <2> QED BY <1>6
<1> HIDE DEF level, g
<1>8. /\ level[0] = {s}
      /\ \A k \in 1 .. depth :
           level[k] = level[k - 1] \cup UNION {Successors(n) : n \in level[k - 1]}
  <2>1. /\ Body(level)[0] = {s}
        /\ \A k \in 1 .. depth :
             Body(level)[k] = level[k - 1] \cup UNION {Successors(n) : n \in level[k - 1]}
    BY <1>5
  <2> HIDE DEF Body
  <2> QED BY <1>7, <2>1
<1>9. X = {}
  <2> SUFFICES ASSUME X # {} PROVE FALSE
    OBVIOUS
  <2>1. X \in SUBSET Nat
    OBVIOUS
  <2>2. PICK k \in X : \A l \in X : k <= l
    <3> HIDE DEF X
    <3> QED BY <2>1, LeastNat
  <2>3. k \in 1 .. depth
    <3>1. k \in 0 .. depth /\ level[k] # g[k]
      OBVIOUS
    <3>2. k # 0
      BY <1>4, <1>8, <3>1
    <3> QED BY <3>1, <3>2
  <2>4. k - 1 \notin X
    BY <2>2, <2>3
  <2>5. level[k - 1] = g[k - 1]
    BY <1>3, <2>3, <2>4
  <2> QED BY <1>3, <1>8, <2>2, <2>3, <2>5
<1>10. level[depth] = g[depth]
  <2>1. depth \in 0 .. depth
    OBVIOUS
  <2>2. \A k \in 0 .. depth : level[k] = g[k]
    BY <1>9
  <2> QED BY <2>1, <2>2
<1>11. g[depth] = Reached(R, s, depth)
  <2>1. depth \in 0 .. depth
    OBVIOUS
  <2> HIDE DEF R
  <2> QED BY <2>1 DEF g
<1> QED BY <1>2, <1>10, <1>11

-----------------------------------------------------------------------------
(* Simple paths. *)

\* The simple paths of k edges from s.
Way(s, k) == {p \in Trek(DOMAIN edges, s, k) : IsSimple(p, k)}

LEMMA WayIsSeq ==
  ASSUME NEW s, NEW k \in Nat, NEW p \in Way(s, k)
  PROVE  p \in Seq(Wallet) /\ Len(p) = k + 1 /\ p[1] = s
<1>1. p \in [1 .. k + 1 -> Wallet] /\ p[1] = s /\ k + 1 \in Nat
  BY DEF Way, Trek
<1> QED BY <1>1, FunctionIsSeq

Extensions(p, k) == {Append(p, v) : v \in Successors(p[k]) \ {p[i] : i \in 1 .. k}}

LEMMA WaysGrow ==
  ASSUME GraphInv, NEW s \in Wallet, NEW k \in Nat
  PROVE  Way(s, k + 1) = UNION {Extensions(p, k + 1) : p \in Way(s, k)}
<1>1. ASSUME NEW q \in Way(s, k + 1)
      PROVE  \E p \in Way(s, k) : q \in Extensions(p, k + 1)
  <2>1. q \in Trek(DOMAIN edges, s, k + 1) /\ IsSimple(q, k + 1)
    BY DEF Way
  <2>2. PICK p \in Trek(DOMAIN edges, s, k) : /\ p = [i \in 1 .. k + 1 |-> q[i]]
                                              /\ <<p[k + 1], q[k + 1 + 1]>> \in DOMAIN edges
    BY <2>1, TrekShrinks
  <2>3. q \in [1 .. k + 1 + 1 -> Wallet]
    BY <2>1 DEF Trek
  <2>4. IsSimple(p, k)
    BY <2>1, <2>2 DEF IsSimple
  <2>5. p \in Way(s, k)
    BY <2>4 DEF Way
  <2> DEFINE v == q[k + 1 + 1]
  <2>6. v \in Successors(p[k + 1])
    <3>1. v \in Wallet
      <4>1. k + 1 + 1 \in 1 .. k + 1 + 1
        OBVIOUS
      <4> QED BY <2>3, <4>1
    <3> QED BY <2>2, <3>1 DEF Successors
  <2>7. v \notin {p[i] : i \in 1 .. k + 1}
    <3> SUFFICES ASSUME NEW i \in 1 .. k + 1, p[i] = v PROVE FALSE
      OBVIOUS
    <3>1. q[i] = q[k + 1 + 1] /\ i \in 1 .. k + 1 + 1 /\ k + 1 + 1 \in 1 .. k + 1 + 1
      BY <2>2
    <3>2. i = k + 1 + 1
      BY <2>1, <3>1 DEF IsSimple
    <3> QED BY <3>2
  <2>8. q = Append(p, v)
    <3>1. p \in Seq(Wallet) /\ Len(p) = k + 1
      BY <2>5, WayIsSeq
    <3>2. q \in Seq(Wallet) /\ Len(q) = k + 1 + 1
      BY <2>3, FunctionIsSeq
    <3>3. /\ Append(p, v) \in Seq(Wallet) /\ Len(Append(p, v)) = k + 1 + 1
          /\ \A i \in 1 .. k + 1 : Append(p, v)[i] = p[i]
          /\ Append(p, v)[k + 1 + 1] = v
      BY <2>3, <3>1, AppendProperties
    <3>4. \A i \in 1 .. k + 1 + 1 : q[i] = Append(p, v)[i]
      <4>1. \A i \in 1 .. k + 1 + 1 : i \in 1 .. k + 1 \/ i = k + 1 + 1
        OBVIOUS
      <4> QED BY <2>2, <3>3, <4>1
    <3> HIDE DEF v
    <3> QED BY <3>2, <3>3, <3>4, SeqEqual
  <2> HIDE DEF v
  <2> QED BY <2>5, <2>6, <2>7, <2>8 DEF Extensions
<1>2. ASSUME NEW p \in Way(s, k), NEW v \in Successors(p[k + 1]) \ {p[i] : i \in 1 .. k + 1}
      PROVE  Append(p, v) \in Way(s, k + 1)
  <2> DEFINE q == Append(p, v)
  <2>1. p \in Seq(Wallet) /\ Len(p) = k + 1 /\ p[1] = s
    BY WayIsSeq
  <2>2. v \in Wallet /\ <<p[k + 1], v>> \in DOMAIN edges
    BY <1>2 DEF Successors
  <2>3. /\ q \in Seq(Wallet) /\ Len(q) = k + 1 + 1
        /\ \A i \in 1 .. k + 1 : q[i] = p[i]
        /\ q[k + 1 + 1] = v
    BY <2>1, <2>2, AppendProperties
  <2> HIDE DEF q
  <2>4. q \in [1 .. k + 1 + 1 -> Wallet]
    BY <2>3, ElementOfSeq, LenProperties
  <2>5. q[1] = s
    BY <2>1, <2>3
  <2>6. \A i \in 1 .. k : <<p[i], p[i + 1]>> \in DOMAIN edges
    BY DEF Way, Trek
  <2>7. ASSUME NEW i \in 1 .. k + 1 PROVE <<q[i], q[i + 1]>> \in DOMAIN edges
    <3>1. CASE i \in 1 .. k
      BY <2>3, <2>6, <3>1
    <3>2. CASE i = k + 1
      BY <2>2, <2>3, <3>2
    <3> QED BY <3>1, <3>2
  <2>8. ASSUME NEW i \in 1 .. k + 1 + 1, NEW j \in 1 .. k + 1 + 1, q[i] = q[j] PROVE i = j
    <3>1. \A l \in 1 .. k + 1 : q[l] # v
      BY <1>2, <2>3
    <3>2. CASE i \in 1 .. k + 1 /\ j \in 1 .. k + 1
      BY <2>3, <2>8, <3>2 DEF Way, IsSimple
    <3>3. CASE i = k + 1 + 1 \/ j = k + 1 + 1
      <4>1. i \notin 1 .. k + 1 /\ j \notin 1 .. k + 1
        BY <2>3, <2>8, <3>1, <3>3
      <4> QED BY <4>1
    <3> QED BY <3>2, <3>3
  <2>9. q \in Trek(DOMAIN edges, s, k + 1) /\ IsSimple(q, k + 1)
    BY <2>4, <2>5, <2>7, <2>8 DEF Trek, IsSimple
  <2> QED BY <2>9 DEF Way, q
<1>3. \A p \in Way(s, k) : \A q \in Extensions(p, k + 1) : q \in Way(s, k + 1)
  BY <1>2 DEF Extensions
<1> QED BY <1>1, <1>3

LEMMA WayOfNoEdges ==
  ASSUME NEW s \in Wallet
  PROVE  Way(s, 0) = {<<s>>}
<1>1. ASSUME NEW p \in Way(s, 0) PROVE p = <<s>>
  <2>1. p \in [1 .. 0 + 1 -> Wallet] /\ p[1] = s
    BY DEF Way, Trek
  <2>2. 0 + 1 = 1 /\ DOMAIN <<s>> = 1 .. 1 /\ <<s>>[1] = s
    OBVIOUS
  <2> QED BY <2>1, <2>2
<1>2. <<s>> \in Way(s, 0)
  <2>1. <<s>> \in [1 .. 0 + 1 -> Wallet] /\ <<s>>[1] = s
    OBVIOUS
  <2>2. \A i, j \in 1 .. 0 + 1 : i = j
    OBVIOUS
  <2>3. \A i \in 1 .. 0 : FALSE
    OBVIOUS
  <2> QED BY <2>1, <2>2, <2>3 DEF Way, Trek, IsSimple
<1> QED BY <1>1, <1>2

\* all_simple_paths returns the simple paths there are.
LEMMA SimplePathsAre ==
  ASSUME GraphInv, NEW s \in Wallet, NEW t, NEW n \in Nat, NEW p
  PROVE  p \in SimplePaths(s, t, n) <=> \E k \in 0 .. n : p \in Way(s, k) /\ p[k + 1] = t
<1> DEFINE Body(f) == [k \in 0 .. n |->
                         IF k = 0 THEN {<<s>>}
                         ELSE UNION {{Append(q, v) : v \in Successors(q[k]) \ {q[i] : i \in 1 .. k}} :
                                       q \in f[k - 1]}]
           walks == CHOOSE f : f = Body(f)
           g == [k \in 0 .. n |-> Way(s, k)]
           X == {k \in 0 .. n : walks[k] # g[k]}
<1>1. SimplePaths(s, t, n) = {q \in UNION {walks[k] : k \in 0 .. n} : q[Len(q)] = t}
  BY DEF SimplePaths
<1>2. \A f : Body(f) = [k \in 0 .. n |-> IF k = 0 THEN {<<s>>}
                                          ELSE UNION {Extensions(q, k) : q \in f[k - 1]}]
  BY DEF Extensions
<1>3. ASSUME NEW k \in 1 .. n
      PROVE  /\ k - 1 \in 0 .. n /\ k \in 0 .. n
             /\ g[k] = UNION {Extensions(q, k) : q \in g[k - 1]}
  <2>1. k - 1 \in Nat /\ k - 1 \in 0 .. n /\ k - 1 + 1 = k /\ k \in 0 .. n
    OBVIOUS
  <2>2. Way(s, k - 1 + 1) = UNION {Extensions(q, k - 1 + 1) : q \in Way(s, k - 1)}
    BY <2>1, WaysGrow
  <2>3. Way(s, k) = UNION {Extensions(q, k) : q \in Way(s, k - 1)}
    BY <2>1, <2>2
  <2>4. g[k] = Way(s, k) /\ g[k - 1] = Way(s, k - 1)
    BY <2>1
  <2> HIDE DEF g
  <2> QED BY <2>1, <2>3, <2>4
<1>4. g[0] = {<<s>>}
  <2>1. 0 \in 0 .. n
    OBVIOUS
  <2> QED BY <2>1, WayOfNoEdges
<1>5. \A k \in 0 .. n : k = 0 \/ k \in 1 .. n
  OBVIOUS
<1> HIDE DEF Body
<1>6. g = Body(g)
  <2>1. \A k \in 0 .. n : g[k] = IF k = 0 THEN {<<s>>}
                                 ELSE UNION {Extensions(q, k) : q \in g[k - 1]}
    <3> HIDE DEF g
    <3> QED BY <1>3, <1>4, <1>5
  <2>2. g = [k \in 0 .. n |-> g[k]]
    OBVIOUS
  <2> HIDE DEF g
  <2> QED BY <1>2, <2>1, <2>2
<1>7. walks = Body(walks)
  BY <1>6
<1> HIDE DEF walks, g
<1>8. walks[0] = {<<s>>} /\ \A k \in 1 .. n : walks[k] = UNION {Extensions(q, k) : q \in walks[k - 1]}
  <2>1. walks = [k \in 0 .. n |-> IF k = 0 THEN {<<s>>}
                                  ELSE UNION {Extensions(q, k) : q \in walks[k - 1]}]
    BY <1>2, <1>7
  <2>2. 0 \in 0 .. n /\ \A k \in 1 .. n : k \in 0 .. n /\ k # 0
    OBVIOUS
  <2> QED BY <2>1, <2>2
<1>9. X = {}
  <2> SUFFICES ASSUME X # {} PROVE FALSE
    OBVIOUS
  <2>1. X \in SUBSET Nat
    OBVIOUS
  <2>2. PICK k \in X : \A l \in X : k <= l
    <3> HIDE DEF X
    <3> QED BY <2>1, LeastNat
  <2>3. k \in 1 .. n
    <3>1. k \in 0 .. n /\ walks[k] # g[k] /\ walks[0] = g[0]
      BY <1>4, <1>8
    <3>2. k # 0
      BY <3>1
    <3> QED BY <3>1, <3>2
  <2>4. k - 1 \notin X
    BY <2>2, <2>3
  <2>5. walks[k - 1] = g[k - 1]
    BY <1>3, <2>3, <2>4
  <2> QED BY <1>3, <1>8, <2>2, <2>3, <2>5
<1>10. \A k \in 0 .. n : walks[k] = Way(s, k)
  BY <1>9 DEF g
<1>11. \A k \in 0 .. n : \A q \in Way(s, k) : Len(q) = k + 1
  BY WayIsSeq
<1> HIDE DEF X
<1> QED BY <1>1, <1>10, <1>11

-----------------------------------------------------------------------------
(* What the searches find. *)

LEMMA PassableForward ==
  ASSUME NEW from, NEW to, NEW a \in Wallet, NEW b \in Wallet
  PROVE  <<a, b>> \in Passable(from, to, TRUE) <=>
           <<a, b>> \in DOMAIN edges /\ InWindow(edges[<<a, b>>], from, to)
<1>1. <<a, b>> \in Passable(from, to, TRUE) <=> b \in Passes(a, from, to, TRUE)
  BY DEF Passable
<1>2. b \in Passes(a, from, to, TRUE) <=>
        <<a, b>> \in DOMAIN edges /\ InWindow(EdgeData(a, b), from, to)
  BY DEF Passes, Neighbors, Successors
<1>3. <<a, b>> \in DOMAIN edges => EdgeData(a, b) = edges[<<a, b>>]
  BY DEF EdgeData
<1> QED BY <1>1, <1>2, <1>3

LEMMA ForwardReaches == GraphInv => ForwardIsReach
<1> SUFFICES ASSUME GraphInv, NEW s \in nodes, NEW t \in nodes, NEW depth \in 0 .. MaxDepth,
                    NEW from \in Time \cup {NoTime}, NEW to \in Time \cup {NoTime}
             PROVE  t \in TimeWindowBfs(s, depth, from, to, TRUE) <=>
                      \E p \in SimplePaths(s, t, depth) :
                        \A k \in 1 .. Len(p) - 1 : InWindow(edges[<<p[k], p[k + 1]>>], from, to)
  BY DEF ForwardIsReach
<1> DEFINE R == Passable(from, to, TRUE)
<1>1. s \in Wallet /\ t \in Wallet /\ depth \in Nat
  BY DEF GraphInv, TypeOK
<1>2. TimeWindowBfs(s, depth, from, to, TRUE) = Reached(R, s, depth)
  <2>1. \A directed : TimeWindowBfs(s, depth, from, to, directed)
                        = Reached(Passable(from, to, directed), s, depth)
    BY <1>1, SearchFindsReached
  <2> QED BY <2>1, Zenon
<1>3. \A a, b \in Wallet :
        <<a, b>> \in R <=> <<a, b>> \in DOMAIN edges /\ InWindow(edges[<<a, b>>], from, to)
  BY PassableForward
<1> HIDE DEF R
<1>4. ASSUME t \in Reached(R, s, depth)
      PROVE  \E p \in SimplePaths(s, t, depth) :
               \A k \in 1 .. Len(p) - 1 : InWindow(edges[<<p[k], p[k + 1]>>], from, to)
  <2>1. PICK j \in 0 .. depth : \E p \in Trek(R, s, j) : p[j + 1] = t /\ IsSimple(p, j)
    BY <1>1, <1>4, ShortestIsSimple
  <2>2. PICK p \in Trek(R, s, j) : p[j + 1] = t /\ IsSimple(p, j)
    BY <2>1
  <2>3. /\ p \in [1 .. j + 1 -> Wallet] /\ p[1] = s
        /\ \A i \in 1 .. j : <<p[i], p[i + 1]>> \in R
    BY DEF Trek
  <2>4. \A i \in 1 .. j : i \in 1 .. j + 1 /\ i + 1 \in 1 .. j + 1
    OBVIOUS
  <2>5. \A i \in 1 .. j : /\ <<p[i], p[i + 1]>> \in DOMAIN edges
                          /\ InWindow(edges[<<p[i], p[i + 1]>>], from, to)
    BY <1>3, <2>3, <2>4
  <2>6. p \in Way(s, j)
    BY <2>2, <2>3, <2>5 DEF Way, Trek
  <2>7. p \in SimplePaths(s, t, depth)
    BY <1>1, <2>2, <2>6, SimplePathsAre
  <2>8. Len(p) - 1 = j
    BY <2>6, WayIsSeq
  <2> QED BY <2>5, <2>7, <2>8
<1>5. ASSUME NEW p \in SimplePaths(s, t, depth),
             \A k \in 1 .. Len(p) - 1 : InWindow(edges[<<p[k], p[k + 1]>>], from, to)
      PROVE  t \in Reached(R, s, depth)
  <2>1. PICK j \in 0 .. depth : p \in Way(s, j) /\ p[j + 1] = t
    BY <1>1, SimplePathsAre
  <2>2. /\ p \in [1 .. j + 1 -> Wallet] /\ p[1] = s
        /\ \A i \in 1 .. j : <<p[i], p[i + 1]>> \in DOMAIN edges
    BY <2>1 DEF Way, Trek
  <2>3. Len(p) - 1 = j
    BY <2>1, WayIsSeq
  <2>4. \A i \in 1 .. j : p[i] \in Wallet /\ p[i + 1] \in Wallet
    BY <2>2
  <2>5. \A i \in 1 .. j : <<p[i], p[i + 1]>> \in R
    BY <1>3, <1>5, <2>2, <2>3, <2>4
  <2>6. p \in Trek(R, s, j)
    BY <2>2, <2>5 DEF Trek
  <2> QED BY <1>1, <2>1, <2>6 DEF Reached
<1> QED BY <1>2, <1>4, <1>5

LEMMA PassableIsLinked ==
  ASSUME GraphInv, NEW from, NEW to, NEW a \in Wallet, NEW b \in Wallet
  PROVE  /\ <<a, b>> \in Passable(from, to, FALSE) => Linked(a, b, from, to)
         /\ (\A e \in DOMAIN edges : Between(e[1], e[2]) = {e}) /\ Linked(a, b, from, to)
              => <<a, b>> \in Passable(from, to, FALSE)
<1>1. <<a, b>> \in Passable(from, to, FALSE) <=> b \in Passes(a, from, to, FALSE)
  BY DEF Passable
<1>2. b \in Passes(a, from, to, FALSE) <=>
        /\ <<a, b>> \in DOMAIN edges \/ <<b, a>> \in DOMAIN edges
        /\ InWindow(EdgeData(a, b), from, to)
  BY DEF Passes, Neighbors, Either
<1>3. ASSUME <<a, b>> \in DOMAIN edges \/ <<b, a>> \in DOMAIN edges,
             InWindow(EdgeData(a, b), from, to)
      PROVE  Linked(a, b, from, to)
  <2>1. \E e \in Between(a, b) : edges[e] = EdgeData(a, b)
    BY <1>3 DEF Between, EdgeData
  <2> QED BY <1>3, <2>1 DEF Linked
<1>4. ASSUME \A e \in DOMAIN edges : Between(e[1], e[2]) = {e}, Linked(a, b, from, to)
      PROVE  /\ <<a, b>> \in DOMAIN edges \/ <<b, a>> \in DOMAIN edges
             /\ InWindow(EdgeData(a, b), from, to)
  <2>1. PICK e \in Between(a, b) : InWindow(edges[e], from, to)
    BY <1>4 DEF Linked
  <2>2. e \in DOMAIN edges /\ (e = <<a, b>> \/ e = <<b, a>>)
    BY DEF Between
  <2>3. EdgeData(a, b) = edges[e]
    <3>1. CASE <<a, b>> \in DOMAIN edges
      <4>1. Between(a, b) = {<<a, b>>}
        BY <1>4, <3>1
      <4>2. e = <<a, b>>
        BY <4>1
      <4> QED BY <3>1, <4>2 DEF EdgeData
    <3>2. CASE <<a, b>> \notin DOMAIN edges
      BY <2>2, <3>2 DEF EdgeData
    <3> QED BY <3>1, <3>2
  <2> QED BY <2>1, <2>2, <2>3
<1> QED BY <1>1, <1>2, <1>3, <1>4

LEMMA BothWaysReaches == GraphInv => BothWaysIsReach
<1> SUFFICES ASSUME GraphInv, NEW s \in nodes, NEW t \in nodes, NEW depth \in 0 .. MaxDepth,
                    NEW from \in Time \cup {NoTime}, NEW to \in Time \cup {NoTime}
             PROVE  LET found == t \in NeighborsWithin(s, depth, from, to, FALSE)
                        chained == \E k \in 0 .. depth : \E p \in [1 .. k + 1 -> nodes] :
                                     /\ p[1] = s /\ p[k + 1] = t
                                     /\ \A i \in 1 .. k : Linked(p[i], p[i + 1], from, to)
                        oneWay == \A e \in DOMAIN edges : Between(e[1], e[2]) = {e}
                    IN  /\ found => chained
                        /\ oneWay /\ {from, to} # {NoTime} => (chained => found)
  BY DEF BothWaysIsReach
<1> DEFINE unbounded == from = NoTime /\ to = NoTime
           R == IF unbounded THEN Passable(NoTime, NoTime, TRUE) ELSE Passable(from, to, FALSE)
           oneWay == \A e \in DOMAIN edges : Between(e[1], e[2]) = {e}
<1>1. s \in Wallet /\ t \in Wallet /\ depth \in Nat /\ nodes \subseteq Wallet
  BY DEF GraphInv, TypeOK
<1>2. NeighborsWithin(s, depth, from, to, FALSE) = Reached(R, s, depth)
  <2>1. \A since, upto, directed : TimeWindowBfs(s, depth, since, upto, directed)
                                     = Reached(Passable(since, upto, directed), s, depth)
    BY <1>1, SearchFindsReached
  <2>3. TimeWindowBfs(s, depth, from, to, FALSE) = Reached(Passable(from, to, FALSE), s, depth)
    BY <2>1, Zenon
  <2>2. Bfs(s, depth) = Reached(Passable(NoTime, NoTime, TRUE), s, depth)
    <3>1. \A directed : (\A n : Passes(n, NoTime, NoTime, directed) = Successors(n)) =>
            Bfs(s, depth) = Reached(Passable(NoTime, NoTime, directed), s, depth)
      BY <1>1, FastFindsReached
    <3>2. \A n : Passes(n, NoTime, NoTime, TRUE) = Successors(n)
      BY DEF Passes, Neighbors, InWindow
    <3> QED BY <3>1, <3>2, Zenon
  <2>4. NeighborsWithin(s, depth, from, to, FALSE)
          = IF unbounded THEN Bfs(s, depth) ELSE TimeWindowBfs(s, depth, from, to, FALSE)
    BY DEF NeighborsWithin
  <2> QED BY <2>2, <2>3, <2>4
<1>3. \A a, b \in Wallet :
        /\ <<a, b>> \in R => Linked(a, b, from, to)
        /\ oneWay /\ ~unbounded /\ Linked(a, b, from, to) => <<a, b>> \in R
  <2> SUFFICES ASSUME NEW a \in Wallet, NEW b \in Wallet
               PROVE  /\ <<a, b>> \in R => Linked(a, b, from, to)
                      /\ oneWay /\ ~unbounded /\ Linked(a, b, from, to) => <<a, b>> \in R
    OBVIOUS
  <2>1. CASE unbounded
    <3>1. <<a, b>> \in Passable(NoTime, NoTime, TRUE) =>
            <<a, b>> \in DOMAIN edges /\ InWindow(edges[<<a, b>>], NoTime, NoTime)
      BY PassableForward
    <3>2. R = Passable(NoTime, NoTime, TRUE)
      BY <2>1
    <3> QED BY <2>1, <3>1, <3>2 DEF Linked, Between
  <2>2. CASE ~unbounded
    <3>1. R = Passable(from, to, FALSE)
      BY <2>2
    <3> QED BY <3>1, PassableIsLinked
  <2> QED BY <2>1, <2>2
<1>4. \A a, b \in Wallet : Linked(a, b, from, to) => a \in nodes /\ b \in nodes
  BY DEF Linked, Between, GraphInv, TypeOK
<1> HIDE DEF R
<1>5. ASSUME t \in Reached(R, s, depth)
      PROVE  \E k \in 0 .. depth : \E p \in [1 .. k + 1 -> nodes] :
               /\ p[1] = s /\ p[k + 1] = t
               /\ \A i \in 1 .. k : Linked(p[i], p[i + 1], from, to)
  <2>1. PICK k \in 0 .. depth : \E p \in Trek(R, s, k) : p[k + 1] = t
    BY <1>5 DEF Reached
  <2>2. PICK p \in Trek(R, s, k) : p[k + 1] = t
    BY <2>1
  <2>3. /\ p \in [1 .. k + 1 -> Wallet] /\ p[1] = s
        /\ \A i \in 1 .. k : <<p[i], p[i + 1]>> \in R
    BY DEF Trek
  <2>4. \A i \in 1 .. k : p[i] \in Wallet /\ p[i + 1] \in Wallet
    BY <2>3
  <2>5. \A i \in 1 .. k : Linked(p[i], p[i + 1], from, to)
    BY <1>3, <2>3, <2>4
  <2>6. ASSUME NEW i \in 1 .. k + 1 PROVE p[i] \in nodes
    <3>1. CASE i = 1
      BY <2>3, <3>1
    <3>2. CASE i # 1
      <4>1. i - 1 \in 1 .. k /\ i - 1 + 1 = i
        BY <3>2
      <4>2. p[i - 1 + 1] \in nodes
        BY <1>4, <2>4, <2>5, <4>1
      <4> QED BY <4>1, <4>2
    <3> QED BY <3>1, <3>2
  <2>7. p \in [1 .. k + 1 -> nodes]
    BY <2>3, <2>6
  <2> QED BY <2>2, <2>3, <2>5, <2>7
<1>6. ASSUME oneWay, ~unbounded,
             NEW k \in 0 .. depth, NEW p \in [1 .. k + 1 -> nodes], p[1] = s, p[k + 1] = t,
             \A i \in 1 .. k : Linked(p[i], p[i + 1], from, to)
      PROVE  t \in Reached(R, s, depth)
  <2>1. p \in [1 .. k + 1 -> Wallet]
    BY <1>1
  <2>2. \A i \in 1 .. k : p[i] \in Wallet /\ p[i + 1] \in Wallet
    BY <2>1
  <2>3. \A i \in 1 .. k : <<p[i], p[i + 1]>> \in R
    BY <1>3, <1>6, <2>2
  <2>4. p \in Trek(R, s, k)
    BY <1>6, <2>1, <2>3 DEF Trek
  <2> QED BY <1>1, <1>6, <2>4 DEF Reached
<1>7. {from, to} # {NoTime} => ~unbounded
  OBVIOUS
<1> HIDE DEF unbounded
<1> QED BY <1>2, <1>5, <1>6, <1>7

\* A search inside a window finds the wallets that a chain of at most depth
\* transfers inside the window leads to, and no others, whatever the graph, the
\* window and the depth; when direction is ignored, none but these, and all in a
\* graph in which no two wallets have transfers both ways (time_window_bfs,
\* neighbors_within).
THEOREM WindowBfsIsReachability == Spec => []WindowBfsIsReach
<1>1. GraphInv => WindowBfsIsReach
  BY ForwardReaches, BothWaysReaches DEF WindowBfsIsReach
<1> QED BY <1>1, GraphInvHolds, PTL

-----------------------------------------------------------------------------
(* The cheapest path in order of time. *)

\* A simple path has an edge less than wallets at most, so that the search for
\* paths up to a Cutoff that is no less finds them all.
LEMMA WaysAreShort ==
  ASSUME GraphInv, NEW s \in nodes, NEW k \in Nat, NEW p \in Way(s, k)
  PROVE  k <= Cardinality(nodes) - 1 /\ Cardinality(nodes) \in Nat
<1>1. /\ p \in [1 .. k + 1 -> Wallet] /\ p[1] = s
      /\ \A i \in 1 .. k : <<p[i], p[i + 1]>> \in DOMAIN edges
      /\ \A i, j \in 1 .. k + 1 : p[i] = p[j] => i = j
  BY DEF Way, Trek, IsSimple
<1>2. ASSUME NEW i \in 1 .. k + 1 PROVE p[i] \in nodes
  <2>1. CASE i = 1
    BY <1>1, <2>1
  <2>2. CASE i # 1
    <3>1. i - 1 \in 1 .. k /\ i - 1 + 1 = i
      BY <2>2
    <3>2. <<p[i - 1], p[i - 1 + 1]>> \in nodes \X nodes
      BY <1>1, <3>1 DEF GraphInv, TypeOK
    <3> QED BY <3>1, <3>2
  <2> QED BY <2>1, <2>2
<1>3. p \in [1 .. k + 1 -> nodes]
  BY <1>1, <1>2
<1>4. IsFiniteSet(nodes) /\ Cardinality(nodes) \in Nat
  BY FS_CardinalityType DEF GraphInv
<1>5. IsFiniteSet(1 .. k + 1) /\ Cardinality(1 .. k + 1) = k + 1
  <2>1. 1 \in Int /\ k + 1 \in Int /\ ~(1 > k + 1) /\ k + 1 - 1 + 1 = k + 1
    OBVIOUS
  <2> QED BY <2>1, FS_Interval
<1>6. ~(Cardinality(nodes) < k + 1)
  <2> SUFFICES ASSUME Cardinality(nodes) < k + 1 PROVE FALSE
    OBVIOUS
  <2>1. \E i, j \in 1 .. k + 1 : i # j /\ p[i] = p[j]
    BY <1>3, <1>4, <1>5, FS_PigeonHole
  <2> QED BY <1>1, <2>1
<1> QED BY <1>4, <1>6

\* Costs are naturals, so that some path is cheapest.
LEMMA CostIsNat ==
  ASSUME GraphInv, NEW s \in Wallet, NEW n \in Nat, NEW p \in Way(s, n)
  PROVE  Cost(p) \in Nat
<1> DEFINE w == [k \in 1 .. n |-> edges[<<p[k], p[k + 1]>>].weight]
           Body(f) == [k \in 0 .. n |-> IF k = 0 THEN 0
                                        ELSE f[k - 1] + edges[<<p[k], p[k + 1]>>].weight]
           upto == CHOOSE f : f = Body(f)
           g == [k \in Nat |-> [c \in Nat |-> IF k + 1 \in 1 .. n THEN c + w[k + 1] ELSE c]]
           X == {k \in 0 .. n : upto[k] \notin Nat}
<1>1. Len(p) - 1 = n
  BY WayIsSeq
<1>2. Cost(p) = upto[n]
  BY <1>1 DEF Cost
<1>3. \A k \in 1 .. n : <<p[k], p[k + 1]>> \in DOMAIN edges
  BY DEF Way, Trek
<1>4. \A e \in DOMAIN edges : edges[e].weight \in Nat
  BY GraphConstantsOK DEF GraphInv, TypeOK, Data
<1>5. w \in [1 .. n -> Nat]
  BY <1>3, <1>4
<1>6. \A f : Body(f) = [k \in 0 .. n |-> IF k = 0 THEN 0 ELSE f[k - 1] + w[k]]
  <2>1. \A k \in 0 .. n : k = 0 \/ w[k] = edges[<<p[k], p[k + 1]>>].weight
    OBVIOUS
  <2> HIDE DEF w
  <2> QED BY <2>1
<1> HIDE DEF w
<1>7. g \in [Nat -> [Nat -> Nat]]
  BY <1>5
<1>8. PICK h : Takes(h, Nat, 0, g)
  <2> HIDE DEF g
  <2> QED BY <1>7, RecursionExists
<1>9. /\ h \in [Nat -> Nat] /\ h[0] = 0
      /\ \A k \in 1 .. n : h[k] = h[k - 1] + w[k]
  <2>1. h \in [Nat -> Nat] /\ h[0] = 0 /\ \A k \in Nat : h[k + 1] = g[k][h[k]]
    BY <1>8 DEF Takes
  <2>2. ASSUME NEW k \in 1 .. n PROVE h[k] = h[k - 1] + w[k]
    <3>1. k - 1 \in Nat /\ k - 1 + 1 = k
      OBVIOUS
    <3>2. h[k - 1 + 1] = g[k - 1][h[k - 1]]
      <4> HIDE DEF g
      <4> QED BY <2>1, <3>1
    <3>3. g[k - 1][h[k - 1]] = h[k - 1] + w[k]
      <4>1. h[k - 1] \in Nat
        BY <2>1, <3>1
      <4> QED BY <3>1, <4>1
    <3> QED BY <3>1, <3>2, <3>3
  <2> QED BY <2>1, <2>2
<1> HIDE DEF Body, g
<1> DEFINE r == [k \in 0 .. n |-> h[k]]
<1>10. r = Body(r)
  <2>1. \A k \in 0 .. n : r[k] = IF k = 0 THEN 0 ELSE r[k - 1] + w[k]
    <3> SUFFICES ASSUME NEW k \in 0 .. n PROVE r[k] = IF k = 0 THEN 0 ELSE r[k - 1] + w[k]
      OBVIOUS
    <3>1. CASE k = 0
      BY <1>9, <3>1
    <3>2. CASE k # 0
      <4>1. k \in 1 .. n /\ k - 1 \in 0 .. n
        BY <3>2
      <4>2. r[k] = h[k] /\ r[k - 1] = h[k - 1]
        BY <4>1
      <4> QED BY <1>9, <3>2, <4>1, <4>2
    <3> QED BY <3>1, <3>2
  <2> HIDE DEF r
  <2>2. r = [k \in 0 .. n |-> r[k]]
    BY DEF r
  <2> QED BY <1>6, <2>1, <2>2
<1>11. upto = Body(upto)
  <2> HIDE DEF r
  <2> QED BY <1>10
<1> HIDE DEF upto, r
<1>12. upto[0] = 0 /\ \A k \in 1 .. n : upto[k] = upto[k - 1] + w[k]
  <2>1. upto = [k \in 0 .. n |-> IF k = 0 THEN 0 ELSE upto[k - 1] + w[k]]
    BY <1>6, <1>11
  <2>2. 0 \in 0 .. n /\ \A k \in 1 .. n : k \in 0 .. n /\ k # 0
    OBVIOUS
  <2> QED BY <2>1, <2>2
<1>13. X = {}
  <2> SUFFICES ASSUME X # {} PROVE FALSE
    OBVIOUS
  <2>1. X \in SUBSET Nat
    OBVIOUS
  <2>2. PICK k \in X : \A l \in X : k <= l
    <3> HIDE DEF X
    <3> QED BY <2>1, LeastNat
  <2>3. k \in 1 .. n
    <3>1. k \in 0 .. n /\ upto[k] \notin Nat
      OBVIOUS
    <3>2. k # 0
      BY <1>12, <3>1
    <3> QED BY <3>1, <3>2
  <2>4. k - 1 \notin X /\ k - 1 \in 0 .. n
    BY <2>2, <2>3
  <2>5. upto[k - 1] \in Nat /\ w[k] \in Nat
    BY <1>5, <2>3, <2>4
  <2>6. upto[k] \in Nat
    BY <1>12, <2>3, <2>5
  <2> QED BY <2>6
<1>14. n \in 0 .. n
  OBVIOUS
<1> QED BY <1>2, <1>13, <1>14

\* Stamps that never go down from one to the next never go down at all.
LEMMA OrderedThroughout ==
  ASSUME NEW S \in SUBSET Nat, NEW c \in [S -> Nat],
         \A i, j \in S : i < j /\ (\A k \in S : k <= i \/ j <= k) => c[i] <= c[j]
  PROVE  \A i, j \in S : i < j => c[i] <= c[j]
<1> DEFINE X == {d \in Nat : \E i, j \in S : i < j /\ j - i = d /\ ~(c[i] <= c[j])}
<1> SUFFICES ASSUME X # {} PROVE FALSE
  <2> SUFFICES ASSUME NEW i \in S, NEW j \in S, i < j, ~(c[i] <= c[j]) PROVE X # {}
    OBVIOUS
  <2>1. j - i \in Nat
    OBVIOUS
  <2>2. j - i \in X
    BY <2>1
  <2> QED BY <2>2
<1>1. PICK d \in X : \A e \in X : d <= e
  <2>1. X \in SUBSET Nat
    OBVIOUS
  <2> HIDE DEF X
  <2> QED BY <2>1, LeastNat
<1>2. PICK i \in S, j \in S : i < j /\ j - i = d /\ ~(c[i] <= c[j])
  OBVIOUS
<1>3. PICK k \in S : i < k /\ k < j
  <2>1. \E k \in S : ~(k <= i \/ j <= k)
    BY <1>2
  <2> QED BY <2>1
<1>4. k - i \in Nat /\ j - k \in Nat /\ ~(d <= k - i) /\ ~(d <= j - k)
  BY <1>2, <1>3
<1>5. k - i \notin X /\ j - k \notin X
  <2> HIDE DEF X
  <2> QED BY <1>1, <1>4
<1>6. c[i] <= c[k] /\ c[k] <= c[j]
  BY <1>3, <1>4, <1>5
<1>7. c[i] \in Nat /\ c[j] \in Nat /\ c[k] \in Nat
  OBVIOUS
<1> QED BY <1>2, <1>6, <1>7

\* Comparing each timestamp with the next one there is compares them all.
LEMMA NonDecreasingIsOrder ==
  ASSUME GraphInv, NEW s \in Wallet, NEW n \in Nat, NEW p \in Way(s, n)
  PROVE  NonDecreasing(p) <=>
           \A i, j \in 1 .. Len(p) - 1 :
             i < j /\ NoTime \notin {Stamp(p, i), Stamp(p, j)} => Stamp(p, i) <= Stamp(p, j)
<1> DEFINE S == Stamped(p)
           c == [k \in S |-> Stamp(p, k)]
<1>1. S = {k \in 1 .. n : Stamp(p, k) # NoTime} /\ Len(p) - 1 = n
  BY WayIsSeq DEF Stamped
<1>2. c \in [S -> Nat]
  <2> SUFFICES ASSUME NEW k \in S PROVE Stamp(p, k) \in Nat
    OBVIOUS
  <2>1. k \in 1 .. n /\ Stamp(p, k) # NoTime
    BY <1>1
  <2>2. <<p[k], p[k + 1]>> \in DOMAIN edges
    BY <2>1 DEF Way, Trek
  <2> DEFINE e == <<p[k], p[k + 1]>>
  <2>3. edges[e] \in Data /\ edges[e].time # NoTime
    BY <2>1, <2>2 DEF Stamp, GraphInv, TypeOK
  <2>4. edges[e].time \in Nat
    BY <2>3, GraphConstantsOK DEF Data
  <2> QED BY <2>4 DEF Stamp
<1>3. \A k \in S : c[k] = Stamp(p, k)
  OBVIOUS
<1>4. S \in SUBSET Nat
  BY <1>1
<1>5. ASSUME NonDecreasing(p)
      PROVE  \A i, j \in S : i < j => Stamp(p, i) <= Stamp(p, j)
  <2>1. \A i, j \in S : i < j /\ (\A k \in S : k <= i \/ j <= k) => Stamp(p, i) <= Stamp(p, j)
    BY <1>5 DEF NonDecreasing
  <2> HIDE DEF S, c
  <2>2. \A i, j \in S : i < j /\ (\A k \in S : k <= i \/ j <= k) => c[i] <= c[j]
    BY <1>3, <2>1
  <2>3. \A i, j \in S : i < j => c[i] <= c[j]
    BY <1>2, <1>4, <2>2, OrderedThroughout
  <2> QED BY <1>3, <2>3
<1>6. (\A i, j \in S : i < j => Stamp(p, i) <= Stamp(p, j)) => NonDecreasing(p)
  BY DEF NonDecreasing
<1>7. (\A i, j \in S : i < j => Stamp(p, i) <= Stamp(p, j)) <=>
        \A i, j \in 1 .. n :
          i < j /\ NoTime \notin {Stamp(p, i), Stamp(p, j)} => Stamp(p, i) <= Stamp(p, j)
  <2> HIDE DEF S
  <2>1. \A k : k \in S <=> k \in 1 .. n /\ Stamp(p, k) # NoTime
    BY <1>1
  <2> QED BY <2>1
<1> HIDE DEF S
<1> QED BY <1>1, <1>5, <1>6, <1>7

\* Of some paths of natural cost, one is cheapest.
LEMMA CheapestExists ==
  ASSUME NEW P, P # {}, \A p \in P : Cost(p) \in Nat
  PROVE  Cheapest(P) # {}
<1> DEFINE X == {Cost(p) : p \in P}
<1>1. PICK c \in X : \A d \in X : c <= d
  <2>1. X \in SUBSET Nat /\ X # {}
    OBVIOUS
  <2> HIDE DEF X
  <2> QED BY <2>1, LeastNat
<1>2. PICK p \in P : Cost(p) = c
  OBVIOUS
<1>3. \A q \in P : Cost(q) \in X
  OBVIOUS
<1>4. \A q \in P : Cost(p) <= Cost(q)
  <2> HIDE DEF X
  <2> QED BY <1>1, <1>2, <1>3
<1> QED BY <1>2, <1>4 DEF Cheapest

LEMMA TemporalFindsCheapest == GraphInv => TemporalIsCheapest
<1> DEFINE Ordered(p) == \A i, j \in 1 .. Len(p) - 1 :
                           i < j /\ NoTime \notin {Stamp(p, i), Stamp(p, j)} =>
                             Stamp(p, i) <= Stamp(p, j)
           Best(s, t, answer) ==
             LET ordered == {p \in Connections(s, t) : Ordered(p)}
                 near == {p \in ordered : Len(p) - 1 <= Cutoff}
             IN  IF answer = None THEN near = {}
                 ELSE /\ answer \in ordered
                      /\ \A p \in near : Cost(answer) <= Cost(p)
                      /\ Len(answer) - 1 > Cutoff => answer \in Cheapest(Connections(s, t))
<1> SUFFICES ASSUME GraphInv, NEW s \in nodes, NEW t \in nodes,
                    NEW answer \in TemporalShortestPath(s, t)
             PROVE  Best(s, t, answer)
  BY DEF TemporalIsCheapest
<1> HIDE DEF Ordered
<1> DEFINE P == Connections(s, t)
           O == {p \in P : Ordered(p)}
           near == {p \in O : Len(p) - 1 <= Cutoff}
           valid == Cheapest({p \in SimplePaths(s, t, Cutoff) : NonDecreasing(p)})
<1>1. s \in Wallet /\ Cutoff \in Nat
  BY GraphConstantsOK DEF GraphInv, TypeOK
<1>2. Cardinality(nodes) - 1 \in Nat
  <2>1. IsFiniteSet(nodes) /\ Cardinality(nodes) \in Nat
    BY FS_CardinalityType DEF GraphInv
  <2>2. Cardinality(nodes) # 0
    BY <2>1, FS_EmptySet
  <2> QED BY <2>1, <2>2
<1>3. \A p : p \in P <=> \E k \in 0 .. Cardinality(nodes) - 1 : p \in Way(s, k) /\ p[k + 1] = t
  BY <1>1, <1>2, SimplePathsAre DEF Connections
<1>4. \A p : p \in SimplePaths(s, t, Cutoff) <=>
               \E k \in 0 .. Cutoff : p \in Way(s, k) /\ p[k + 1] = t
  BY <1>1, SimplePathsAre
<1>5. \A k \in Nat : \A p \in Way(s, k) : k <= Cardinality(nodes) - 1 /\ Len(p) - 1 = k
  <2> SUFFICES ASSUME NEW k \in Nat, NEW p \in Way(s, k)
               PROVE  k <= Cardinality(nodes) - 1 /\ Len(p) - 1 = k
    OBVIOUS
  <2>1. k <= Cardinality(nodes) - 1
    BY WaysAreShort
  <2>2. Len(p) = k + 1
    BY WayIsSeq
  <2> QED BY <2>1, <2>2
<1> HIDE DEF P
<1>6. \A p : p \in SimplePaths(s, t, Cutoff) <=> p \in P /\ Len(p) - 1 <= Cutoff
  <2> SUFFICES ASSUME NEW p
               PROVE  p \in SimplePaths(s, t, Cutoff) <=> p \in P /\ Len(p) - 1 <= Cutoff
    OBVIOUS
  <2>1. ASSUME p \in SimplePaths(s, t, Cutoff) PROVE p \in P /\ Len(p) - 1 <= Cutoff
    <3>1. PICK k \in 0 .. Cutoff : p \in Way(s, k) /\ p[k + 1] = t
      BY <1>4, <2>1
    <3>2. k \in Nat /\ k <= Cutoff
      BY <1>1
    <3>3. k <= Cardinality(nodes) - 1 /\ Len(p) - 1 = k
      BY <1>5, <3>1, <3>2
    <3>4. k \in 0 .. Cardinality(nodes) - 1
      BY <1>2, <3>2, <3>3
    <3> QED BY <1>3, <3>1, <3>2, <3>3, <3>4
  <2>2. ASSUME p \in P, Len(p) - 1 <= Cutoff PROVE p \in SimplePaths(s, t, Cutoff)
    <3>1. PICK k \in 0 .. Cardinality(nodes) - 1 : p \in Way(s, k) /\ p[k + 1] = t
      BY <1>3, <2>2
    <3>2. k \in Nat
      BY <1>2
    <3>3. k \in 0 .. Cutoff
      BY <1>1, <1>5, <2>2, <3>1, <3>2
    <3> QED BY <1>4, <3>1, <3>3
  <2> QED BY <2>1, <2>2
<1>7. \A p \in P : Cost(p) \in Nat /\ p # None /\ (NonDecreasing(p) <=> Ordered(p))
  <2> SUFFICES ASSUME NEW p \in P
               PROVE  Cost(p) \in Nat /\ p # None /\ (NonDecreasing(p) <=> Ordered(p))
    OBVIOUS
  <2>1. PICK k \in 0 .. Cardinality(nodes) - 1 : p \in Way(s, k)
    BY <1>3
  <2>2. k \in Nat
    BY <1>2
  <2>3. Cost(p) \in Nat
    BY <1>1, <2>1, <2>2, CostIsNat
  <2>4. p # None
    <3>1. p \in Seq(Wallet)
      BY <2>1, <2>2, WayIsSeq
    <3> QED BY <3>1, GraphConstantsOK
  <2>5. NonDecreasing(p) <=> Ordered(p)
    BY <1>1, <2>1, <2>2, NonDecreasingIsOrder DEF Ordered
  <2> QED BY <2>3, <2>4, <2>5
<1>8. valid = Cheapest(near)
  <2>1. {p \in SimplePaths(s, t, Cutoff) : NonDecreasing(p)} = near
    BY <1>6, <1>7
  <2> QED BY <2>1
<1>9. near # {} => Cheapest(near) # {}
  <2>1. \A p \in near : Cost(p) \in Nat
    BY <1>7
  <2> HIDE DEF near
  <2> QED BY <2>1, CheapestExists
<1>10. \A p \in near : p \in P /\ Ordered(p) /\ Len(p) - 1 <= Cutoff /\ p # None
  BY <1>7
<1> DEFINE Answer(p) == IF p = None THEN {None}
                        ELSE IF NonDecreasing(p) THEN {p}
                        ELSE IF valid = {} THEN {None} ELSE valid
           Claim == IF answer = None THEN near = {}
                    ELSE /\ answer \in O
                         /\ \A p \in near : Cost(answer) <= Cost(p)
                         /\ Len(answer) - 1 > Cutoff => answer \in Cheapest(P)
<1> SUFFICES Claim
  BY DEF P
<1>11. PICK first \in WeightedShortestPath(s, t) : answer \in Answer(first)
  BY DEF TemporalShortestPath
<1>12. WeightedShortestPath(s, t) = IF Cheapest(P) # {} THEN Cheapest(P) ELSE {None}
  BY DEF WeightedShortestPath, P
<1> HIDE DEF valid
<1>13. CASE first = None
  <2>1. answer = None
    BY <1>11, <1>13
  <2>2. Cheapest(P) = {}
    BY <1>7, <1>12, <1>13 DEF Cheapest
  <2>3. P = {}
    BY <1>7, <2>2, CheapestExists
  <2>4. near = {}
    BY <1>10, <2>3
  <2> HIDE DEF near
  <2> QED BY <2>1, <2>4
<1>14. CASE first # None
  <2>1. first \in Cheapest(P) /\ first \in P
    BY <1>12, <1>14 DEF Cheapest
  <2>2. CASE Ordered(first)
    <3>1. answer = first
      BY <1>7, <1>11, <1>14, <2>1, <2>2
    <3>2. \A p \in near : Cost(answer) <= Cost(p)
      BY <1>10, <2>1, <3>1 DEF Cheapest
    <3>3. first \in O
      BY <2>1, <2>2
    <3> HIDE DEF O, near
    <3> QED BY <1>14, <2>1, <3>1, <3>2, <3>3
  <2>3. CASE ~Ordered(first)
    <3>1. answer \in IF valid = {} THEN {None} ELSE valid
      BY <1>7, <1>11, <1>14, <2>1, <2>3
    <3>2. CASE near = {}
      <4>1. valid = {}
        BY <1>8, <3>2 DEF Cheapest
      <4> HIDE DEF near
      <4> QED BY <3>1, <3>2, <4>1
    <3>3. CASE near # {}
      <4>1. answer \in Cheapest(near)
        BY <1>8, <1>9, <3>1, <3>3
      <4>2. answer \in near /\ \A p \in near : Cost(answer) <= Cost(p)
        BY <4>1 DEF Cheapest
      <4>3. Len(answer) - 1 <= Cutoff /\ answer # None /\ answer \in O
        BY <1>10, <4>2
      <4>4. ~(Len(answer) - 1 > Cutoff)
        <5>1. answer \in P
          BY <4>3
        <5>2. PICK k \in 0 .. Cardinality(nodes) - 1 : answer \in Way(s, k)
          BY <1>3, <5>1
        <5>3. k \in Nat /\ Len(answer) - 1 = k
          BY <1>2, <1>5, <5>2
        <5> QED BY <1>1, <4>3, <5>3
      <4> HIDE DEF O, near
      <4> QED BY <4>2, <4>3, <4>4
    <3> QED BY <3>2, <3>3
  <2> QED BY <2>2, <2>3
<1> HIDE DEF Claim
<1> QED BY <1>13, <1>14

\* Whatever cheapest path Dijkstra picks and whatever the cutoff, on every graph: the
\* temporal search answers with a path in order of time, near or far, that no such
\* path within the cutoff undercuts, and with None only if there is none within it.
THEOREM TemporalSearchIsCheapest == Spec => []TemporalIsCheapest
BY GraphInvHolds, TemporalFindsCheapest, PTL

================================================================================
