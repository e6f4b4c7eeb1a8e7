-------------------------------- MODULE Graph --------------------------------
(***************************************************************************)
(* The in-process transaction graph (graph/store.py) and the searches over *)
(* it (graph/algorithms.py).  The writes of the store are actions; its     *)
(* queries are operators on the current graph.  networkx is modelled by    *)
(* what the code relies on: add_edge creates missing endpoints and merges  *)
(* into an edge that is there, dijkstra_path returns some cheapest path.   *)
(***************************************************************************)
EXTENDS Integers, Sequences, FiniteSets, SequencesExt

CONSTANTS
    Wallet,         \* node ids
    Weight, Time,   \* edge weights, edge timestamps
    NoTime,         \* an edge without a timestamp, an open end of a window
    None,           \* no path
    Links,          \* the pairs of wallets that edges are added between
    Cutoff,         \* cutoff=5 of all_simple_paths
    MaxEdges,       \* bounds of the model: edges,
    MaxDepth        \* and the depth of a search

ASSUME GraphConstantsOK ==
    /\ Links \subseteq Wallet \X Wallet
    /\ Weight \subseteq Nat /\ Time \subseteq Nat
    /\ NoTime \notin Time /\ None \notin Seq(Wallet)
    /\ {Cutoff, MaxEdges, MaxDepth} \subseteq Nat

VARIABLES
    nodes,          \* the ids of the nodes in the graph
    edges           \* <<source, target>> -> data, for the edges in the graph

vars == <<nodes, edges>>

Data == [weight : Weight, time : Time \cup {NoTime}]

-----------------------------------------------------------------------------
(* Writes. *)

Init == nodes = {} /\ edges = <<>>

AddNode(id) == nodes' = nodes \cup {id} /\ UNCHANGED edges

\* Mutant: the endpoints are not added with the edge.
WithEndpointsNot(u, v) == nodes

WithEndpoints(u, v) == nodes \cup {u, v}

\* An edge that is there takes the new weight; a timestamp is replaced by a new
\* one but not removed.
Merged(e, weight, time) ==
    [weight |-> weight,
     time   |-> IF time = NoTime /\ e \in DOMAIN edges THEN edges[e].time ELSE time]

AddEdge(u, v, weight, time) ==
    /\ Cardinality(DOMAIN edges \cup {<<u, v>>}) <= MaxEdges
    /\ nodes' = WithEndpoints(u, v)
    /\ edges' = [e \in DOMAIN edges \cup {<<u, v>>} |->
                   IF e = <<u, v>> THEN Merged(e, weight, time) ELSE edges[e]]

Clear == nodes' = {} /\ edges' = <<>>

Next ==
    \/ \E id \in Wallet : AddNode(id)
    \/ \E link \in Links, weight \in Weight, time \in Time \cup {NoTime} :
         AddEdge(link[1], link[2], weight, time)
    \/ Clear

Spec == Init /\ [][Next]_vars

-----------------------------------------------------------------------------
(* Reads. *)

Successors(n) == {v \in Wallet : <<n, v>> \in DOMAIN edges}

Either(n) == {v \in Wallet : <<n, v>> \in DOMAIN edges \/ <<v, n>> \in DOMAIN edges}

\* get_edge_data(node, nbr) or get_edge_data(nbr, node)
EdgeData(n, v) == IF <<n, v>> \in DOMAIN edges THEN edges[<<n, v>>] ELSE edges[<<v, n>>]

InWindow(data, from, to) ==
    \/ data.time = NoTime
    \/ (from = NoTime \/ from <= data.time) /\ (to = NoTime \/ data.time <= to)

Neighbors(n, directed) == IF directed THEN Successors(n) ELSE Either(n)

\* The neighbors that a search passes on to.
Passes(n, from, to, directed) ==
    {v \in Neighbors(n, directed) : InWindow(EdgeData(n, v), from, to)}

\* The state of a search: the queue, with the depth of every node, and the nodes
\* that have been in it.
Queued(n, depth) == [node |-> n, depth |-> depth]

\* Mutant: a node counts as visited before its edge is held to the window.
TurnMarksAll(x, i, depth, from, to, directed) ==
    LET here == x.frontier[i]
        new == SetToSeq(Passes(here.node, from, to, directed) \ x.visited)
    IN  IF i > Len(x.frontier) \/ here.depth >= depth THEN x
        ELSE [frontier |-> x.frontier \o [k \in DOMAIN new |-> Queued(new[k], here.depth + 1)],
              visited  |-> x.visited \cup Neighbors(here.node, directed)]

\* The turn of time_window_bfs that looks at the i-th node of the queue, if there
\* is one: its neighbors inside the window join the queue, unless they have been
\* in it, in the order networkx lists them (some order).
Turn(x, i, depth, from, to, directed) ==
    LET here == x.frontier[i]
        new == SetToSeq(Passes(here.node, from, to, directed) \ x.visited)
    IN  IF i > Len(x.frontier) \/ here.depth >= depth THEN x
        ELSE [frontier |-> x.frontier \o [k \in DOMAIN new |-> Queued(new[k], here.depth + 1)],
              visited  |-> x.visited \cup Range(new)]

\* time_window_bfs: no node is queued twice, so that there are no more turns than
\* nodes.  Its answer lists the visited nodes.
TimeWindowBfs(source, depth, from, to, directed) ==
    LET search[i \in 0 .. Cardinality(nodes)] ==
          IF i = 0 THEN [frontier |-> <<Queued(source, 0)>>, visited |-> {source}]
          ELSE Turn(search[i - 1], i, depth, from, to, directed)
    IN  IF source \in nodes THEN search[Cardinality(nodes)].visited ELSE {}

\* bfs: single_source_shortest_path_length on a directed graph.
Bfs(source, depth) ==
    LET level[k \in 0 .. depth] ==
          IF k = 0 THEN {source} ELSE level[k - 1] \cup UNION {Successors(n) : n \in level[k - 1]}
    IN  IF source \in nodes THEN level[depth] ELSE {}

\* neighbors_within, with its fast path.
NeighborsWithin(source, hops, from, to, directed) ==
    IF from = NoTime /\ to = NoTime /\ ~directed THEN Bfs(source, hops)
    ELSE TimeWindowBfs(source, hops, from, to, directed)

-----------------------------------------------------------------------------
(* Paths. *)

\* all_simple_paths(graph, source, target) of at most n edges.
SimplePaths(source, target, n) ==
    LET walks[k \in 0 .. n] ==    \* from source, k edges long
          IF k = 0 THEN {<<source>>}
          ELSE UNION {{Append(p, v) : v \in Successors(p[k]) \ {p[i] : i \in 1 .. k}} :
                        p \in walks[k - 1]}
    IN  {p \in UNION {walks[k] : k \in 0 .. n} : p[Len(p)] = target}

Cost(p) ==
    LET upto[k \in 0 .. Len(p) - 1] ==
          IF k = 0 THEN 0 ELSE upto[k - 1] + edges[<<p[k], p[k + 1]>>].weight
    IN  upto[Len(p) - 1]

\* The timestamp of the k-th edge of p.
Stamp(p, k) == edges[<<p[k], p[k + 1]>>].time

Stamped(p) == {k \in 1 .. Len(p) - 1 : Stamp(p, k) # NoTime}

\* Mutant: only transfers next to each other on the path are compared.
NonDecreasingNext(p) ==
    \A k \in Stamped(p) : k + 1 \in Stamped(p) => Stamp(p, k) <= Stamp(p, k + 1)

\* times[i] < times[i - 1] for no i: each timestamp is compared with the next one
\* that there is along p.
NonDecreasing(p) ==
    \A i, j \in Stamped(p) :
      i < j /\ (\A k \in Stamped(p) : k <= i \/ j <= k) => Stamp(p, i) <= Stamp(p, j)

Cheapest(P) == {p \in P : \A q \in P : Cost(p) <= Cost(q)}

Connections(source, target) == SimplePaths(source, target, Cardinality(nodes) - 1)

\* weighted_shortest_path: what dijkstra_path may return.
WeightedShortestPath(source, target) ==
    LET best == Cheapest(Connections(source, target))
    IN  IF {source, target} \subseteq nodes /\ best # {} THEN best ELSE {None}

\* temporal_shortest_path: Dijkstra's path when it is in order, else the
\* cheapest of the simple paths that are, up to Cutoff edges.
TemporalShortestPath(source, target) ==
    LET valid == Cheapest({p \in SimplePaths(source, target, Cutoff) : NonDecreasing(p)})
    IN  UNION {IF p = None THEN {None}
               ELSE IF NonDecreasing(p) THEN {p}
               ELSE IF valid = {} THEN {None} ELSE valid :
                 p \in WeightedShortestPath(source, target)}

-----------------------------------------------------------------------------
(* Properties. *)

\* Type invariant of the graph: no edge dangles.
TypeOK ==
    /\ nodes \subseteq Wallet
    /\ DOMAIN edges \subseteq nodes \X nodes
    /\ \A e \in DOMAIN edges : edges[e] \in Data

\* time_window_bfs finds exactly the wallets that a chain of at most depth
\* transfers, each inside the window, leads to.
ForwardIsReach ==
    \A s, t \in nodes, depth \in 0 .. MaxDepth, from, to \in Time \cup {NoTime} :
      t \in TimeWindowBfs(s, depth, from, to, TRUE) <=>
        \E p \in SimplePaths(s, t, depth) :
          \A k \in 1 .. Len(p) - 1 : InWindow(edges[<<p[k], p[k + 1]>>], from, to)

\* The edges between n and v, either way, and whether one is inside the window.
Between(n, v) == {<<n, v>>, <<v, n>>} \cap DOMAIN edges

Linked(n, v, from, to) == \E e \in Between(n, v) : InWindow(edges[e], from, to)

\* neighbors_within finds only wallets that such a chain leads to when transfers
\* may be followed both ways, though it looks at one transfer of a pair only; and
\* all of them where no pair of wallets has transfers both ways, unless the window
\* is open at both ends (the fast path follows transfers forward).
BothWaysIsReach ==
    \A s, t \in nodes, depth \in 0 .. MaxDepth, from, to \in Time \cup {NoTime} :
      LET found == t \in NeighborsWithin(s, depth, from, to, FALSE)
          chained == \E k \in 0 .. depth : \E p \in [1 .. k + 1 -> nodes] :
                       /\ p[1] = s /\ p[k + 1] = t
                       /\ \A i \in 1 .. k : Linked(p[i], p[i + 1], from, to)
          oneWay == \A e \in DOMAIN edges : Between(e[1], e[2]) = {e}
      IN  /\ found => chained
          /\ oneWay /\ {from, to} # {NoTime} => (chained => found)

\* A search inside a window is reachability, forward (time_window_bfs) and both
\* ways (neighbors_within).
WindowBfsIsReach == ForwardIsReach /\ BothWaysIsReach

\* Whatever cheapest path Dijkstra picks first: the answer of the temporal search
\* is a path of which no transfer is older than one before it, near or far, and no
\* such path of up to Cutoff transfers undercuts it; an answer longer than that is a
\* cheapest path of all.  None means that no such path is that short: one that
\* takes more transfers is not looked for.
TemporalIsCheapest ==
    \A s, t \in nodes :
      LET ordered == {p \in Connections(s, t) :
                        \A i, j \in 1 .. Len(p) - 1 :
                          i < j /\ NoTime \notin {Stamp(p, i), Stamp(p, j)} =>
                            Stamp(p, i) <= Stamp(p, j)}
          near == {p \in ordered : Len(p) - 1 <= Cutoff}
      IN  \A answer \in TemporalShortestPath(s, t) :
            IF answer = None THEN near = {}
            ELSE /\ answer \in ordered
                 /\ \A p \in near : Cost(answer) <= Cost(p)
                 /\ Len(answer) - 1 > Cutoff => answer \in Cheapest(Connections(s, t))

=============================================================================
