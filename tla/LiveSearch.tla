------------------------------ MODULE LiveSearch ------------------------------
(***************************************************************************)
(* POST /attribution/run over the provider that the registry holds for the *)
(* chain, when it is a live one: the search of run_discovery with one      *)
(* get_transactions call per wallet, while the chain goes on.  Of a call   *)
(* nothing is assumed but what History promises, and of the rows it        *)
(* returns what Rows makes of them.                                        *)
(*                                                                         *)
(* A live provider has no tags, and no dataset to count degrees in, so     *)
(* that every wallet met is an intermediary; its rows name no bridge.  The *)
(* search of a demo provider is the module Discovery.                      *)
(***************************************************************************)
EXTENDS Providers, Rows

CONSTANTS
    Suspect,        \* the address the search starts from
    LiveLedger,     \* the rows of a chain in the order it got them
    LiveTime,       \* the timestamps of its first, second, ... row: rows of one
                    \* block share one, the next block may have an earlier one
    Unknown,        \* a chain that no provider serves
    MaxHops, MaxCandidates, TxLimit

ASSUME LiveConstantsOK ==
    /\ Suspect \in Party /\ Nobody \notin Party /\ Sats \subseteq Nat /\ Many \in Nat
    /\ MaxHops \in Nat \ {0} /\ {MaxCandidates, TxLimit} \subseteq Nat \ {0}
    /\ DOMAIN LiveLedger \subseteq Chains /\ Unknown \notin Chains
    /\ \A chain \in DOMAIN LiveLedger : LiveLedger[chain] \in Seq(Row)
    /\ LiveTime \in Seq(Nat \ {0})
    /\ \A chain \in DOMAIN LiveLedger : Len(LiveLedger[chain]) <= Len(LiveTime)

VARIABLES
    pc,             \* "idle", "pop", "await" a provider, "done"
    source,         \* the chain of the request
    listed,         \* the chain has rows 1 .. listed
    began, since,   \* listed when the search began, and when the pending call did
    frontier,       \* FIFO of nodes to expand
    visited,        \* addresses already seen, all on the source chain
    deadEnds,       \* the candidates
    node,           \* the node being expanded
    partial,        \* history: an answer was full, or cut by an odd reply
    outcome         \* "none", "answered" (200), "ProviderError" (502),
                    \* "AttributeError" (500), "unknown" (400), or "offline": a
                    \* demo provider's

heard == <<visited, frontier, deadEnds, partial>>
lookedUp == <<settings, dataset, registry, call, result, page>>
vars == <<lookedUp, sent, pc, source, listed, began, since, heard, node, outcome>>

Searching == pc \in {"pop", "await"}

Start == [addr |-> Suspect, hops |-> 0, path |-> <<Suspect>>, edges |-> <<>>]

Init ==
    /\ StartUp
    /\ pc = "idle" /\ source = NoChain /\ outcome = "none"
    /\ listed = 0 /\ began = 0 /\ since = 0
    /\ frontier = <<>> /\ visited = {} /\ deadEnds = <<>>
    /\ node = Start /\ partial = FALSE

\* A request that searches nothing takes the place of the last search.
Enter(place, chain, response) ==
    /\ pc' = place /\ source' = chain /\ outcome' = response
    /\ listed' = 0 /\ began' = 0 /\ since' = 0
    /\ frontier' = <<>> /\ visited' = {} /\ deadEnds' = <<>>
    /\ node' = Start /\ partial' = FALSE

LedgerOf(chain) == IF chain \in DOMAIN LiveLedger THEN LiveLedger[chain] ELSE <<>>

Ledger == LedgerOf(source)

\* Blocks are added while the search runs.
Grow ==
    /\ Searching /\ listed < Len(Ledger)
    /\ listed' = listed + 1
    /\ UNCHANGED <<lookedUp, sent, pc, source, began, since, heard, node, outcome>>

-----------------------------------------------------------------------------
(* The request. *)

\* The endpoint looks the chain up before it runs anything.
Request(chain) ==
    /\ registry # <<>> /\ call = NoCall /\ ~Searching
    /\ result' = "none" /\ sent' = FALSE /\ page' = NoPage
    /\ UNCHANGED <<settings, dataset, registry, call>>
    /\ IF chain \notin DOMAIN registry THEN Enter("done", chain, "unknown")
       ELSE IF registry[chain] = "demo" THEN Enter("done", chain, "offline")
       ELSE /\ pc' = "pop" /\ source' = chain /\ outcome' = "none"
            /\ frontier' = <<Start>> /\ visited' = {Suspect} /\ deadEnds' = <<>>
            /\ node' = Start /\ partial' = FALSE
            /\ listed' \in 0 .. Len(LedgerOf(chain))
            /\ began' = listed' /\ since' = listed'

Finish ==
    /\ pc = "pop"
    /\ frontier = <<>> \/ Len(deadEnds) >= MaxCandidates
    /\ pc' = "done" /\ outcome' = "answered"
    /\ UNCHANGED <<lookedUp, sent, source, listed, began, since, heard, node>>

\* Mutant: the node is read but not removed.
Peek ==
    /\ pc = "pop"
    /\ frontier # <<>> /\ Len(deadEnds) < MaxCandidates
    /\ node' = Head(frontier)
    /\ pc' = "await" /\ since' = listed
    /\ UNCHANGED <<lookedUp, sent, source, listed, began, heard, outcome>>

\* The next node is taken and its transactions are asked for.
Pop ==
    /\ pc = "pop"
    /\ frontier # <<>> /\ Len(deadEnds) < MaxCandidates
    /\ node' = Head(frontier) /\ frontier' = Tail(frontier)
    /\ pc' = "await" /\ since' = listed
    /\ UNCHANGED <<lookedUp, sent, source, listed, began, visited, deadEnds, partial, outcome>>

\* Nothing in the search catches an error: the candidates found are lost with it.
Lose(error) ==
    /\ pc' = "done" /\ outcome' = error
    /\ UNCHANGED <<lookedUp, source, listed, began, since, heard, node>>

Reachable == registry[source] = "live" /\ Ready(source)

Refused == pc = "await" /\ ~Reachable /\ Lose("ProviderError") /\ UNCHANGED sent

\* The call fails, or a reply of another shape makes it fail in .get.
Fails ==
    /\ pc = "await" /\ Reachable /\ sent' = TRUE
    /\ \E error \in {"ProviderError", "AttributeError"} : Lose(error)

-----------------------------------------------------------------------------
(* The answer of get_transactions, and the loop over it, which awaits nothing. *)

\* The rows of each chain that an address takes part in.
Touched ==
    [chain \in Chains |-> [a \in Party |->
       {i \in DOMAIN LedgerOf(chain) :
          a \in Payers(LedgerOf(chain)[i]) \cup Payees(LedgerOf(chain)[i])}]]

Touching(a) == Touched[source][a]

Promise == INSTANCE History WITH
             Time    <- LiveTime,
             limit   <- TxLimit,
             wanted  <- Touching(node.addr),
             owed    <- Touching(node.addr) \cap 1 .. since,
             oldest  <- source # "bitcoin",
             listed  <- 1 .. listed,
             outcome <- "open",
             answer  <- <<>>

Tx(i) == ToCanonical(Ledger[i], node.addr)

\* Mutant: transactions without a recipient are not outgoing.
IsOutgoingPaid(i) == Leaves(Tx(i), node.addr) /\ Tx(i).to # Nobody

IsOutgoing(i) == Leaves(Tx(i), node.addr)

Idle(s) == \A k \in DOMAIN s : ~IsOutgoing(s[k])

\* Mutant: the trail of transactions restarts at every hop.
ExtendLosesEdges(i) ==
    [addr |-> Tx(i).to, hops |-> node.hops + 1,
     path |-> Append(node.path, Tx(i).to), edges |-> <<i>>]

Extend(i) ==
    [addr |-> Tx(i).to, hops |-> node.hops + 1,
     path |-> Append(node.path, Tx(i).to), edges |-> Append(node.edges, i)]

Fresh(i, seen) == Tx(i).to # Nobody /\ Tx(i).to \notin seen

\* Mutant: the queue is used as a stack.
EnqueueFirst(n, queue) == IF n.hops < MaxHops THEN <<n>> \o queue ELSE queue

Enqueue(n, queue) == IF n.hops < MaxHops THEN Append(queue, n) ELSE queue

\* One turn of "for tx in outgoing".
Follow(i, walk) ==
    IF ~(IsOutgoing(i) /\ Fresh(i, walk.seen)) THEN walk
    ELSE [seen |-> walk.seen \cup {Tx(i).to}, queue |-> Enqueue(Extend(i), walk.queue)]

Followed(s) ==
    LET upTo[k \in 0 .. Len(s)] ==
          IF k = 0 THEN [seen |-> visited, queue |-> frontier] ELSE Follow(s[k], upTo[k - 1])
    IN  upTo[Len(s)]

Expand(s) ==
    IF Idle(s) /\ node.hops > 0
    THEN deadEnds' = Append(deadEnds, node) /\ UNCHANGED <<visited, frontier>>
    ELSE /\ visited' = Followed(s).seen /\ frontier' = Followed(s).queue
         /\ UNCHANGED deadEnds

Hears(s) ==
    /\ Reachable /\ sent' = TRUE
    /\ Promise!Sound(s)
    /\ Expand(s)
    /\ pc' = "pop"
    /\ UNCHANGED <<lookedUp, source, listed, began, since, node, outcome>>

Answers == SeqOf(Touching(node.addr) \cap 1 .. listed, TxLimit)

HearsAll ==
    pc = "await" /\ \E s \in Answers :
      Hears(s) /\ Promise!Complete(s) /\ partial' = (partial \/ Len(s) = TxLimit)

\* A reply of an unexpected shape has ended the reading early.
HearsSome == pc = "await" /\ \E s \in Answers : Hears(s) /\ partial' = TRUE

-----------------------------------------------------------------------------
Calling == ~Searching /\ ProviderCall /\ Enter("idle", NoChain, "none")

Serving == ~Searching /\ Serve /\ Enter("idle", NoChain, "none")

Step == Pop \/ Refused \/ Fails \/ HearsAll \/ HearsSome \/ Finish

Next ==
    \/ Calling
    \/ \E chain \in Chains \cup {Unknown} : Request(chain)
    \/ Step
    \/ Grow

\* Every upstream request is answered or times out (10 s), and the event loop
\* resumes what has been awaited.
Spec == Init /\ [][Next]_vars /\ WF_vars(Serving) /\ WF_vars(Step)

-----------------------------------------------------------------------------
(* Properties. *)

Walks == ToSet(frontier) \cup ToSet(deadEnds) \cup {node}

\* Type invariant; nothing outside the hop budget is asked about.
TypeOK ==
    /\ ProvidersTyped
    /\ pc \in {"idle", "pop", "await", "done"} /\ source \in Chains \cup {NoChain, Unknown}
    /\ began <= since /\ since <= listed /\ listed <= Len(Ledger)
    /\ visited \subseteq Party
    /\ \A n \in Walks : n.addr \in Party /\ n.hops < MaxHops /\ ToSet(n.edges) \subseteq 1 .. listed
    /\ partial \in BOOLEAN
    /\ outcome \in {"none", "answered", "ProviderError", "AttributeError", "unknown", "offline"}

\* Every hop of a walk is a row of the chain in which the wallet before it paid
\* and the wallet after it was paid, though each row was converted for the one
\* address that was asked about.
TrailsArePaid ==
    \A n \in Walks :
      /\ Len(n.path) = n.hops + 1 /\ Len(n.edges) = n.hops
      /\ n.path[1] = Suspect /\ n.path[n.hops + 1] = n.addr
      /\ \A k \in 1 .. n.hops :
           /\ n.path[k] \in Payers(Ledger[n.edges[k]])
           /\ n.path[k + 1] \in Payees(Ledger[n.edges[k]])

\* What a query about a shows of the first rows of the chain.
Shown(a, first) == {ToCanonical(Ledger[i], a) : i \in Touching(a) \cap 1 .. first}

Sends(a, first) == \E tx \in Shown(a, first) : Leaves(tx, a)

\* What the wallets in some set lead to.
Onward(wallets, first) ==
    UNION {{tx.to : tx \in {tx \in Shown(a, first) : IsHop(tx, a)}} : a \in wallets}

\* What a walk of at most k hops over the first rows of the chain reaches.
Within(first) ==
    LET within[k \in Nat] ==
          IF k = 0 THEN {Suspect} ELSE within[k - 1] \cup Onward(within[k - 1], first)
    IN  within

\* A search that was answered in full, and not stopped by max_candidates, has seen
\* every wallet within reach when it began, and reports those that have sent
\* nothing even now, at no more than the distance they had then: rows that come in
\* while it runs, in any place of the walk, hide nothing.
NothingMissed ==
    outcome = "answered" /\ ~partial /\ Len(deadEnds) < MaxCandidates =>
      /\ Within(began)[MaxHops] \subseteq visited
      /\ \A k \in 1 .. MaxHops - 1 : \A a \in Within(began)[k] \ {Suspect} :
           Sends(a, listed) \/ \E d \in ToSet(deadEnds) : d.addr = a /\ d.hops <= k

\* A wallet that is reported as a dead end had sent nothing when the search began,
\* contract creations included, unless an answer was cut.
DeadEndsWereIdle == ~partial => \A d \in ToSet(deadEnds) : ~Sends(d.addr, began)

\* Whatever is asked of a provider ends: heights and health checks, and a search
\* over however many calls, with an answer or an error.
RequestsEnd == (call # NoCall ~> call = NoCall) /\ (Searching ~> pc = "done")

================================================================================
