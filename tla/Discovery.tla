------------------------------ MODULE Discovery ------------------------------
(***************************************************************************)
(* Stage A of the attribution pipeline: the forward breadth-first search   *)
(* for candidate wallets (attribution/discovery.py), with the dataset it   *)
(* reads through DemoBlockchainProvider.get_transactions and the address   *)
(* tags of the provider.                                                   *)
(*                                                                         *)
(* run_discovery is one coroutine.  Its loops are cut into one action per  *)
(* popped node and one per transaction, so that the order in which the     *)
(* search visits wallets, and what it remembers, are explicit.             *)
(***************************************************************************)
EXTENDS Integers, Sequences, FiniteSets, Functions

CONSTANTS
    Addr,           \* addresses of the dataset
    NoAddr,         \* to_address = None (a contract creation)
    Chain,          \* chains that appear in the dataset
    NoChain,        \* raw["bridge_target_chain"] absent
    Registered,     \* chains the ProviderRegistry can serve
    Suspect,        \* the address the search starts from
    SourceChain,    \* the chain of the request
    Role,           \* Role[a]: the tag _classify finds for a
    Labelled,       \* the addresses whose dataset entry has a label
    Ledgers,        \* the datasets the search may be run against
    MaxHops, MaxCandidates, HubThreshold,
    TxLimit         \* get_transactions(limit = 100)

Tags == {"vasp", "mixer", "bridge", "intermediary"}

\* A transaction.  Its position in the ledger is its hash and its place in the
\* order of block timestamps, where those without one come first; age counts the
\* days since it.
NoAge == -1     \* block_timestamp = None

Tx == [from : Addr, to : Addr \cup {NoAddr}, chain : Chain,
       target : Chain \cup {NoChain}, amount : Nat, age : Nat \cup {NoAge}]

ASSUME ConstantsOK ==
    /\ Suspect \in Addr /\ NoAddr \notin Addr /\ NoChain \notin Chain
    /\ SourceChain \in Registered /\ Registered \subseteq Chain
    /\ Role \in [Addr -> Tags] /\ Labelled \subseteq Addr
    /\ Ledgers \subseteq Seq(Tx)
    /\ {MaxHops, MaxCandidates, HubThreshold, TxLimit} \subseteq Nat

VARIABLES
    ledger,         \* the dataset, in timestamp order
    pc,             \* which loop the coroutine is in
    frontier,       \* FIFO of nodes to expand
    visited,        \* (address, chain) pairs already seen
    candidates,     \* terminals found, in the order found
    node,           \* the node being expanded
    outgoing,       \* its outgoing transactions not yet looked at
    crossing,       \* the bridge node being followed
    downstream      \* its transactions on the target chain not yet looked at

vars == <<ledger, pc, frontier, visited, candidates, node, outgoing,
          crossing, downstream>>

\* A wallet on the walk: edges[i] is the transaction from path[i] to path[i+1].
Node == [addr : Addr, chain : Chain, hops : Nat,
         path : Seq(Addr), edges : Seq(Nat)]

Candidate == [addr : Addr, chain : Chain, hops : Nat,
              path : Seq(Addr), edges : Seq(Nat),
              role : {"vasp", "mixer", "hub", "dead_end"}, bridged : BOOLEAN,
              label : BOOLEAN]      \* terminal_label is not None

Start == [addr |-> Suspect, chain |-> SourceChain, hops |-> 0,
          path |-> <<Suspect>>, edges |-> <<>>]

-----------------------------------------------------------------------------
(* What the provider answers. *)

\* The transactions that touch a on chain c.  A self-transfer is indexed once
\* per end and takes two of the TxLimit places.
Touching(a, c) ==
    {i \in DOMAIN ledger : ledger[i].chain = c /\ a \in {ledger[i].from, ledger[i].to}}

Place(i, T) ==
    LET before == {j \in T : j < i}
    IN  1 + Cardinality(before)
          + Cardinality({j \in before : ledger[j].from = ledger[j].to})

Transactions(a, c) ==
    LET T == Touching(a, c) IN {i \in T : Place(i, T) <= TxLimit}

Outgoing(a, c) == {i \in Transactions(a, c) : ledger[i].from = a}

\* DegreeLookup.degree: distinct transactions of the whole dataset.
Degree(a) == Cardinality({i \in DOMAIN ledger : a \in {ledger[i].from, ledger[i].to}})

IsHub(a) == Degree(a) > HubThreshold

\* Mutant: the mixer list is not consulted.
ClassifyNoMixer(a) == IF Role[a] = "mixer" THEN "intermediary" ELSE Role[a]

\* The router of the tag dict.
Classify(a) == Role[a]

IsTerminal(a) == Classify(a) \in {"mixer", "vasp"}

IsWallet(a) == Classify(a) = "intermediary" /\ ~IsHub(a)

-----------------------------------------------------------------------------
(* Building nodes and candidates. *)

\* Mutant: the raw field is used even when it is absent.
TargetChainRaw(i, current) == ledger[i].target

TargetChain(i, current) ==
    IF ledger[i].target = NoChain THEN current ELSE ledger[i].target

\* Mutant: the trail of transactions restarts at every hop.
ExtendLosesEdges(n, i, c) ==
    [addr |-> ledger[i].to, chain |-> c, hops |-> n.hops + 1,
     path |-> Append(n.path, ledger[i].to), edges |-> <<i>>]

Extend(n, i, c) ==
    [addr |-> ledger[i].to, chain |-> c, hops |-> n.hops + 1,
     path |-> Append(n.path, ledger[i].to), edges |-> Append(n.edges, i)]

\* Mutant: a dead end is labelled like any other terminal.
AsCandidateLabelled(n, role, bridged) ==
    [addr |-> n.addr, chain |-> n.chain, hops |-> n.hops, path |-> n.path,
     edges |-> n.edges, role |-> role, bridged |-> bridged,
     label |-> n.addr \in Labelled]

\* _candidate_for_dead_end sets no terminal_label.
AsCandidate(n, role, bridged) ==
    [addr |-> n.addr, chain |-> n.chain, hops |-> n.hops, path |-> n.path,
     edges |-> n.edges, role |-> role, bridged |-> bridged,
     label |-> role # "dead_end" /\ n.addr \in Labelled]

Report(n, role, bridged) ==
    candidates' = Append(candidates, AsCandidate(n, role, bridged))

\* Mutant: the budget is off by one.
EnqueueOneMore(n) ==
    frontier' = IF n.hops <= MaxHops THEN Append(frontier, n) ELSE frontier

\* Mutant: the queue is used as a stack.
EnqueueAtHead(n) ==
    frontier' = IF n.hops < MaxHops THEN <<n>> \o frontier ELSE frontier

\* A node is queued while the hop budget lasts, and forgotten after.
Enqueue(n) ==
    frontier' = IF n.hops < MaxHops THEN Append(frontier, n) ELSE frontier

IsFirst(i, S) == i \in S /\ \A j \in S : i <= j

-----------------------------------------------------------------------------
Init ==
    /\ ledger \in Ledgers
    /\ IF MaxHops < 1 THEN pc = "done" /\ frontier = <<>>
                      ELSE pc = "pop" /\ frontier = <<Start>>
    /\ visited = {<<Suspect, SourceChain>>}
    /\ candidates = <<>>
    /\ node = Start
    /\ outgoing = {}
    /\ crossing = Start
    /\ downstream = {}

\* while frontier and len(candidates) < max_candidates
Finish ==
    /\ pc = "pop"
    /\ frontier = <<>> \/ Len(candidates) >= MaxCandidates
    /\ pc' = "done"
    /\ UNCHANGED <<ledger, frontier, visited, candidates, node, outgoing,
                   crossing, downstream>>

\* Mutant: the node is read but not removed.
Peek ==
    /\ pc = "pop"
    /\ frontier # <<>> /\ Len(candidates) < MaxCandidates
    /\ node' = Head(frontier)
    /\ UNCHANGED <<frontier, ledger, visited, crossing, downstream>>

Pop ==
    /\ pc = "pop"
    /\ frontier # <<>> /\ Len(candidates) < MaxCandidates
    /\ frontier' = Tail(frontier)
    /\ node' = Head(frontier)
    /\ UNCHANGED <<ledger, visited, crossing, downstream>>

\* The provider asked is the source chain's, whatever chain the node is on.
Fetched == Outgoing(Head(frontier).addr, SourceChain)

\* A node with nothing outgoing is a dead end, recorded on the source chain.
DeadEnd ==
    /\ Pop
    /\ Fetched = {} /\ Head(frontier).hops > 0
    /\ Report([Head(frontier) EXCEPT !.chain = SourceChain], "dead_end", FALSE)
    /\ UNCHANGED <<pc, outgoing>>

Expand ==
    /\ Pop
    /\ Fetched # {} \/ Head(frontier).hops = 0
    /\ outgoing' = Fetched
    /\ pc' = "scan"
    /\ UNCHANGED candidates

EndScan ==
    /\ pc = "scan" /\ outgoing = {}
    /\ pc' = "pop"
    /\ UNCHANGED <<ledger, frontier, visited, candidates, node, outgoing,
                   crossing, downstream>>

\* The next transaction of the scan, the key it leads to, and whether the loop
\* body goes past its two early continues.
Key(i) == <<ledger[i].to, TargetChain(i, node.chain)>>

\* Mutant: the visited set is not consulted.
FreshAlways(key) == key[1] # NoAddr

Fresh(key) == key[1] # NoAddr /\ key \notin visited

Skip(i) ==
    /\ ~Fresh(Key(i))
    /\ UNCHANGED <<pc, frontier, visited, candidates, crossing, downstream>>

\* A mixer or an exchange ends the walk.
MeetTerminal(i) ==
    /\ Fresh(Key(i))
    /\ IsTerminal(ledger[i].to)
    /\ visited' = visited \cup {Key(i)}
    /\ Report(Extend(node, i, Key(i)[2]), Classify(ledger[i].to), FALSE)
    /\ UNCHANGED <<pc, frontier, crossing, downstream>>

\* A bridge is followed at once on the target chain, when a provider serves it.
MeetBridge(i) ==
    /\ Fresh(Key(i))
    /\ Classify(ledger[i].to) = "bridge"
    /\ visited' = visited \cup {Key(i)}
    /\ IF Key(i)[2] \in Registered
         THEN /\ crossing' = Extend(node, i, Key(i)[2])
              /\ downstream' = Outgoing(ledger[i].to, Key(i)[2])
              /\ pc' = "cross"
         ELSE UNCHANGED <<crossing, downstream, pc>>
    /\ UNCHANGED <<frontier, candidates>>

MeetHub(i) ==
    /\ Fresh(Key(i))
    /\ Classify(ledger[i].to) = "intermediary" /\ IsHub(ledger[i].to)
    /\ visited' = visited \cup {Key(i)}
    /\ Report(Extend(node, i, Key(i)[2]), "hub", FALSE)
    /\ UNCHANGED <<pc, frontier, crossing, downstream>>

MeetIntermediary(i) ==
    /\ Fresh(Key(i))
    /\ IsWallet(ledger[i].to)
    /\ visited' = visited \cup {Key(i)}
    /\ Enqueue(Extend(node, i, Key(i)[2]))
    /\ UNCHANGED <<pc, candidates, crossing, downstream>>

\* One turn of "for tx in outgoing".
Scan(i) ==
    /\ pc = "scan" /\ IsFirst(i, outgoing)
    /\ outgoing' = outgoing \ {i}
    /\ UNCHANGED <<ledger, node>>
    /\ \/ Skip(i)
       \/ MeetTerminal(i)
       \/ MeetBridge(i)
       \/ MeetHub(i)
       \/ MeetIntermediary(i)

EndCross ==
    /\ pc = "cross" /\ downstream = {}
    /\ pc' = "scan"
    /\ UNCHANGED <<ledger, frontier, visited, candidates, node, outgoing,
                   crossing, downstream>>

FarKey(i) == <<ledger[i].to, crossing.chain>>

SkipFar(i) ==
    /\ ~Fresh(FarKey(i))
    /\ UNCHANGED <<frontier, visited, candidates>>

\* A terminal right behind the bridge: its hop count is not held to MaxHops.
MeetFarTerminal(i) ==
    /\ Fresh(FarKey(i))
    /\ IsTerminal(ledger[i].to)
    /\ visited' = visited \cup {FarKey(i)}
    /\ Report(Extend(crossing, i, crossing.chain), Classify(ledger[i].to), TRUE)
    /\ UNCHANGED frontier

\* Anything else behind the bridge, a hub or another bridge included, is queued.
MeetFarWallet(i) ==
    /\ Fresh(FarKey(i))
    /\ ~IsTerminal(ledger[i].to)
    /\ visited' = visited \cup {FarKey(i)}
    /\ Enqueue(Extend(crossing, i, crossing.chain))
    /\ UNCHANGED candidates

\* One turn of "for dtx in downstream_outgoing".
Cross(i) ==
    /\ pc = "cross" /\ IsFirst(i, downstream)
    /\ downstream' = downstream \ {i}
    /\ UNCHANGED <<ledger, pc, node, outgoing, crossing>>
    /\ \/ SkipFar(i)
       \/ MeetFarTerminal(i)
       \/ MeetFarWallet(i)

\* The coroutine has returned.
Returned == pc = "done" /\ UNCHANGED vars

Next ==
    \/ Finish
    \/ DeadEnd
    \/ Expand
    \/ EndScan
    \/ \E i \in DOMAIN ledger : Scan(i)
    \/ EndCross
    \/ \E i \in DOMAIN ledger : Cross(i)
    \/ Returned

Spec == Init /\ [][Next]_vars

\* The event loop resumes the coroutine after every await, so a step that can
\* be taken is taken.
FairSpec == Spec /\ WF_vars(Next)

-----------------------------------------------------------------------------
(* Properties. *)

Nodes == Range(frontier) \cup {node, crossing}

\* Every wallet the search holds: queued, being expanded, or reported.
Walks == Nodes \cup Range(candidates)

\* Type invariant of the search.
TypeOK ==
    /\ ledger \in Seq(Tx)
    /\ pc \in {"pop", "scan", "cross", "done"}
    /\ frontier \in Seq(Node)
    /\ visited \subseteq Addr \X Chain
    /\ candidates \in Seq(Candidate)
    /\ node \in Node /\ crossing \in Node
    /\ outgoing \subseteq DOMAIN ledger
    /\ downstream \subseteq DOMAIN ledger

\* n is a walk from the suspect to n.addr, one transaction of the dataset per
\* hop, in which each transfer leaves the wallet the previous one reached.
IsTrail(n) ==
    /\ Len(n.path) = n.hops + 1 /\ Len(n.edges) = n.hops
    /\ n.path[1] = Suspect /\ n.path[n.hops + 1] = n.addr
    /\ \A k \in 1 .. n.hops :
         /\ n.edges[k] \in DOMAIN ledger
         /\ ledger[n.edges[k]].from = n.path[k]
         /\ ledger[n.edges[k]].to = n.path[k + 1]

\* Every reported path is a chain of transfers that starts at the suspect and
\* ends at the reported wallet, with one backing transaction per hop
\* (traversal.path_integrity is never 0 for a candidate of the search), even
\* when the walk has crossed a bridge and goes on from the target chain.
TrailsAreReal == \A n \in Walks : IsTrail(n)

\* No walk continues through a mixer or an exchange: such a wallet is only
\* ever the end of a reported path (module docstring: the search stops there).
StopsAtTerminals ==
    /\ \A n \in Walks : \A k \in 2 .. n.hops : Role[n.path[k]] \notin {"mixer", "vasp"}
    /\ \A n \in Nodes : n.hops > 0 => Role[n.addr] \notin {"mixer", "vasp"}

\* The hop budget: only a terminal found right behind a bridge may lie outside
\* it, and by one hop; nothing outside it is ever queued for expansion.
HopBudget ==
    /\ \A c \in Range(candidates) :
         c.hops <= MaxHops + (IF c.bridged THEN 1 ELSE 0)
    /\ \A n \in Range(frontier) : n.hops < MaxHops

\* No wallet is waiting in the queue twice, and no mixer, exchange or hub is
\* reported twice for the same chain, however many paths lead to it.
ReportedOnce ==
    /\ \A i, j \in DOMAIN frontier :
         <<frontier[i].addr, frontier[i].chain>> = <<frontier[j].addr, frontier[j].chain>>
           => i = j
    /\ \A i, j \in DOMAIN candidates :
         /\ candidates[i].role # "dead_end" /\ candidates[j].role = candidates[i].role
         /\ candidates[i].addr = candidates[j].addr
         /\ candidates[i].chain = candidates[j].chain
         => i = j

\* The search returns.
Terminates == <>(pc = "done")

-----------------------------------------------------------------------------
(* A reference for what the search must find on a ledger of one chain. *)

\* No transfer of the ledger leads off the source chain or to a bridge.
StaysOnChain ==
    \A i \in DOMAIN ledger :
      /\ ledger[i].chain = SourceChain /\ ledger[i].target \in {NoChain, SourceChain}
      /\ ledger[i].to \notin {a \in Addr : Role[a] = "bridge"}

\* No answer of the provider is cut at TxLimit.
Uncut == \A a \in Addr : Transactions(a, SourceChain) = Touching(a, SourceChain)

\* The search passes through the suspect and through ordinary wallets.
IsOrdinary(a) == Role[a] = "intermediary" /\ ~IsHub(a)

\* S and what one transfer from the suspect or an ordinary wallet of S reaches.
Onward(S) ==
    S \cup {ledger[i].to : i \in {i \in DOMAIN ledger :
                /\ ledger[i].from \in S /\ ledger[i].to # NoAddr
                /\ ledger[i].from = Suspect \/ IsOrdinary(ledger[i].from)}}

\* Layer[k]: what some walk of at most k transfers through ordinary wallets
\* reaches.
Layer[k \in Nat] == IF k = 0 THEN {Suspect} ELSE Onward(Layer[k - 1])

AtDistance(k) == Layer[k] \ Layer[k - 1]

HasOutgoing(a) == \E i \in DOMAIN ledger : ledger[i].from = a

\* What is reported for the wallets at distance k.
Found(k) ==
    LET at == AtDistance(k) IN
    [vasp     |-> {a \in at : Role[a] = "vasp"},
     mixer    |-> {a \in at : Role[a] = "mixer"},
     hub      |-> {a \in at : Role[a] = "intermediary" /\ IsHub(a)},
     dead_end |-> {a \in at : IsOrdinary(a) /\ k < MaxHops /\ ~HasOutgoing(a)}]

\* When a search of one chain returns without having been cut short, neither by
\* max_candidates nor by the limit of the provider's answers, its candidates are
\* exactly the exchanges, mixers, hubs and dead ends a walk through ordinary
\* wallets reaches within the budget, each at its least distance.
FindsNearest ==
    pc = "done" /\ StaysOnChain /\ Uncut /\ Len(candidates) < MaxCandidates =>
      \A k \in 1 .. MaxHops : \A role \in {"vasp", "mixer", "hub", "dead_end"} :
        {c.addr : c \in {c \in Range(candidates) : c.role = role /\ c.hops = k}}
          = Found(k)[role]

-----------------------------------------------------------------------------
(* What the source's own words say of the search, and the code does not do. *)

\* A wallet behind a bridge is walked on the target chain: "The frontier loop
\* continues to walk it on the bridge provider" (discovery.py, comment).
WalksNodesChain ==
    pc = "scan" => \A i \in outgoing : ledger[i].chain = node.chain

=============================================================================
