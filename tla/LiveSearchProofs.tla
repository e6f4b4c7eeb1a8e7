---------------------------- MODULE LiveSearchProofs ----------------------------
(***************************************************************************)
(* Requests over live providers, and queries of the demo provider, for     *)
(* every set of settings, dataset, ledger and bound.  In this order: demo  *)
(* mode sends nothing; what a search reports as idle was idle when it      *)
(* began; types; every walk is a trail of payments; a search misses        *)
(* nothing that was within reach when it began; a query of the dataset     *)
(* gives what the live providers promise.  What is said of a search rests  *)
(* on the contract History and not on how a provider keeps it.             *)
(***************************************************************************)
EXTENDS LiveSearch, SortingProofs

Conversion == INSTANCE CanonicalProofs WITH Queried <- Suspect, row <- <<>>, tx <- <<>>

Built == registry = [chain \in Chains |-> Kind(chain)]

\* Whoever is about to ask a provider asks the one that the settings choose.
OfflineInv ==
    /\ registry = <<>> \/ Built
    /\ call \in [chain : Chains \cup {NoChain}, want : {"height", "health"}, attempt : Nat]
    /\ call # NoCall => Built /\ call.chain \in Chains
    /\ Searching => Built /\ source \in Chains
    /\ DemoStaysOffline

LEMMA OfflineInit == Init => OfflineInv
  BY DEF Init, StartUp, OfflineInv, NoCall, Searching, DemoStaysOffline

\* The settings are read once, so that a registry built from them stays right.
LEMMA BuiltStays ==
    ASSUME Built, UNCHANGED <<settings, registry>>
    PROVE  Built'
  BY DEF Built, Kind, Chains, Tatum, Explored

\* In demo mode the registry has no live provider.
LEMMA DemoHasNoLive ==
    ASSUME Built, settings.demo, NEW chain \in Chains
    PROVE  registry[chain] = "demo"
  BY DEF Built, Kind

LEMMA ServeOffline == ASSUME OfflineInv, Serving PROVE OfflineInv'
<1>1. /\ call # NoCall /\ Built /\ call.chain \in Chains
      /\ UNCHANGED <<settings, registry>>
      /\ ~Searching'
  BY DEF Serving, Serve, FromDataset, FromStub, Unconfigured, Receive, Retry, Answer,
         Served, Return, given, OfflineInv, Enter, Searching
<1>2. Built'
  BY <1>1, BuiltStays
<1>3. CASE FromDataset \/ FromStub \/ Unconfigured
  <2>1. UNCHANGED <<settings, sent>> /\ call' = NoCall
    BY <1>3 DEF FromDataset, FromStub, Unconfigured, Return, given
  <2> QED BY <1>1, <1>2, <2>1 DEF OfflineInv, NoCall, DemoStaysOffline
<1>4. ASSUME NEW reply \in Replies, Retry(reply) \/ Answer(reply)
      PROVE  OfflineInv'
  <2>1. ~settings'.demo
    BY <1>1, <1>4, DemoHasNoLive DEF Retry, Answer, Receive, Served
  <2>2. CASE Retry(reply)
    <3>1. call' = [call EXCEPT !.attempt = @ + 1]
      BY <2>2 DEF Retry
    <3> QED BY <1>1, <1>2, <2>1, <3>1 DEF OfflineInv, DemoStaysOffline
  <2>3. CASE Answer(reply)
    <3>1. call' = NoCall
      BY <2>3 DEF Answer, Return
    <3> QED BY <1>1, <1>2, <2>1, <3>1 DEF OfflineInv, DemoStaysOffline, NoCall
  <2> QED BY <1>4, <2>2, <2>3
<1> QED BY <1>3, <1>4 DEF Serving, Serve

LEMMA CallOffline == ASSUME OfflineInv, Calling PROVE OfflineInv'
<1>1. ~Searching'
  BY DEF Calling, Enter, Searching
<1>2. CASE Build
  BY <1>1, <1>2 DEF Build, OfflineInv, Built, Kind, given, calling, DemoStaysOffline,
                    Chains, Tatum, Explored
<1>3. ASSUME NEW chain \in Chains, NEW want \in {"height", "health"}, Ask(chain, want)
      PROVE  OfflineInv'
  <2>1. Built /\ UNCHANGED <<settings, registry>> /\ sent' = FALSE
    BY <1>3 DEF Ask, OfflineInv, given
  <2>2. call' = [chain |-> chain, want |-> want, attempt |-> 0]
    BY <1>3 DEF Ask
  <2> QED BY <1>1, <2>1, <2>2, BuiltStays DEF OfflineInv, DemoStaysOffline
<1>4. ASSUME NEW a \in DemoAddress, NEW c \in DemoChain, NEW from \in Times,
             NEW till \in Times, NEW limit \in Limits, QueryDataset(a, c, from, till, limit)
      PROVE  OfflineInv'
  <2>1. Built /\ UNCHANGED <<settings, registry, call>> /\ sent' = FALSE
    BY <1>4 DEF QueryDataset, OfflineInv, given
  <2> QED BY <1>1, <2>1, BuiltStays DEF OfflineInv, DemoStaysOffline
<1>5. CASE Serve
  BY <1>5, ServeOffline DEF Calling, Serving
<1> QED BY <1>2, <1>3, <1>4, <1>5 DEF Calling, ProviderCall

LEMMA SearchOffline ==
    ASSUME OfflineInv, Step \/ Grow \/ \E chain \in Chains \cup {Unknown} : Request(chain)
    PROVE  OfflineInv'
<1>1. UNCHANGED <<settings, registry, call>>
  BY DEF Step, Pop, Refused, Fails, HearsAll, HearsSome, Hears, Finish, Grow, Request,
         Lose, lookedUp
<1>2. Built => Built'
  BY <1>1, BuiltStays
<1>3. Searching' => Built' /\ source' \in Chains
  <2>1. CASE Step \/ Grow
    BY <1>2, <2>1 DEF Step, Pop, Refused, Fails, HearsAll, HearsSome, Hears, Finish, Grow,
                      Lose, OfflineInv, Searching
  <2>2. ASSUME NEW chain \in Chains \cup {Unknown}, Request(chain)
        PROVE  Searching' => Built' /\ source' \in Chains
    <3>1. Built /\ Built'
      BY <1>2, <2>2 DEF Request, OfflineInv
    <3>2. DOMAIN registry = Chains
      BY <3>1 DEF Built
    <3> QED BY <2>2, <3>1, <3>2 DEF Request, Enter, Searching
  <2> QED BY <2>1, <2>2
<1>4. sent' => sent \/ ~settings.demo
  <2>1. CASE Fails \/ HearsAll \/ HearsSome
    <3>1. Reachable /\ Searching
      BY <2>1 DEF Fails, HearsAll, HearsSome, Hears, Searching
    <3> QED BY <3>1, DemoHasNoLive DEF Reachable, OfflineInv
  <2> QED BY <2>1 DEF Step, Pop, Refused, Finish, Grow, Request
<1> QED BY <1>1, <1>2, <1>3, <1>4 DEF OfflineInv, DemoStaysOffline

\* In demo mode no height, health check or search of the application sends a
\* request, whatever chains, URLs and keys the settings have besides.
THEOREM DemoIsOffline == Spec => []DemoStaysOffline
<1>1. OfflineInv /\ [Next]_vars => OfflineInv'
  <2> SUFFICES ASSUME OfflineInv, [Next]_vars PROVE OfflineInv'
    OBVIOUS
  <2>1. CASE UNCHANGED vars
    BY <2>1 DEF vars, lookedUp, OfflineInv, Built, Kind, Searching, DemoStaysOffline,
                Chains, Tatum, Explored
  <2> QED BY <2>1, CallOffline, SearchOffline DEF Next
<1>2. OfflineInv => DemoStaysOffline
  BY DEF OfflineInv
<1> QED BY OfflineInit, <1>1, <1>2, PTL DEF Spec

-----------------------------------------------------------------------------
(* Dead ends. *)

\* The chain only grows, from the beginning of the search to now; whatever the
\* entries of deadEnds are, they are a sequence.
IdleInv ==
    /\ began \in Int /\ since \in Int /\ listed \in Int
    /\ began <= since /\ since <= listed
    /\ \E S : deadEnds \in Seq(S)
    /\ DeadEndsWereIdle

LEMMA IdleInit == Init => IdleInv
<1> SUFFICES ASSUME Init PROVE IdleInv
  OBVIOUS
<1>1. deadEnds \in Seq({}) /\ ToSet(deadEnds) = {}
  BY DEF Init, ToSet
<1> QED BY <1>1 DEF Init, IdleInv, DeadEndsWereIdle

\* What Append adds to the elements of a sequence.
LEMMA AppendAdds ==
    ASSUME NEW S, NEW s \in Seq(S), NEW x
    PROVE  /\ Append(s, x) \in Seq(S \cup {x})
           /\ ToSet(Append(s, x)) = ToSet(s) \cup {x}
<1>1. s \in Seq(S \cup {x})
  BY SeqDef
<1>2. Append(s, x) \in Seq(S \cup {x})
  BY <1>1
<1>3. /\ DOMAIN Append(s, x) = 1 .. Len(s) + 1 /\ DOMAIN s = 1 .. Len(s)
      /\ Len(s) \in Nat
      /\ \A i \in 1 .. Len(s) : Append(s, x)[i] = s[i]
      /\ Append(s, x)[Len(s) + 1] = x
  BY <1>1, AppendProperties, LenProperties
<1>4. ASSUME NEW y PROVE y \in ToSet(Append(s, x)) <=> y \in ToSet(s) \/ y = x
  <2>1. \A i : i \in 1 .. Len(s) + 1 <=> i \in 1 .. Len(s) \/ i = Len(s) + 1
    BY <1>3
  <2>2. y \in ToSet(Append(s, x)) <=> \E i \in 1 .. Len(s) + 1 : y = Append(s, x)[i]
    BY <1>3 DEF ToSet
  <2>3. y \in ToSet(s) <=> \E i \in 1 .. Len(s) : y = s[i]
    BY <1>3 DEF ToSet
  <2> QED BY <1>3, <2>1, <2>2, <2>3
<1>5. ToSet(Append(s, x)) = ToSet(s) \cup {x}
  BY <1>4
<1> QED BY <1>2, <1>5

\* Sends depends on the chain searched and on how much of it is looked at.
LEMMA SendsStays ==
    ASSUME UNCHANGED <<source, began, deadEnds>>, partial => partial', DeadEndsWereIdle
    PROVE  DeadEndsWereIdle'
<1>1. \A a, first : Sends(a, first) <=> Sends(a, first)'
  BY DEF Sends, Shown, Touching, Touched, Ledger, LedgerOf
<1> QED BY <1>1 DEF DeadEndsWereIdle

\* A full, unbroken answer in which nothing leaves the wallet asked about holds
\* every row that was listed when the call began, and so when the search did.
LEMMA IdleAnswer ==
    ASSUME IdleInv, NEW s, Promise!Complete(s), Idle(s), Len(s) # TxLimit
    PROVE  ~Sends(node.addr, began)
<1>1. \A i \in Touching(node.addr) \cap 1 .. since : \E k \in DOMAIN s : s[k] = i
  BY DEF Promise!Complete, Promise!Rows
<1>2. \A i \in Touching(node.addr) \cap 1 .. began :
         ~Leaves(ToCanonical(Ledger[i], node.addr), node.addr)
  BY <1>1 DEF IdleInv, Idle, IsOutgoing, Tx
<1> QED BY <1>2 DEF Sends, Shown

LEMMA HearsIdle ==
    ASSUME IdleInv, NEW s, Hears(s), Promise!Complete(s),
           partial' = (partial \/ Len(s) = TxLimit)
    PROVE  DeadEndsWereIdle' /\ \E S : deadEnds' \in Seq(S)
<1>1. UNCHANGED <<source, began>> /\ Expand(s)
  BY DEF Hears
<1>2. CASE UNCHANGED deadEnds
  BY <1>1, <1>2, SendsStays DEF IdleInv
<1>3. CASE Idle(s) /\ deadEnds' = Append(deadEnds, node)
  <2>1. PICK S : deadEnds \in Seq(S)
    BY DEF IdleInv
  <2>2. deadEnds' \in Seq(S \cup {node}) /\ ToSet(deadEnds') = ToSet(deadEnds) \cup {node}
    BY <1>3, <2>1, AppendAdds
  <2>3. ASSUME ~partial', NEW d \in ToSet(deadEnds')
        PROVE  ~Sends(d.addr, began)
    <3>1. ~partial /\ Len(s) # TxLimit
      BY <2>3
    <3>2. CASE d \in ToSet(deadEnds)
      BY <3>1, <3>2 DEF IdleInv, DeadEndsWereIdle
    <3>3. CASE d = node
      BY <1>3, <3>1, <3>3, IdleAnswer
    <3> QED BY <2>2, <3>2, <3>3
  <2>4. ASSUME NEW a PROVE Sends(a, began)' = Sends(a, began)
    BY <1>1 DEF Sends, Shown, Touching, Touched, Ledger, LedgerOf
  <2> QED BY <2>2, <2>3, <2>4 DEF DeadEndsWereIdle
<1> QED BY <1>1, <1>2, <1>3 DEF Expand

LEMMA EmptyIdle ==
    ASSUME deadEnds' = <<>> PROVE DeadEndsWereIdle' /\ \E S : deadEnds' \in Seq(S)
<1>1. deadEnds' \in Seq({}) /\ ToSet(deadEnds') = {}
  BY DEF ToSet
<1> QED BY <1>1 DEF DeadEndsWereIdle

\* A wallet reported as a dead end had sent nothing when the search began, over any
\* provider that keeps its promise and however the chain goes on in between.
THEOREM ReportedWereIdle == Spec => []DeadEndsWereIdle
<1>1. IdleInv /\ [Next]_vars => IdleInv'
  <2> SUFFICES ASSUME IdleInv, [Next]_vars PROVE IdleInv'
    OBVIOUS
  <2> USE DEF IdleInv
  <2>1. CASE UNCHANGED vars
    BY <2>1, SendsStays DEF vars, heard
  <2>2. CASE Calling
    BY <2>2, EmptyIdle DEF Calling, Enter
  <2>3. ASSUME NEW chain \in Chains \cup {Unknown}, Request(chain) PROVE IdleInv'
    <3>1. deadEnds' = <<>> /\ listed' \in Int /\ began' = listed' /\ since' = listed'
      BY <2>3 DEF Request, Enter
    <3> QED BY <3>1, EmptyIdle
  <2>4. CASE Pop
    BY <2>4, SendsStays DEF Pop
  <2>5. CASE Refused \/ Fails \/ Finish
    BY <2>5, SendsStays DEF Refused, Fails, Finish, Lose, heard
  <2>6. CASE HearsAll
    <3>1. PICK s \in Answers : Hears(s) /\ Promise!Complete(s)
                               /\ partial' = (partial \/ Len(s) = TxLimit)
      BY <2>6 DEF HearsAll
    <3> QED BY <3>1, HearsIdle DEF Hears
  <2>7. CASE HearsSome
    <3>1. PICK s \in Answers : Hears(s) /\ partial' = TRUE
      BY <2>7 DEF HearsSome
    <3>2. PICK S : deadEnds \in Seq(S)
      OBVIOUS
    <3>3. deadEnds' = deadEnds \/ deadEnds' = Append(deadEnds, node)
      BY <3>1 DEF Hears, Expand
    <3>4. \E T : deadEnds' \in Seq(T)
      <4>1. Append(deadEnds, node) \in Seq(S \cup {node})
        BY <3>2, AppendAdds
      <4> QED BY <3>2, <3>3, <4>1
    <3> QED BY <3>1, <3>4 DEF Hears, DeadEndsWereIdle
  <2>8. CASE Grow
    BY <2>8, SendsStays DEF Grow, heard
  <2> QED BY <2>1, <2>2, <2>3, <2>4, <2>5, <2>6, <2>7, <2>8 DEF Next, Step
<1>2. IdleInv => DeadEndsWereIdle
  BY DEF IdleInv
<1> QED BY IdleInit, <1>1, <1>2, PTL DEF Spec

-----------------------------------------------------------------------------
(* Rows as the search sees them. *)

LEMMA ConversionAssumption == Conversion!CanonicalConstantsOK
  BY LiveConstantsOK DEF Conversion!CanonicalConstantsOK

LEMMA SameRows == Conversion!Row = Row
<1>1. Conversion!Coin = Coin
  BY DEF Conversion!Coin, Coin
<1>2. \A S, n : Conversion!SeqOf(S, n) = SeqOf(S, n)
  BY DEF Conversion!SeqOf, SeqOf
<1>3. /\ Conversion!BitcoinRow = BitcoinRow /\ Conversion!TronRow = TronRow
      /\ Conversion!ExplorerRow = ExplorerRow
  BY <1>1, <1>2 DEF Conversion!BitcoinRow, BitcoinRow, Conversion!TronRow, TronRow,
                    Conversion!ExplorerRow, ExplorerRow
<1> QED BY <1>3 DEF Conversion!Row, Row

LEMMA SameConversion ==
  \A r, a : /\ Conversion!ToCanonical(r, a) = ToCanonical(r, a)
            /\ Conversion!Payers(r) = Payers(r) /\ Conversion!Payees(r) = Payees(r)
<1>1. \A chain, from, to, amount, ok :
        Conversion!Hop(chain, from, to, amount, ok) = Hop(chain, from, to, amount, ok)
  BY DEF Conversion!Hop, Hop
<1>2. \A coins, a : Conversion!ValueOf(coins, a) = ValueOf(coins, a)
  BY DEF Conversion!ValueOf, ValueOf
<1>3. \A S : Conversion!Min(S) = Min(S)
  BY DEF Conversion!Min, Min
<1>4. \A coins, wanted : Conversion!FirstAddr(coins, wanted) = FirstAddr(coins, wanted)
  BY <1>3 DEF Conversion!FirstAddr, FirstAddr
<1>5. \A a : Conversion!NotQueried(a) = NotQueried(a)
  BY DEF Conversion!NotQueried, NotQueried
<1>6. \A r, a : Conversion!FromBitcoin(r, a) = FromBitcoin(r, a)
  BY <1>1, <1>2, <1>4, <1>5 DEF Conversion!FromBitcoin, FromBitcoin
<1>7. \A r : Conversion!FromTron(r) = FromTron(r)
  BY <1>1 DEF Conversion!FromTron, FromTron
<1>8. \A r : Conversion!FromExplorer(r) = FromExplorer(r)
  BY <1>1 DEF Conversion!FromExplorer, FromExplorer, Conversion!Ok, Ok
<1>9. \A r, a : Conversion!ToCanonical(r, a) = ToCanonical(r, a)
  BY <1>6, <1>7, <1>8 DEF Conversion!ToCanonical, ToCanonical
<1>10. \A r : Conversion!Payers(r) = Payers(r) /\ Conversion!Payees(r) = Payees(r)
  BY DEF Conversion!Payers, Payers, Conversion!Payees, Payees
<1> QED BY <1>9, <1>10

\* What the search follows is a payment, and goes to a wallet.
LEMMA FollowedIsPaid ==
  ASSUME NEW r \in Row, NEW a \in Party, IsHop(ToCanonical(r, a), a)
  PROVE  a \in Payers(r) /\ ToCanonical(r, a).to \in Payees(r) \cap Party
<1>1. r \in Conversion!Row /\ Conversion!IsHop(Conversion!ToCanonical(r, a), a)
  BY SameRows, SameConversion DEF Conversion!IsHop, IsHop, Conversion!Leaves, Leaves
<1>2. /\ a \in Conversion!Payers(r)
      /\ Conversion!ToCanonical(r, a).to \in Conversion!Payees(r) \cap Party
  BY <1>1, ConversionAssumption, Conversion!HopIsReal
<1> QED BY <1>2, SameConversion

-----------------------------------------------------------------------------
(* The loop over the answer. *)

Node == [addr : Party, hops : 0 .. MaxHops - 1, path : Seq(Party), edges : Seq(Nat)]

\* The hops of a walk are rows of the chain, and paid.
IsTrail(n, chain) ==
    /\ Len(n.path) = n.hops + 1 /\ Len(n.edges) = n.hops
    /\ n.path[1] = Suspect /\ n.path[n.hops + 1] = n.addr
    /\ \A k \in 1 .. n.hops :
         /\ n.path[k] \in Payers(LedgerOf(chain)[n.edges[k]])
         /\ n.path[k + 1] \in Payees(LedgerOf(chain)[n.edges[k]])

\* The walks over the first rows of a chain.
Trail(chain, last) ==
    {n \in Node : IsTrail(n, chain) /\ \A k \in 1 .. n.hops : n.edges[k] \in 1 .. last}

LEMMA LedgerIsSeq ==
  ASSUME NEW chain
  PROVE  /\ Len(LedgerOf(chain)) \in Nat /\ DOMAIN LedgerOf(chain) = 1 .. Len(LedgerOf(chain))
         /\ \A i \in DOMAIN LedgerOf(chain) : LedgerOf(chain)[i] \in Row
<1>1. LedgerOf(chain) \in Seq(Row)
  BY LiveConstantsOK DEF LedgerOf
<1> QED BY <1>1, LenProperties

LEMMA StartIsTrail ==
  ASSUME NEW chain, NEW last \in Nat
  PROVE  Start \in Trail(chain, last)
<1>1. 0 \in 0 .. MaxHops - 1 /\ Suspect \in Party
  BY LiveConstantsOK
<1>2. /\ <<>> \in Seq(Nat) /\ <<Suspect>> \in Seq(Party)
      /\ Len(<<>>) = 0 /\ Len(<<Suspect>>) = 1 /\ <<Suspect>>[1] = Suspect
  BY <1>1
<1>3. Start \in Node
  BY <1>1, <1>2 DEF Start, Node
<1>4. /\ Start.hops = 0 /\ Start.addr = Suspect
      /\ Start.path = <<Suspect>> /\ Start.edges = <<>>
  BY DEF Start
<1>5. 1 .. Start.hops = {} /\ IsTrail(Start, chain)
  BY <1>2, <1>4 DEF IsTrail
<1> QED BY <1>3, <1>5 DEF Trail

LEMMA TrailsGrow ==
  ASSUME NEW chain, NEW last \in Nat, NEW more \in Nat, last <= more
  PROVE  /\ Trail(chain, last) \subseteq Trail(chain, more)
         /\ \A s \in Seq(Trail(chain, last)) : s \in Seq(Trail(chain, more))
<1>1. Trail(chain, last) \subseteq Trail(chain, more)
  <2>1. \A i \in 1 .. last : i \in 1 .. more
    OBVIOUS
  <2> QED BY <2>1 DEF Trail
<1>2. ASSUME NEW s \in Seq(Trail(chain, last)) PROVE s \in Seq(Trail(chain, more))
  <2>1. \A i \in 1 .. Len(s) : s[i] \in Trail(chain, more)
    BY <1>1, ElementOfSeq
  <2>2. s = [i \in 1 .. Len(s) |-> s[i]] /\ Len(s) \in Nat
    OBVIOUS
  <2> QED BY <2>1, <2>2, FunctionIsSeq
<1> QED BY <1>1, <1>2

\* What a search holds is over the rows that are listed.
SearchTyped ==
    /\ pc \in {"idle", "pop", "await", "done"} /\ source \in Chains \cup {NoChain, Unknown}
    /\ Searching => source \in Chains
    /\ began \in Nat /\ since \in Nat /\ listed \in Nat
    /\ began <= since /\ since <= listed /\ listed <= Len(Ledger)
    /\ visited \in SUBSET Party
    /\ frontier \in Seq(Trail(source, listed)) /\ deadEnds \in Seq(Trail(source, listed))
    /\ node \in Trail(source, listed)
    /\ partial \in BOOLEAN
    /\ outcome \in {"none", "answered", "ProviderError", "AttributeError", "unknown", "offline"}

\* One row of the answer extends the walk by a payment.
LEMMA ExtendIsTrail ==
  ASSUME SearchTyped, source \in Chains,
         NEW i \in Touching(node.addr) \cap 1 .. listed,
         IsHop(Tx(i), node.addr)
  PROVE  /\ Tx(i).to \in Party
         /\ node.hops + 1 < MaxHops => Extend(i) \in Trail(source, listed)
<1> DEFINE p == Append(node.path, Tx(i).to)
           e == Append(node.edges, i)
           n == Extend(i)
<1>1. /\ node \in Node /\ IsTrail(node, source)
      /\ \A k \in 1 .. node.hops : node.edges[k] \in 1 .. listed
  BY DEF SearchTyped, Trail
<1>2. /\ node.addr \in Party /\ node.hops \in Nat
      /\ node.path \in Seq(Party) /\ node.edges \in Seq(Nat)
  BY <1>1 DEF Node
<1>3. i \in DOMAIN Ledger /\ i \in Nat /\ Ledger[i] \in Row
  <2>1. i \in DOMAIN LedgerOf(source)
    BY <1>2 DEF Touching, Touched
  <2> QED BY <2>1, LedgerIsSeq DEF Ledger
<1>4. /\ node.addr \in Payers(Ledger[i])
      /\ Tx(i).to \in Payees(Ledger[i]) /\ Tx(i).to \in Party
  BY <1>2, <1>3, FollowedIsPaid DEF Tx
<1>5. /\ p \in Seq(Party) /\ Len(p) = node.hops + 2 /\ p[node.hops + 2] = Tx(i).to
      /\ \A k \in 1 .. node.hops + 1 : p[k] = node.path[k]
  <2>1. Len(node.path) = node.hops + 1 /\ node.hops + 1 + 1 = node.hops + 2
    BY <1>1, <1>2 DEF IsTrail
  <2>2. /\ p \in Seq(Party) /\ Len(p) = Len(node.path) + 1
        /\ p[Len(node.path) + 1] = Tx(i).to
        /\ \A k \in 1 .. Len(node.path) : p[k] = node.path[k]
    BY <1>2, <1>4, AppendProperties
  <2> QED BY <2>1, <2>2
<1>6. /\ e \in Seq(Nat) /\ Len(e) = node.hops + 1 /\ e[node.hops + 1] = i
      /\ \A k \in 1 .. node.hops : e[k] = node.edges[k]
  BY <1>1, <1>2, <1>3, AppendProperties DEF IsTrail
<1>7. Extend(i) = [addr |-> Tx(i).to, hops |-> node.hops + 1, path |-> p, edges |-> e]
  BY DEF Extend
<1> HIDE DEF p, e
<1>8. ASSUME node.hops + 1 < MaxHops PROVE Extend(i) \in Trail(source, listed)
  <2>1. n \in Node
    BY <1>2, <1>4, <1>5, <1>6, <1>7, <1>8, LiveConstantsOK DEF Node
  <2>2. ASSUME NEW k \in 1 .. n.hops
        PROVE  /\ n.edges[k] \in 1 .. listed
               /\ n.path[k] \in Payers(LedgerOf(source)[n.edges[k]])
               /\ n.path[k + 1] \in Payees(LedgerOf(source)[n.edges[k]])
    <3>1. CASE k = node.hops + 1
      <4>1. n.edges = e /\ n.path = p /\ k + 1 = node.hops + 2 /\ k \in 1 .. node.hops + 1
        BY <1>2, <1>7, <3>1
      <4>2. e[k] = i /\ p[k] = node.path[k] /\ p[k + 1] = Tx(i).to
        BY <1>5, <1>6, <3>1, <4>1
      <4>3. node.path[k] = node.addr
        BY <1>1, <3>1 DEF IsTrail
      <4> QED BY <1>4, <4>1, <4>2, <4>3 DEF Ledger
    <3>2. CASE k # node.hops + 1
      <4>1. k \in 1 .. node.hops /\ k + 1 \in 1 .. node.hops + 1 /\ k \in 1 .. node.hops + 1
        BY <1>2, <1>7, <3>2
      <4>2. n.edges = e /\ n.path = p
        BY <1>7
      <4>3. e[k] = node.edges[k]
        BY <1>6, <4>1
      <4>4. p[k] = node.path[k] /\ p[k + 1] = node.path[k + 1]
        BY <1>5, <4>1
      <4> QED BY <1>1, <4>1, <4>2, <4>3, <4>4 DEF IsTrail
    <3> QED BY <3>1, <3>2
  <2>3. /\ Len(n.path) = n.hops + 1 /\ Len(n.edges) = n.hops
        /\ n.path[1] = Suspect /\ n.path[n.hops + 1] = n.addr
    <3>1. /\ n.path = p /\ n.edges = e /\ n.hops = node.hops + 1 /\ n.addr = Tx(i).to
          /\ n.hops + 1 = node.hops + 2
      BY <1>2, <1>7
    <3>2. p[1] = Suspect
      <4>1. 1 \in 1 .. node.hops + 1 /\ node.path[1] = Suspect
        BY <1>1, <1>2 DEF IsTrail
      <4> QED BY <1>5, <4>1
    <3> QED BY <1>5, <1>6, <3>1, <3>2
  <2> HIDE DEF n
  <2>4. IsTrail(n, source)
    BY <2>2, <2>3 DEF IsTrail
  <2> QED BY <2>1, <2>2, <2>4 DEF Trail, n
<1> QED BY <1>4, <1>8

\* What the loop carries.
Carried == [seen : SUBSET Party, queue : Seq(Trail(source, listed))]

LEMMA FollowTyped ==
  ASSUME SearchTyped, source \in Chains,
         NEW i \in Touching(node.addr) \cap 1 .. listed, NEW walk \in Carried
  PROVE  Follow(i, walk) \in Carried
<1>1. CASE IsOutgoing(i) /\ Fresh(i, walk.seen)
  <2>1. IsHop(Tx(i), node.addr)
    BY <1>1 DEF IsOutgoing, Fresh, IsHop
  <2>2. /\ Tx(i).to \in Party
        /\ node.hops + 1 < MaxHops => Extend(i) \in Trail(source, listed)
    BY <2>1, ExtendIsTrail
  <2>3. walk.seen \cup {Tx(i).to} \in SUBSET Party
    BY <2>2 DEF Carried
  <2>4. Enqueue(Extend(i), walk.queue) \in Seq(Trail(source, listed))
    <3>1. walk.queue \in Seq(Trail(source, listed))
      BY DEF Carried
    <3>2. Extend(i).hops = node.hops + 1
      BY DEF Extend
    <3> QED BY <2>2, <3>1, <3>2, AppendProperties DEF Enqueue
  <2> QED BY <1>1, <2>3, <2>4 DEF Follow, Carried
<1> QED BY <1>1 DEF Follow

\* F is what the loop carries after each row of the answer.
Loops(F, s) ==
    /\ F \in [0 .. Len(s) -> Carried]
    /\ F[0] = [seen |-> visited, queue |-> frontier]
    /\ \A k \in 1 .. Len(s) : F[k] = Follow(s[k], F[k - 1])
    /\ Followed(s) = F[Len(s)]

LEMMA LoopExists ==
  ASSUME SearchTyped, source \in Chains,
         NEW s \in Seq(Touching(node.addr) \cap 1 .. listed)
  PROVE  \E F : Loops(F, s)
<1> DEFINE first == [seen |-> visited, queue |-> frontier]
           Body(f) == [k \in 0 .. Len(s) |-> IF k = 0 THEN first ELSE Follow(s[k], f[k - 1])]
           upTo == CHOOSE f : f = Body(f)
           g == [k \in Nat |-> [w \in Carried |->
                   IF k < Len(s) THEN Follow(s[k + 1], w) ELSE w]]
<1>1. Len(s) \in Nat /\ \A k \in 1 .. Len(s) : s[k] \in Touching(node.addr) \cap 1 .. listed
  BY ElementOfSeq
<1>2. first \in Carried
  BY DEF Carried, SearchTyped
<1>3. g \in [Nat -> [Carried -> Carried]]
  <2>1. ASSUME NEW k \in Nat, NEW w \in Carried
        PROVE  (IF k < Len(s) THEN Follow(s[k + 1], w) ELSE w) \in Carried
    <3>1. CASE k < Len(s)
      <4>1. k + 1 \in 1 .. Len(s)
        BY <1>1, <3>1
      <4> QED BY <1>1, <3>1, <4>1, FollowTyped
    <3> QED BY <3>1
  <2> QED BY <2>1
<1>4. PICK f : f \in [Nat -> Carried] /\ f[0] = first /\ \A k \in Nat : f[k + 1] = g[k][f[k]]
  <2> HIDE DEF first, g, Body, upTo
  <2>1. \E f : Takes(f, Carried, first, g)
    BY <1>2, <1>3, RecursionExists
  <2> QED BY <2>1 DEF Takes
<1> DEFINE h == [k \in 0 .. Len(s) |-> f[k]]
<1>5. ASSUME NEW k \in 1 .. Len(s) PROVE f[k] = Follow(s[k], f[k - 1])
  <2>1. k - 1 \in Nat /\ k - 1 < Len(s) /\ k - 1 + 1 = k
    BY <1>1
  <2>2. f[k] = g[k - 1][f[k - 1]]
    BY <1>4, <2>1
  <2>3. f[k - 1] \in Carried
    BY <1>4, <2>1
  <2> QED BY <2>1, <2>2, <2>3
<1>6. h = Body(h)
  <2>1. \A k \in 0 .. Len(s) : k = 0 \/ (k \in 1 .. Len(s) /\ k - 1 \in 0 .. Len(s))
    BY <1>1
  <2>2. \A k \in 0 .. Len(s) :
          h[k] = IF k = 0 THEN first ELSE Follow(s[k], h[k - 1])
    BY <1>4, <1>5, <2>1
  <2> HIDE DEF first
  <2> QED BY <2>2
<1>7. upTo = Body(upTo)
  <2> HIDE DEF Body, h
  <2> QED BY <1>6
<1>8. Followed(s) = upTo[Len(s)]
  BY DEF Followed
<1> HIDE DEF upTo, first
<1>9. /\ upTo[0] = first
      /\ \A k \in 1 .. Len(s) : upTo[k] = Follow(s[k], upTo[k - 1])
      /\ upTo = [k \in 0 .. Len(s) |-> upTo[k]]
  BY <1>1, <1>7
<1>10. \A k \in 0 .. Len(s) : upTo[k] \in Carried
  <2> DEFINE X == {k \in 0 .. Len(s) : upTo[k] \notin Carried}
  <2> SUFFICES ASSUME X # {} PROVE FALSE
    OBVIOUS
  <2>1. PICK k \in X : \A j \in X : k <= j
    <3>1. X \in SUBSET Nat
      BY <1>1
    <3> HIDE DEF X
    <3> QED BY <3>1, LeastNat
  <2>2. k \in 1 .. Len(s) /\ k - 1 \in 0 .. Len(s) /\ k - 1 \notin X
    BY <1>1, <1>2, <1>9, <2>1
  <2>3. upTo[k] = Follow(s[k], upTo[k - 1]) /\ upTo[k - 1] \in Carried
    BY <1>9, <2>2
  <2> QED BY <1>1, <2>1, <2>2, <2>3, FollowTyped
<1>11. Loops(upTo, s)
  BY <1>8, <1>9, <1>10 DEF Loops, first
<1> QED BY <1>11

-----------------------------------------------------------------------------
(* Types, and what was paid. *)

LEMMA ReturnTyped ==
  ASSUME ProvidersTyped, sent' \in BOOLEAN,
         NEW height \in {"height", "ProviderError", "AttributeError"}, Return(height)
  PROVE  ProvidersTyped'
<1>1. result' \in {"height", "healthy", "unhealthy", "ProviderError", "AttributeError"}
  <2>1. Health(height) \in {"healthy", "unhealthy", "AttributeError"}
    BY DEF Health
  <2> QED BY <2>1 DEF Return
<1>2. call' = NoCall /\ UNCHANGED <<settings, registry>>
  BY DEF Return, given
<1> QED BY <1>1, <1>2 DEF ProvidersTyped, NoCall

LEMMA ServeTyped == ASSUME ProvidersTyped, Serve PROVE ProvidersTyped'
<1>1. CASE FromDataset
  <2>1. sent' \in BOOLEAN
    BY <1>1 DEF FromDataset, ProvidersTyped
  <2> QED BY <1>1, <2>1, ReturnTyped DEF FromDataset
<1>2. CASE FromStub \/ Unconfigured
  <2>1. sent' \in BOOLEAN /\ Return("ProviderError")
    BY <1>2 DEF FromStub, Unconfigured, ProvidersTyped
  <2> QED BY <2>1, ReturnTyped
<1>3. ASSUME NEW reply \in Replies, Retry(reply) PROVE ProvidersTyped'
  <2>1. /\ call' = [call EXCEPT !.attempt = @ + 1] /\ call.attempt = 0
        /\ sent' = TRUE /\ UNCHANGED <<settings, registry, result>>
    BY <1>3 DEF Retry, Retries, Receive, given
  <2>2. call' \in [chain : Chains \cup {NoChain}, want : {"height", "health"}, attempt : {0, 1}]
    BY <2>1 DEF ProvidersTyped
  <2> QED BY <2>1, <2>2 DEF ProvidersTyped
<1>4. ASSUME NEW reply \in Replies, Answer(reply) PROVE ProvidersTyped'
  <2>1. sent' \in BOOLEAN /\ Return(Outcome(reply))
    BY <1>4 DEF Answer, Receive
  <2>2. Outcome(reply) \in {"height", "ProviderError", "AttributeError"}
    BY DEF Outcome
  <2> QED BY <2>1, <2>2, ReturnTyped
<1> QED BY <1>1, <1>2, <1>3, <1>4 DEF Serve

LEMMA ProviderCallTyped == ASSUME ProvidersTyped, ProviderCall PROVE ProvidersTyped'
<1>1. CASE Build
  <2>1. registry' \in [Chains -> {"demo", "live", "stub"}]
    <3>1. \A chain \in Chains : Kind(chain) \in {"demo", "live", "stub"}
      BY DEF Kind
    <3> QED BY <1>1, <3>1 DEF Build
  <2> QED BY <1>1, <2>1 DEF Build, ProvidersTyped, given, calling
<1>2. ASSUME NEW chain \in Chains, NEW want \in {"height", "health"}, Ask(chain, want)
      PROVE  ProvidersTyped'
  BY <1>2 DEF Ask, ProvidersTyped, given
<1>3. ASSUME NEW a \in DemoAddress, NEW c \in DemoChain, NEW from \in Times,
             NEW till \in Times, NEW limit \in Limits, QueryDataset(a, c, from, till, limit)
      PROVE  ProvidersTyped'
  BY <1>3 DEF QueryDataset, ProvidersTyped, given
<1> QED BY <1>1, <1>2, <1>3, ServeTyped DEF ProviderCall

LEMMA SearchKeepsProviders ==
  ASSUME ProvidersTyped, Step \/ Grow \/ \E chain \in Chains \cup {Unknown} : Request(chain)
  PROVE  ProvidersTyped'
<1>1. /\ UNCHANGED <<settings, registry, call>>
      /\ result' \in {result, "none"} /\ sent' \in {sent, TRUE, FALSE}
  BY DEF Step, Pop, Refused, Fails, HearsAll, HearsSome, Hears, Finish, Grow, Request,
         Lose, lookedUp
<1> QED BY <1>1 DEF ProvidersTyped

LEMMA EnterTyped ==
  ASSUME NEW place \in {"idle", "done"}, NEW chain \in Chains \cup {NoChain, Unknown},
         NEW response \in {"none", "unknown", "offline"}, Enter(place, chain, response)
  PROVE  SearchTyped'
<1>1. /\ frontier' = <<>> /\ deadEnds' = <<>> /\ visited' = {} /\ node' = Start
      /\ listed' = 0 /\ began' = 0 /\ since' = 0 /\ partial' = FALSE
      /\ pc' = place /\ source' = chain /\ outcome' = response
  BY DEF Enter
<1>2. Start \in Trail(chain, 0) /\ <<>> \in Seq(Trail(chain, 0))
  BY StartIsTrail
<1>3. 0 <= Len(LedgerOf(chain))
  BY LedgerIsSeq
<1>4. /\ frontier' \in Seq(Trail(source, listed)') /\ deadEnds' \in Seq(Trail(source, listed)')
      /\ node' \in Trail(source, listed)'
  BY <1>1, <1>2
<1>5. listed' <= Len(Ledger') /\ ~Searching'
  BY <1>1, <1>3 DEF Ledger, Searching
<1>6. /\ pc' \in {"idle", "pop", "await", "done"} /\ source' \in Chains \cup {NoChain, Unknown}
      /\ outcome' \in {"none", "answered", "ProviderError", "AttributeError", "unknown", "offline"}
  BY <1>1
<1>7. /\ began' \in Nat /\ since' \in Nat /\ listed' \in Nat
      /\ began' <= since' /\ since' <= listed'
  BY <1>1
<1>8. visited' \in SUBSET Party /\ partial' \in BOOLEAN
  BY <1>1
<1> QED BY <1>4, <1>5, <1>6, <1>7, <1>8 DEF SearchTyped

LEMMA RequestTyped ==
  ASSUME ProvidersTyped, NEW chain \in Chains \cup {Unknown}, Request(chain)
  PROVE  SearchTyped'
<1>1. CASE Enter("done", chain, "unknown") \/ Enter("done", chain, "offline")
  BY <1>1, EnterTyped
<1>2. CASE ~(Enter("done", chain, "unknown") \/ Enter("done", chain, "offline"))
  <2>1. /\ chain \in DOMAIN registry /\ registry # <<>>
        /\ pc' = "pop" /\ source' = chain /\ outcome' = "none"
        /\ frontier' = <<Start>> /\ visited' = {Suspect} /\ deadEnds' = <<>>
        /\ node' = Start /\ partial' = FALSE
        /\ listed' \in 0 .. Len(LedgerOf(chain))
        /\ began' = listed' /\ since' = listed'
    BY <1>2 DEF Request
  <2>2. chain \in Chains
    BY <2>1 DEF ProvidersTyped
  <2>3. PICK n \in 0 .. Len(LedgerOf(chain)) : n = listed'
    BY <2>1
  <2>4. n \in Nat /\ n <= Len(LedgerOf(chain))
    BY <2>3, LedgerIsSeq
  <2>5. /\ Start \in Trail(chain, n) /\ <<>> \in Seq(Trail(chain, n))
        /\ <<Start>> \in Seq(Trail(chain, n))
    BY <2>4, StartIsTrail
  <2>6. {Suspect} \in SUBSET Party
    BY LiveConstantsOK
  <2>7. /\ frontier' \in Seq(Trail(source, listed)') /\ deadEnds' \in Seq(Trail(source, listed)')
        /\ node' \in Trail(source, listed)'
    BY <2>1, <2>3, <2>5
  <2>8. listed' <= Len(Ledger') /\ listed' \in Nat
    BY <2>1, <2>3, <2>4 DEF Ledger
  <2>9. /\ pc' \in {"idle", "pop", "await", "done"} /\ source' \in Chains
        /\ outcome' \in {"none", "answered", "ProviderError", "AttributeError", "unknown", "offline"}
    BY <2>1, <2>2
  <2>10. began' \in Nat /\ since' \in Nat /\ began' <= since' /\ since' <= listed'
    BY <2>1, <2>8
  <2>11. visited' \in SUBSET Party /\ partial' \in BOOLEAN
    BY <2>1, <2>6
  <2> QED BY <2>7, <2>8, <2>9, <2>10, <2>11 DEF SearchTyped
<1> QED BY <1>1, <1>2

LEMMA GrowTyped == ASSUME SearchTyped, Grow PROVE SearchTyped'
<1>1. /\ listed' = listed + 1 /\ listed < Len(Ledger)
      /\ UNCHANGED <<pc, source, began, since, visited, frontier, deadEnds, partial, node, outcome>>
  BY DEF Grow, heard
<1>2. Len(Ledger) \in Nat
  BY LedgerIsSeq DEF Ledger
<1>3. Ledger' = Ledger
  BY <1>1 DEF Ledger
<1>4. PICK n \in Nat : n = listed' /\ listed <= n /\ n <= Len(Ledger)
  BY <1>1, <1>2 DEF SearchTyped
<1>5. /\ frontier \in Seq(Trail(source, n)) /\ deadEnds \in Seq(Trail(source, n))
      /\ node \in Trail(source, n)
  BY <1>4, TrailsGrow DEF SearchTyped
<1> QED BY <1>1, <1>3, <1>4, <1>5 DEF SearchTyped, Searching

LEMMA PopTyped == ASSUME SearchTyped, Pop PROVE SearchTyped'
<1>1. /\ frontier # <<>> /\ node' = Head(frontier) /\ frontier' = Tail(frontier)
      /\ pc' = "await" /\ since' = listed /\ pc = "pop"
      /\ UNCHANGED <<source, listed, began, visited, deadEnds, partial, outcome>>
  BY DEF Pop
<1>2. Head(frontier) \in Trail(source, listed) /\ Tail(frontier) \in Seq(Trail(source, listed))
  BY <1>1, HeadTailProperties DEF SearchTyped
<1>3. Ledger' = Ledger
  BY <1>1 DEF Ledger
<1> QED BY <1>1, <1>2, <1>3 DEF SearchTyped, Searching

LEMMA AnswersAreSeq ==
  ASSUME NEW s \in Answers
  PROVE  s \in Seq(Touching(node.addr) \cap 1 .. listed)
<1>1. PICK m \in 0 .. TxLimit : s \in [1 .. m -> Touching(node.addr) \cap 1 .. listed]
  BY DEF Answers, SeqOf
<1>2. m \in Nat
  BY LiveConstantsOK
<1> QED BY <1>1, <1>2, FunctionIsSeq

LEMMA HearsTyped ==
  ASSUME SearchTyped, pc = "await", NEW s \in Answers, Hears(s), partial' \in BOOLEAN
  PROVE  SearchTyped'
<1>1. /\ Expand(s) /\ pc' = "pop" /\ UNCHANGED <<source, listed, began, since, node, outcome>>
  BY DEF Hears
<1>2. source \in Chains
  BY DEF SearchTyped, Searching
<1>3. /\ visited' \in SUBSET Party
      /\ frontier' \in Seq(Trail(source, listed)) /\ deadEnds' \in Seq(Trail(source, listed))
  <2>1. CASE Idle(s) /\ node.hops > 0
    <3>1. deadEnds' = Append(deadEnds, node) /\ UNCHANGED <<visited, frontier>>
      BY <1>1, <2>1 DEF Expand
    <3>2. deadEnds \in Seq(Trail(source, listed)) /\ node \in Trail(source, listed)
      BY DEF SearchTyped
    <3>3. Append(deadEnds, node) \in Seq(Trail(source, listed))
      BY <3>2, AppendProperties
    <3> QED BY <3>1, <3>3 DEF SearchTyped
  <2>2. CASE ~(Idle(s) /\ node.hops > 0)
    <3>1. s \in Seq(Touching(node.addr) \cap 1 .. listed)
      BY AnswersAreSeq
    <3>2. PICK F : Loops(F, s)
      BY <1>2, <3>1, LoopExists
    <3>3. Len(s) \in 0 .. Len(s)
      BY <3>1
    <3>4. Followed(s) \in Carried
      BY <3>2, <3>3 DEF Loops
    <3>5. visited' = Followed(s).seen /\ frontier' = Followed(s).queue /\ UNCHANGED deadEnds
      BY <1>1, <2>2 DEF Expand
    <3> QED BY <3>4, <3>5 DEF Carried, SearchTyped
  <2> QED BY <2>1, <2>2
<1>4. Ledger' = Ledger
  BY <1>1 DEF Ledger
<1> QED BY <1>1, <1>2, <1>3, <1>4 DEF SearchTyped, Searching

LEMMA StepTyped == ASSUME SearchTyped, Step PROVE SearchTyped'
<1>1. CASE Refused \/ Fails \/ Finish
  <2>1. /\ UNCHANGED <<source, listed, began, since, visited, frontier, deadEnds, partial, node>>
        /\ pc' = "done" /\ outcome' \in {"answered", "ProviderError", "AttributeError"}
    BY <1>1 DEF Refused, Fails, Finish, Lose, heard
  <2>2. Ledger' = Ledger
    BY <2>1 DEF Ledger
  <2> QED BY <2>1, <2>2 DEF SearchTyped, Searching
<1>2. CASE HearsAll
  <2>1. PICK s \in Answers : Hears(s) /\ partial' = (partial \/ Len(s) = TxLimit)
    BY <1>2 DEF HearsAll
  <2> QED BY <1>2, <2>1, HearsTyped DEF HearsAll
<1>3. CASE HearsSome
  <2>1. PICK s \in Answers : Hears(s) /\ partial' = TRUE
    BY <1>3 DEF HearsSome
  <2> QED BY <1>3, <2>1, HearsTyped DEF HearsSome
<1> QED BY <1>1, <1>2, <1>3, PopTyped DEF Step

LEMMA AlwaysTyped == Spec => [](ProvidersTyped /\ SearchTyped)
<1>1. Init => ProvidersTyped /\ SearchTyped
  <2> SUFFICES ASSUME Init PROVE ProvidersTyped /\ SearchTyped
    OBVIOUS
  <2>1. ProvidersTyped
    BY ProvidersConstantsOK DEF Init, StartUp, ProvidersTyped, NoCall
  <2>2. Start \in Trail(NoChain, 0) /\ <<>> \in Seq(Trail(NoChain, 0))
    BY StartIsTrail
  <2>3. 0 <= Len(LedgerOf(NoChain))
    BY LedgerIsSeq
  <2>4. source = NoChain /\ listed = 0
    BY DEF Init
  <2>5. /\ frontier \in Seq(Trail(source, listed)) /\ deadEnds \in Seq(Trail(source, listed))
        /\ node \in Trail(source, listed)
    BY <2>2, <2>4 DEF Init
  <2>6. listed <= Len(Ledger) /\ ~Searching
    BY <2>3, <2>4 DEF Init, Searching, Ledger
  <2>7. /\ pc \in {"idle", "pop", "await", "done"} /\ source \in Chains \cup {NoChain, Unknown}
        /\ outcome \in {"none", "answered", "ProviderError", "AttributeError", "unknown", "offline"}
    BY DEF Init
  <2>8. began \in Nat /\ since \in Nat /\ listed \in Nat /\ began <= since /\ since <= listed
    BY DEF Init
  <2>9. visited \in SUBSET Party /\ partial \in BOOLEAN
    BY DEF Init
  <2>10. SearchTyped
    BY <2>5, <2>6, <2>7, <2>8, <2>9 DEF SearchTyped
  <2> QED BY <2>1, <2>10
<1>2. /\ ProvidersTyped /\ SearchTyped /\ [Next]_vars
      => ProvidersTyped' /\ SearchTyped'
  <2> SUFFICES ASSUME ProvidersTyped, SearchTyped, [Next]_vars
               PROVE  ProvidersTyped' /\ SearchTyped'
    OBVIOUS
  <2>1. CASE UNCHANGED vars
    <3>1. UNCHANGED <<settings, registry, call, result, sent>>
      BY <2>1 DEF vars, lookedUp
    <3>2. /\ UNCHANGED <<pc, source, listed, began, since, visited, frontier, deadEnds>>
          /\ UNCHANGED <<partial, node, outcome>>
      BY <2>1 DEF vars, heard
    <3> QED BY <3>1, <3>2 DEF ProvidersTyped, SearchTyped, Searching, Ledger
  <2>2. CASE Calling
    BY <2>2, ProviderCallTyped, EnterTyped DEF Calling
  <2>3. ASSUME NEW chain \in Chains \cup {Unknown}, Request(chain)
        PROVE  ProvidersTyped' /\ SearchTyped'
    BY <2>3, SearchKeepsProviders, RequestTyped
  <2>4. CASE Step
    BY <2>4, SearchKeepsProviders, StepTyped
  <2>5. CASE Grow
    BY <2>5, SearchKeepsProviders, GrowTyped
  <2> QED BY <2>1, <2>2, <2>3, <2>4, <2>5 DEF Next
<1> QED BY <1>1, <1>2, PTL DEF Spec

\* The walks of a search are trails.
LEMMA WalksAreTrails == ASSUME SearchTyped PROVE Walks \subseteq Trail(source, listed)
<1>1. \A s \in Seq(Trail(source, listed)) : ToSet(s) \subseteq Trail(source, listed)
  BY ElementOfSeq, LenProperties DEF ToSet
<1> QED BY <1>1 DEF SearchTyped, Walks

\* Types, and the hop budget: no walk that waits, is asked about or is reported
\* takes max_hops hops or more, or a row that is not listed yet.
THEOREM TypesHold == Spec => []TypeOK
<1>1. ProvidersTyped /\ SearchTyped => TypeOK
  <2> SUFFICES ASSUME ProvidersTyped, SearchTyped PROVE TypeOK
    OBVIOUS
  <2>1. ASSUME NEW n \in Walks
        PROVE  n.addr \in Party /\ n.hops < MaxHops /\ ToSet(n.edges) \subseteq 1 .. listed
    <3>1. /\ n \in Node /\ Len(n.edges) = n.hops
          /\ \A k \in 1 .. n.hops : n.edges[k] \in 1 .. listed
      BY WalksAreTrails DEF Trail, IsTrail
    <3>2. DOMAIN n.edges = 1 .. n.hops
      BY <3>1, LenProperties DEF Node
    <3> QED BY <3>1, <3>2, LiveConstantsOK DEF Node, ToSet
  <2> QED BY <2>1 DEF TypeOK, SearchTyped
<1> QED BY <1>1, AlwaysTyped, PTL

\* Every hop of every walk is a payment: the wallet before it is among those that
\* paid in the row, and the wallet after it among those that were paid.
THEOREM TrailsArePayments == Spec => []TrailsArePaid
<1>1. SearchTyped => TrailsArePaid
  BY WalksAreTrails DEF TrailsArePaid, Trail, IsTrail, Ledger
<1> QED BY <1>1, AlwaysTyped, PTL

-----------------------------------------------------------------------------
(* Layers of a chain. *)

\* What a query about a shows of the first rows of a chain, whether a has sent
\* anything in them, and where it leads.
ShownOf(chain, a, first) ==
    {ToCanonical(LedgerOf(chain)[i], a) : i \in Touched[chain][a] \cap 1 .. first}

SendsOn(chain, a, first) == \E tx \in ShownOf(chain, a, first) : Leaves(tx, a)

LeadsTo(chain, a, first) == {tx.to : tx \in {tx \in ShownOf(chain, a, first) : IsHop(tx, a)}}

OnwardOn(chain, wallets, first) == UNION {LeadsTo(chain, a, first) : a \in wallets}

\* L[k] is what at most k hops over the first rows of the chain reach.
AreLayers(L, chain, first) ==
    /\ L \in [Nat -> SUBSET Party] /\ L[0] = {Suspect}
    /\ \A k \in Nat : L[k + 1] = L[k] \cup OnwardOn(chain, L[k], first)

LEMMA ShownIsShownOf ==
  \A a, first : /\ Shown(a, first) = ShownOf(source, a, first)
                /\ Sends(a, first) <=> SendsOn(source, a, first)
<1>1. \A a, first : Shown(a, first) = ShownOf(source, a, first)
  BY DEF Shown, ShownOf, Touching, Ledger
<1> QED BY <1>1 DEF Sends, SendsOn

\* i is a row that a query about a shows.
LEMMA ShownRow ==
  ASSUME NEW chain \in Chains, NEW a \in Party, NEW first \in Nat,
         NEW i \in Touched[chain][a] \cap 1 .. first
  PROVE  i \in 1 .. first /\ LedgerOf(chain)[i] \in Row
<1>1. i \in DOMAIN LedgerOf(chain)
  BY DEF Touched
<1> QED BY <1>1, LedgerIsSeq

LEMMA LeadsToParty ==
  ASSUME NEW chain \in Chains, NEW a \in Party, NEW first \in Nat
  PROVE  LeadsTo(chain, a, first) \subseteq Party
<1> SUFFICES ASSUME NEW i \in Touched[chain][a] \cap 1 .. first,
                    IsHop(ToCanonical(LedgerOf(chain)[i], a), a)
             PROVE  ToCanonical(LedgerOf(chain)[i], a).to \in Party
  BY DEF LeadsTo, ShownOf
<1> QED BY ShownRow, FollowedIsPaid

LEMMA OnwardInParty ==
  ASSUME NEW chain \in Chains, NEW X \in SUBSET Party, NEW first \in Nat
  PROVE  OnwardOn(chain, X, first) \in SUBSET Party
BY LeadsToParty DEF OnwardOn

LEMMA LayersExist ==
  ASSUME NEW chain \in Chains, NEW first \in Nat
  PROVE  \E L : AreLayers(L, chain, first)
<1> DEFINE S == SUBSET Party
           next == [X \in S |-> X \cup OnwardOn(chain, X, first)]
           g == [k \in Nat |-> next]
<1>1. {Suspect} \in S
  BY LiveConstantsOK
<1>2. next \in [S -> S]
  BY OnwardInParty
<1>3. g \in [Nat -> [S -> S]]
  <2> HIDE DEF next
  <2> QED BY <1>2
<1>4. PICK L : L \in [Nat -> S] /\ L[0] = {Suspect} /\ \A k \in Nat : L[k + 1] = g[k][L[k]]
  <2> HIDE DEF S, g
  <2>1. \E L : Takes(L, S, {Suspect}, g)
    BY <1>1, <1>3, RecursionExists
  <2> QED BY <2>1 DEF Takes
<1>5. \A k \in Nat : L[k + 1] = L[k] \cup OnwardOn(chain, L[k], first)
  <2>1. \A k \in Nat : L[k] \in S /\ g[k][L[k]] = next[L[k]]
    BY <1>4
  <2> QED BY <1>4, <2>1
<1> QED BY <1>4, <1>5 DEF AreLayers

LEMMA LayersGrow ==
  ASSUME NEW chain, NEW first, NEW L, AreLayers(L, chain, first),
         NEW k \in Nat, NEW m \in Nat, k <= m
  PROVE  L[k] \subseteq L[m]
<1> DEFINE X == {n \in Nat : k <= n /\ ~(L[k] \subseteq L[n])}
<1> SUFFICES ASSUME X # {} PROVE FALSE
  OBVIOUS
<1>1. PICK n \in X : \A j \in X : n <= j
  <2>1. X \in SUBSET Nat
    OBVIOUS
  <2> HIDE DEF X
  <2> QED BY <2>1, LeastNat
<1>2. n # k /\ n - 1 \in Nat /\ k <= n - 1 /\ n - 1 \notin X
  BY <1>1
<1>3. L[k] \subseteq L[n - 1]
  BY <1>2
<1>4. L[n - 1 + 1] = L[n - 1] \cup OnwardOn(chain, L[n - 1], first)
  BY <1>2 DEF AreLayers
<1>5. n - 1 + 1 = n
  BY <1>1
<1> QED BY <1>1, <1>3, <1>4, <1>5

\* Within is the only function of this kind.
LEMMA WithinIsLayers ==
  ASSUME NEW first, NEW L, AreLayers(L, source, first), NEW k \in Nat
  PROVE  Within(first)[k] = L[k]
<1> DEFINE Body(w) == [n \in Nat |-> IF n = 0 THEN {Suspect}
                                     ELSE w[n - 1] \cup Onward(w[n - 1], first)]
           within == CHOOSE w : w = Body(w)
           X == {n \in Nat : within[n] # L[n]}
<1>1. \A wallets : Onward(wallets, first) = OnwardOn(source, wallets, first)
  BY ShownIsShownOf DEF Onward, OnwardOn, LeadsTo
<1>2. L = Body(L)
  <2>1. \A n \in Nat : n = 0 \/ (n - 1 \in Nat /\ n - 1 + 1 = n)
    OBVIOUS
  <2>2. \A n \in Nat : L[n] = IF n = 0 THEN {Suspect} ELSE L[n - 1] \cup Onward(L[n - 1], first)
    BY <1>1, <2>1 DEF AreLayers
  <2>3. L = [n \in Nat |-> L[n]]
    BY DEF AreLayers
  <2> QED BY <2>2, <2>3
<1>3. within = Body(within)
  <2> HIDE DEF Body
  <2> QED BY <1>2
<1>4. Within(first) = within
  BY DEF Within
<1> HIDE DEF within
<1>5. /\ within[0] = {Suspect}
      /\ \A n \in Nat \ {0} : within[n] = within[n - 1] \cup Onward(within[n - 1], first)
  BY <1>3
<1>6. X = {}
  <2> SUFFICES ASSUME X # {} PROVE FALSE
    OBVIOUS
  <2>1. PICK n \in X : \A j \in X : n <= j
    <3>1. X \in SUBSET Nat
      OBVIOUS
    <3> HIDE DEF X
    <3> QED BY <3>1, LeastNat
  <2>2. n \in Nat \ {0} /\ n - 1 \in Nat /\ n - 1 \notin X
    <3>1. n \in Nat /\ within[n] # L[n]
      BY <2>1
    <3>2. L[0] = {Suspect}
      BY DEF AreLayers
    <3>3. n # 0
      BY <1>5, <3>1, <3>2
    <3>4. n - 1 \in Nat /\ ~(n <= n - 1)
      BY <3>1, <3>3
    <3> HIDE DEF X
    <3> QED BY <2>1, <3>1, <3>3, <3>4
  <2>3. within[n - 1] = L[n - 1]
    BY <2>2
  <2>4. L[n - 1 + 1] = L[n - 1] \cup OnwardOn(source, L[n - 1], first) /\ n - 1 + 1 = n
    BY <2>2 DEF AreLayers
  <2> QED BY <1>1, <1>5, <2>1, <2>2, <2>3, <2>4
<1> QED BY <1>4, <1>6

-----------------------------------------------------------------------------
(* The search is breadth first. *)

Waiting == {frontier[i] : i \in 1 .. Len(frontier)} \cup {n \in {node} : pc = "await"}

\* The queue is in order of distance and holds at most two distances.
Queued ==
    /\ \A i, j \in 1 .. Len(frontier) :
         /\ i <= j => frontier[i].hops <= frontier[j].hops
         /\ frontier[j].hops <= frontier[i].hops + 1
    /\ pc = "await" => \A i \in 1 .. Len(frontier) :
                         node.hops <= frontier[i].hops /\ frontier[i].hops <= node.hops + 1

\* The wallet is among the dead ends, at no more than its distance.
Reported(a, L, dead) ==
    \E d \in ToSet(dead) : d.addr = a /\ \A k \in Nat : a \in L[k] => d.hops <= k

\* The wallet has been asked about: what it led to is seen, and it is reported
\* unless it has sent something.
Asked(a, L, seen, dead, chain, first, last) ==
    /\ LeadsTo(chain, a, first) \subseteq seen
    /\ a # Suspect => SendsOn(chain, a, last) \/ Reported(a, L, dead)

\* No walk that waits is longer than the distance of its wallet; and a wallet that
\* was near enough when the search began, and is seen, waits or has been asked about.
NearFirst(L) ==
    /\ AreLayers(L, source, began)
    /\ Suspect \in visited
    /\ \A n \in Waiting : \A k \in Nat : n.addr \in L[k] => n.hops <= k
    /\ \A a \in visited \cap L[MaxHops - 1] :
         \/ \E n \in Waiting : n.addr = a
         \/ Asked(a, L, visited, deadEnds, source, began, listed)

\* While all that wait are at least m hops away, what is within m hops is seen.
LEMMA LevelSeen ==
  ASSUME NEW L, NearFirst(L), NEW m \in 0 .. MaxHops,
         \A n \in Waiting : n.hops \in Nat /\ m <= n.hops
  PROVE  L[m] \subseteq visited
<1> DEFINE X == {j \in 0 .. m : ~(L[j] \subseteq visited)}
<1> SUFFICES ASSUME X # {} PROVE FALSE
  <2>1. m \in 0 .. m
    BY LiveConstantsOK
  <2> QED BY <2>1
<1>1. PICK j \in X : \A i \in X : j <= i
  <2>1. X \in SUBSET Nat
    BY LiveConstantsOK
  <2> HIDE DEF X
  <2> QED BY <2>1, LeastNat
<1>2. m \in Nat /\ j \in Nat /\ j <= m /\ m <= MaxHops /\ MaxHops \in Nat \ {0}
  BY <1>1, LiveConstantsOK
<1>3. AreLayers(L, source, began) /\ Suspect \in visited
  BY DEF NearFirst
<1>4. j # 0
  BY <1>1, <1>3 DEF AreLayers
<1>5. j - 1 \in Nat /\ j - 1 \in 0 .. m /\ j - 1 < m /\ j - 1 + 1 = j /\ ~(j <= j - 1)
  BY <1>2, <1>4
<1>6. L[j - 1] \subseteq visited
  BY <1>1, <1>5
<1>7. L[j] = L[j - 1] \cup OnwardOn(source, L[j - 1], began)
  BY <1>3, <1>5 DEF AreLayers
<1>8. ASSUME NEW a \in L[j - 1] PROVE LeadsTo(source, a, began) \subseteq visited
  <2>1. a \in L[MaxHops - 1]
    <3>1. MaxHops - 1 \in Nat /\ j - 1 <= MaxHops - 1
      BY <1>2, <1>5
    <3> QED BY <1>3, <1>5, <3>1, LayersGrow
  <2>2. ~\E n \in Waiting : n.addr = a
    <3> SUFFICES ASSUME NEW n \in Waiting, n.addr = a PROVE FALSE
      OBVIOUS
    <3>1. n.hops <= j - 1
      BY <1>5 DEF NearFirst
    <3>2. n.hops \in Nat /\ m <= n.hops
      OBVIOUS
    <3> QED BY <1>2, <1>5, <3>1, <3>2
  <2>3. Asked(a, L, visited, deadEnds, source, began, listed)
    BY <1>6, <2>1, <2>2 DEF NearFirst
  <2> QED BY <2>3 DEF Asked
<1>9. L[j] \subseteq visited
  BY <1>6, <1>7, <1>8 DEF OnwardOn
<1> QED BY <1>1, <1>9

\* What the loop has done after k rows of the answer.
LoopDid(w, s, k) ==
    /\ visited \subseteq w.seen
    /\ Len(frontier) <= Len(w.queue)
    /\ \A i \in 1 .. Len(frontier) : w.queue[i] = frontier[i]
    /\ \A i \in Len(frontier) + 1 .. Len(w.queue) :
         w.queue[i].hops = node.hops + 1 /\ w.queue[i].addr \notin visited
    /\ \A a \in w.seen \ visited : node.hops + 1 < MaxHops =>
         \E i \in Len(frontier) + 1 .. Len(w.queue) : w.queue[i].addr = a
    /\ \A j \in 1 .. k : IsHop(Tx(s[j]), node.addr) => Tx(s[j]).to \in w.seen

LEMMA FollowDid ==
  ASSUME SearchTyped, NEW s, NEW k \in Nat, NEW w \in Carried, LoopDid(w, s, k)
  PROVE  LoopDid(Follow(s[k + 1], w), s, k + 1)
<1> DEFINE i == s[k + 1]
           v == Follow(i, w)
           to == Tx(i).to
<1>1. /\ w.seen \in SUBSET Party /\ w.queue \in Seq(Trail(source, listed))
      /\ Len(w.queue) \in Nat /\ Len(frontier) \in Nat /\ node.hops \in Nat
  BY DEF Carried, SearchTyped, Trail, Node
<1>2. \A j \in 1 .. k + 1 : j \in 1 .. k \/ j = k + 1
  OBVIOUS
<1>3. CASE ~(IsOutgoing(i) /\ Fresh(i, w.seen))
  <2>1. v = w
    BY <1>3 DEF Follow
  <2>2. IsHop(Tx(i), node.addr) => to \in w.seen
    BY <1>3 DEF IsHop, IsOutgoing, Fresh
  <2> HIDE DEF v
  <2>3. \A j \in 1 .. k + 1 : IsHop(Tx(s[j]), node.addr) => Tx(s[j]).to \in w.seen
    BY <1>2, <2>2 DEF LoopDid
  <2>4. LoopDid(v, s, k + 1)
    BY <2>1, <2>3 DEF LoopDid
  <2> QED BY <2>4 DEF v
<1>4. CASE IsOutgoing(i) /\ Fresh(i, w.seen)
  <2>1. v = [seen |-> w.seen \cup {to}, queue |-> Enqueue(Extend(i), w.queue)]
    BY <1>4 DEF Follow
  <2>2. to \notin w.seen /\ to \notin visited
    BY <1>4 DEF Fresh, LoopDid
  <2>3. Extend(i).hops = node.hops + 1 /\ Extend(i).addr = to
    BY DEF Extend
  <2> DEFINE e == Extend(i)
             q == v.queue
  <2>4. v.seen = w.seen \cup {to} /\ q = Enqueue(e, w.queue)
    BY <2>1
  <2> HIDE DEF v, e, to, q
  <2>5. /\ \/ q = Append(w.queue, e) /\ node.hops + 1 < MaxHops
           \/ q = w.queue /\ ~(node.hops + 1 < MaxHops)
        /\ e.hops = node.hops + 1 /\ e.addr = to
    BY <2>3, <2>4 DEF Enqueue, e
  <2>6. /\ Len(q) \in Nat /\ Len(w.queue) <= Len(q)
        /\ \A j \in 1 .. Len(w.queue) : q[j] = w.queue[j]
        /\ \A j \in Len(w.queue) + 1 .. Len(q) :
             q[j].hops = node.hops + 1 /\ q[j].addr = to
        /\ node.hops + 1 < MaxHops =>
             Len(q) = Len(w.queue) + 1 /\ q[Len(q)].addr = to
    <3>1. CASE q = w.queue /\ ~(node.hops + 1 < MaxHops)
      BY <1>1, <3>1
    <3>2. CASE q = Append(w.queue, e) /\ node.hops + 1 < MaxHops
      <4>1. /\ Len(q) = Len(w.queue) + 1 /\ q[Len(q)] = e
            /\ \A j \in 1 .. Len(w.queue) : q[j] = w.queue[j]
        BY <1>1, <3>2, AppendProperties
      <4>2. \A j \in Len(w.queue) + 1 .. Len(q) : j = Len(q)
        BY <1>1, <4>1
      <4> QED BY <1>1, <2>5, <4>1, <4>2
    <3> QED BY <2>5, <3>1, <3>2
  <2>7. visited \subseteq v.seen /\ Len(frontier) <= Len(q)
    BY <1>1, <2>4, <2>6 DEF LoopDid
  <2>8. \A j \in 1 .. Len(frontier) : q[j] = frontier[j]
    BY <1>1, <2>6 DEF LoopDid
  <2>9. ASSUME NEW j \in Len(frontier) + 1 .. Len(q)
        PROVE  q[j].hops = node.hops + 1 /\ q[j].addr \notin visited
    <3>1. CASE j \in Len(frontier) + 1 .. Len(w.queue)
      <4>1. j \in 1 .. Len(w.queue)
        BY <1>1, <3>1
      <4> QED BY <2>6, <3>1, <4>1 DEF LoopDid
    <3>2. CASE j \notin Len(frontier) + 1 .. Len(w.queue)
      <4>1. j \in Len(w.queue) + 1 .. Len(q)
        BY <1>1, <2>6, <3>2
      <4> QED BY <2>2, <2>6, <4>1
    <3> QED BY <3>1, <3>2
  <2>10. ASSUME NEW a \in v.seen \ visited, node.hops + 1 < MaxHops
         PROVE  \E j \in Len(frontier) + 1 .. Len(q) : q[j].addr = a
    <3>1. CASE a = to
      <4>1. Len(q) \in Len(frontier) + 1 .. Len(q) /\ q[Len(q)].addr = a
        BY <1>1, <2>6, <2>10, <3>1 DEF LoopDid
      <4> QED BY <4>1
    <3>2. CASE a # to
      <4>1. PICK j \in Len(frontier) + 1 .. Len(w.queue) : w.queue[j].addr = a
        BY <2>4, <2>10, <3>2 DEF LoopDid
      <4>2. j \in Len(frontier) + 1 .. Len(q) /\ j \in 1 .. Len(w.queue)
        BY <1>1, <2>6
      <4> QED BY <2>6, <4>1, <4>2
    <3> QED BY <3>1, <3>2
  <2>11. ASSUME NEW j \in 1 .. k + 1, IsHop(Tx(s[j]), node.addr)
         PROVE  Tx(s[j]).to \in v.seen
    BY <1>2, <2>4, <2>11 DEF LoopDid, to, i
  <2>12. LoopDid(v, s, k + 1)
    BY <2>7, <2>8, <2>9, <2>10, <2>11 DEF LoopDid, q
  <2> QED BY <2>12 DEF v
<1> QED BY <1>3, <1>4

LEMMA FollowedDid ==
  ASSUME SearchTyped, source \in Chains,
         NEW s \in Seq(Touching(node.addr) \cap 1 .. listed)
  PROVE  Followed(s) \in Carried /\ LoopDid(Followed(s), s, Len(s))
<1>1. PICK F : Loops(F, s)
  BY LoopExists
<1>2. Len(s) \in Nat
  OBVIOUS
<1>3. /\ F \in [0 .. Len(s) -> Carried] /\ F[0] = [seen |-> visited, queue |-> frontier]
      /\ \A k \in 1 .. Len(s) : F[k] = Follow(s[k], F[k - 1])
      /\ Followed(s) = F[Len(s)]
  BY <1>1 DEF Loops
<1> DEFINE X == {k \in 0 .. Len(s) : ~LoopDid(F[k], s, k)}
<1>4. X = {}
  <2> SUFFICES ASSUME X # {} PROVE FALSE
    OBVIOUS
  <2>1. PICK k \in X : \A j \in X : k <= j
    <3>1. X \in SUBSET Nat
      BY <1>2
    <3> HIDE DEF X
    <3> QED BY <3>1, LeastNat
  <2>2. LoopDid(F[0], s, 0)
    <3>1. F[0].seen = visited /\ F[0].queue = frontier /\ Len(frontier) \in Nat
      BY <1>3 DEF SearchTyped
    <3>2. Len(frontier) + 1 .. Len(frontier) = {} /\ 1 .. 0 = {}
      BY <3>1
    <3> QED BY <3>1, <3>2 DEF LoopDid
  <2>3. k \in 1 .. Len(s) /\ k - 1 \in Nat /\ k - 1 \in 0 .. Len(s) /\ k - 1 + 1 = k
        /\ ~(k <= k - 1)
    BY <1>2, <2>1, <2>2
  <2>4. LoopDid(F[k - 1], s, k - 1)
    BY <2>1, <2>3
  <2>5. LoopDid(Follow(s[k], F[k - 1]), s, k)
    BY <1>3, <2>3, <2>4, FollowDid
  <2> QED BY <1>3, <2>1, <2>3, <2>5
<1>5. Len(s) \in 0 .. Len(s)
  BY <1>2
<1> QED BY <1>3, <1>4, <1>5

\* While the node is asked about, what is within its distance is seen.
LEMMA NodeLevelSeen ==
  ASSUME SearchTyped, pc = "await", Queued, NEW L, NearFirst(L),
         NEW k \in Nat, k <= node.hops
  PROVE  L[k] \subseteq visited
<1>1. node.hops \in 0 .. MaxHops - 1 /\ MaxHops \in Nat \ {0}
  BY LiveConstantsOK DEF SearchTyped, Trail, Node
<1>2. ASSUME NEW n \in Waiting PROVE n.hops \in Nat /\ node.hops <= n.hops
  <2>1. CASE n = node
    BY <1>1, <2>1
  <2>2. CASE n # node
    <3>1. PICK i \in 1 .. Len(frontier) : n = frontier[i]
      BY <2>2 DEF Waiting
    <3>2. n \in Node
      BY <3>1, ElementOfSeq DEF SearchTyped, Trail
    <3> QED BY <1>1, <3>1, <3>2 DEF Queued, Node
  <2> QED BY <2>1, <2>2
<1>3. k \in 0 .. MaxHops
  BY <1>1
<1>4. \A n \in Waiting : n.hops \in Nat /\ k <= n.hops
  BY <1>1, <1>2
<1> QED BY <1>3, <1>4, LevelSeen

\* A full answer shows where the wallet led to when the search began, and an answer
\* of which something is followed shows that it has sent something.
LEMMA AnswerAsks ==
  ASSUME SearchTyped, source \in Chains, NEW s \in Answers, Promise!Complete(s),
         Len(s) # TxLimit
  PROVE  /\ \A to \in LeadsTo(source, node.addr, began) :
              \E k \in 1 .. Len(s) : IsHop(Tx(s[k]), node.addr) /\ Tx(s[k]).to = to
         /\ ~Idle(s) => SendsOn(source, node.addr, listed)
<1>1. s \in Seq(Touching(node.addr) \cap 1 .. listed)
  BY AnswersAreSeq
<1>2. DOMAIN s = 1 .. Len(s) /\ \A k \in 1 .. Len(s) : s[k] \in Touching(node.addr) \cap 1 .. listed
  BY <1>1, LenProperties, ElementOfSeq
<1>3. \A i \in Touching(node.addr) \cap 1 .. since : \E k \in 1 .. Len(s) : s[k] = i
  BY <1>2 DEF Promise!Complete, Promise!Rows
<1>4. ASSUME NEW to \in LeadsTo(source, node.addr, began)
      PROVE  \E k \in 1 .. Len(s) : IsHop(Tx(s[k]), node.addr) /\ Tx(s[k]).to = to
  <2>1. PICK i \in Touched[source][node.addr] \cap 1 .. began :
           /\ IsHop(ToCanonical(LedgerOf(source)[i], node.addr), node.addr)
           /\ ToCanonical(LedgerOf(source)[i], node.addr).to = to
    BY DEF LeadsTo, ShownOf
  <2>2. i \in Touching(node.addr) \cap 1 .. since
    BY <2>1 DEF Touching, SearchTyped
  <2>3. PICK k \in 1 .. Len(s) : s[k] = i
    BY <1>3, <2>2
  <2> QED BY <2>1, <2>3 DEF Tx, Ledger
<1>5. ASSUME ~Idle(s) PROVE SendsOn(source, node.addr, listed)
  <2>1. PICK k \in 1 .. Len(s) : IsOutgoing(s[k])
    BY <1>2, <1>5 DEF Idle
  <2>2. s[k] \in Touched[source][node.addr] \cap 1 .. listed
    BY <1>2 DEF Touching
  <2>3. Leaves(ToCanonical(LedgerOf(source)[s[k]], node.addr), node.addr)
    BY <2>1 DEF IsOutgoing, Tx, Ledger
  <2> QED BY <2>2, <2>3 DEF SendsOn, ShownOf
<1> QED BY <1>4, <1>5

\* A wallet that has been asked about stays so.
LEMMA AskedStays ==
  ASSUME NEW a, NEW L, NEW chain, NEW first, NEW last \in Nat, NEW more \in Nat, last <= more,
         NEW seen, NEW wider, seen \subseteq wider,
         NEW dead, NEW longer, ToSet(dead) \subseteq ToSet(longer),
         Asked(a, L, seen, dead, chain, first, last)
  PROVE  Asked(a, L, wider, longer, chain, first, more)
<1>1. SendsOn(chain, a, last) => SendsOn(chain, a, more)
  <2>1. \A i \in 1 .. last : i \in 1 .. more
    OBVIOUS
  <2> QED BY <2>1 DEF SendsOn, ShownOf
<1> QED BY <1>1 DEF Asked, Reported

LEMMA HearsIdleNear ==
  ASSUME SearchTyped, pc = "await", Queued, NEW L, NearFirst(L),
         NEW s \in Answers, Hears(s), Promise!Complete(s), Len(s) # TxLimit,
         Idle(s), node.hops > 0
  PROVE  Queued' /\ NearFirst(L)'
<1>1. /\ deadEnds' = Append(deadEnds, node) /\ pc' = "pop"
      /\ UNCHANGED <<visited, frontier, source, listed, began, node>>
  BY DEF Hears, Expand
<1>2. ToSet(deadEnds') = ToSet(deadEnds) \cup {node}
  BY <1>1, AppendAdds DEF SearchTyped
<1>3. /\ source \in Chains /\ DOMAIN s = 1 .. Len(s)
      /\ listed \in Nat
  BY AnswersAreSeq DEF SearchTyped, Searching
<1>4. Queued'
  BY <1>1 DEF Queued
<1>5. Waiting = {frontier[i] : i \in 1 .. Len(frontier)} \cup {node}
      /\ Waiting' = {frontier[i] : i \in 1 .. Len(frontier)}
  BY <1>1 DEF Waiting
<1>6. ASSUME NEW a \in visited \cap L[MaxHops - 1], ~\E n \in Waiting' : n.addr = a
      PROVE  Asked(a, L, visited, deadEnds', source, began, listed)
  <2>1. CASE Asked(a, L, visited, deadEnds, source, began, listed)
    BY <1>2, <1>3, <2>1, AskedStays
  <2>2. CASE a = node.addr
    <3>1. LeadsTo(source, a, began) = {}
      <4>1. \A k \in 1 .. Len(s) : ~IsHop(Tx(s[k]), node.addr)
        BY <1>3 DEF Idle, IsOutgoing, IsHop
      <4> QED BY <1>3, <2>2, <4>1, AnswerAsks
    <3>2. Reported(a, L, deadEnds')
      BY <1>2, <1>5, <2>2 DEF Reported, NearFirst
    <3> QED BY <3>1, <3>2 DEF Asked
  <2>3. a = node.addr \/ Asked(a, L, visited, deadEnds, source, began, listed)
    BY <1>5, <1>6 DEF NearFirst
  <2> QED BY <2>1, <2>2, <2>3
<1>7. \A n \in Waiting' : n \in Waiting
  BY <1>5
<1>8. AreLayers(L, source, began)'
  <2>1. AreLayers(L, source, began)
    BY DEF NearFirst
  <2> QED BY <1>1, <2>1
<1> QED BY <1>1, <1>4, <1>6, <1>7, <1>8 DEF NearFirst

LEMMA HearsOnNear ==
  ASSUME SearchTyped, pc = "await", Queued, NEW L, NearFirst(L),
         NEW s \in Answers, Hears(s), Promise!Complete(s), Len(s) # TxLimit,
         ~(Idle(s) /\ node.hops > 0)
  PROVE  Queued' /\ NearFirst(L)'
<1> DEFINE w == Followed(s)
           q == w.queue
           h == node.hops
<1>1. /\ visited' = w.seen /\ frontier' = q /\ pc' = "pop"
      /\ UNCHANGED <<deadEnds, source, listed, began, node>>
  BY DEF Hears, Expand
<1>2. source \in Chains /\ listed \in Nat /\ s \in Seq(Touching(node.addr) \cap 1 .. listed)
  BY AnswersAreSeq DEF SearchTyped, Searching
<1>3. w \in Carried /\ LoopDid(w, s, Len(s))
  BY <1>2, FollowedDid
<1> HIDE DEF w
<1>4. /\ visited \subseteq w.seen
      /\ Len(frontier) <= Len(q)
      /\ \A i \in 1 .. Len(frontier) : q[i] = frontier[i]
      /\ \A i \in Len(frontier) + 1 .. Len(q) : q[i].hops = h + 1 /\ q[i].addr \notin visited
      /\ \A a \in w.seen \ visited : h + 1 < MaxHops =>
           \E i \in Len(frontier) + 1 .. Len(q) : q[i].addr = a
      /\ \A j \in 1 .. Len(s) : IsHop(Tx(s[j]), node.addr) => Tx(s[j]).to \in w.seen
  BY <1>3 DEF LoopDid
<1>5. /\ Len(q) \in Nat /\ Len(frontier) \in Nat /\ h \in 0 .. MaxHops - 1 /\ h \in Nat
      /\ MaxHops \in Nat \ {0}
  BY <1>3, LiveConstantsOK DEF Carried, SearchTyped, Trail, Node
<1>6. \A i \in 1 .. Len(q) : i \in 1 .. Len(frontier) \/ i \in Len(frontier) + 1 .. Len(q)
  BY <1>5
<1>7. \A i \in 1 .. Len(frontier) :
         /\ frontier[i].hops \in Nat /\ h <= frontier[i].hops /\ frontier[i].hops <= h + 1
         /\ i \in 1 .. Len(q)
  <2>1. \A i \in 1 .. Len(frontier) : frontier[i] \in Node
    BY ElementOfSeq DEF SearchTyped, Trail
  <2>2. \A i \in 1 .. Len(frontier) : frontier[i].hops \in Nat
    BY <1>5, <2>1 DEF Node
  <2>3. \A i \in 1 .. Len(frontier) : h <= frontier[i].hops /\ frontier[i].hops <= h + 1
    BY DEF Queued
  <2>4. \A i \in 1 .. Len(frontier) : i \in 1 .. Len(q)
    BY <1>4, <1>5
  <2> QED BY <2>2, <2>3, <2>4
<1>8. Queued'
  <2>1. ASSUME NEW i \in 1 .. Len(q), NEW j \in 1 .. Len(q)
        PROVE  (i <= j => q[i].hops <= q[j].hops) /\ q[j].hops <= q[i].hops + 1
    <3>1. CASE i \in 1 .. Len(frontier) /\ j \in 1 .. Len(frontier)
      <4>1. q[i] = frontier[i] /\ q[j] = frontier[j]
        BY <1>4, <3>1
      <4> QED BY <3>1, <4>1 DEF Queued
    <3>2. CASE i \in 1 .. Len(frontier) /\ j \in Len(frontier) + 1 .. Len(q)
      <4>1. q[i] = frontier[i] /\ q[j].hops = h + 1
        BY <1>4, <3>2
      <4>2. q[i].hops \in Nat /\ h <= q[i].hops /\ q[i].hops <= h + 1
        BY <1>7, <3>2, <4>1
      <4> QED BY <1>5, <4>1, <4>2
    <3>3. CASE i \in Len(frontier) + 1 .. Len(q) /\ j \in 1 .. Len(frontier)
      <4>1. ~(i <= j)
        BY <1>5, <3>3
      <4>2. q[i].hops = h + 1 /\ q[j] = frontier[j]
        BY <1>4, <3>3
      <4>3. q[j].hops \in Nat /\ q[j].hops <= h + 1
        BY <1>7, <3>3, <4>2
      <4> QED BY <1>5, <4>1, <4>2, <4>3
    <3>4. CASE i \in Len(frontier) + 1 .. Len(q) /\ j \in Len(frontier) + 1 .. Len(q)
      BY <1>4, <1>5, <3>4
    <3>5. /\ i \in 1 .. Len(frontier) \/ i \in Len(frontier) + 1 .. Len(q)
          /\ j \in 1 .. Len(frontier) \/ j \in Len(frontier) + 1 .. Len(q)
      BY <1>6
    <3> HIDE DEF q
    <3> QED BY <3>1, <3>2, <3>3, <3>4, <3>5
  <2> HIDE DEF q
  <2> QED BY <1>1, <2>1 DEF Queued
<1>9. /\ Waiting = {frontier[i] : i \in 1 .. Len(frontier)} \cup {node}
      /\ Waiting' = {q[i] : i \in 1 .. Len(q)}
  BY <1>1 DEF Waiting
<1>10. ASSUME NEW n \in Waiting', NEW k \in Nat, n.addr \in L[k] PROVE n.hops <= k
  <2>1. PICK i \in 1 .. Len(q) : n = q[i]
    BY <1>9
  <2>2. CASE i \in 1 .. Len(frontier)
    <3>1. n \in Waiting
      BY <1>4, <1>9, <2>1, <2>2
    <3> QED BY <1>10, <3>1 DEF NearFirst
  <2>3. CASE i \in Len(frontier) + 1 .. Len(q)
    <3>1. n.hops = h + 1 /\ n.addr \notin visited
      BY <1>4, <2>1, <2>3
    <3>2. ~(k <= h)
      BY <1>10, <3>1, NodeLevelSeen
    <3> QED BY <1>5, <3>1, <3>2
  <2> QED BY <1>6, <2>2, <2>3
<1>11. \A n \in Waiting : n # node => n \in Waiting'
  <2>1. ASSUME NEW i \in 1 .. Len(frontier) PROVE frontier[i] \in Waiting'
    <3>1. i \in 1 .. Len(q) /\ q[i] = frontier[i]
      BY <1>4, <1>7
    <3> QED BY <1>9, <3>1
  <2> QED BY <1>9, <2>1
<1>12. ASSUME NEW a \in w.seen \cap L[MaxHops - 1], ~\E n \in Waiting' : n.addr = a
       PROVE  Asked(a, L, w.seen, deadEnds, source, began, listed)
  <2>1. a \in visited
    <3> SUFFICES ASSUME a \notin visited PROVE FALSE
      OBVIOUS
    <3>1. CASE h + 1 < MaxHops
      <4>1. PICK i \in Len(frontier) + 1 .. Len(q) : q[i].addr = a
        BY <1>4, <1>12, <3>1
      <4>2. i \in 1 .. Len(q)
        BY <1>5
      <4> QED BY <1>9, <1>12, <4>1, <4>2
    <3>2. CASE ~(h + 1 < MaxHops)
      <4>1. MaxHops - 1 \in Nat /\ MaxHops - 1 <= h
        BY <1>5, <3>2
      <4> QED BY <1>12, <4>1, NodeLevelSeen
    <3> QED BY <3>1, <3>2
  <2>2. CASE Asked(a, L, visited, deadEnds, source, began, listed)
    BY <1>2, <1>4, <2>2, AskedStays
  <2>3. CASE a = node.addr
    <3>1. LeadsTo(source, a, began) \subseteq w.seen
      <4>1. \A to \in LeadsTo(source, node.addr, began) :
              \E k \in 1 .. Len(s) : IsHop(Tx(s[k]), node.addr) /\ Tx(s[k]).to = to
        BY <1>2, AnswerAsks
      <4> QED BY <1>4, <2>3, <4>1
    <3>2. ASSUME a # Suspect PROVE SendsOn(source, a, listed)
      <4>1. h # 0
        <5>1. IsTrail(node, source)
          BY DEF SearchTyped, Trail
        <5> QED BY <2>3, <3>2, <5>1 DEF IsTrail
      <4>2. ~Idle(s)
        BY <1>5, <4>1
      <4> QED BY <1>2, <2>3, <4>2, AnswerAsks
    <3> QED BY <3>1, <3>2 DEF Asked
  <2>4. a = node.addr \/ Asked(a, L, visited, deadEnds, source, began, listed)
    BY <1>11, <1>12, <2>1 DEF NearFirst
  <2> QED BY <2>2, <2>3, <2>4
<1>13. AreLayers(L, source, began)' /\ Suspect \in visited'
  BY <1>1, <1>4 DEF NearFirst, AreLayers, OnwardOn
<1>14. ASSUME NEW a \in visited' \cap L[MaxHops - 1]
       PROVE  \/ \E n \in Waiting' : n.addr = a
              \/ Asked(a, L, visited', deadEnds', source', began', listed')
  BY <1>1, <1>12
<1> HIDE DEF q
<1> QED BY <1>8, <1>10, <1>13, <1>14 DEF NearFirst

LEMMA NearStays ==
  ASSUME NEW L, NearFirst(L), Waiting' = Waiting,
         UNCHANGED <<source, listed, began, visited, deadEnds>>
  PROVE  NearFirst(L)'
<1>1. AreLayers(L, source', began') /\ Suspect \in visited'
  BY DEF NearFirst
<1>2. \A n \in Waiting' : \A k \in Nat : n.addr \in L[k] => n.hops <= k
  BY DEF NearFirst
<1>3. ASSUME NEW a \in visited' \cap L[MaxHops - 1]
      PROVE  \/ \E n \in Waiting' : n.addr = a
             \/ Asked(a, L, visited', deadEnds', source', began', listed')
  <2>1. \/ \E n \in Waiting : n.addr = a
        \/ Asked(a, L, visited, deadEnds, source, began, listed)
    BY <1>3 DEF NearFirst
  <2> QED BY <2>1
<1> QED BY <1>1, <1>2, <1>3 DEF NearFirst

LEMMA PopNear ==
  ASSUME SearchTyped, Pop, Queued, NEW L, NearFirst(L)
  PROVE  Queued' /\ NearFirst(L)'
<1>1. /\ frontier # <<>> /\ node' = Head(frontier) /\ frontier' = Tail(frontier)
      /\ pc = "pop" /\ pc' = "await"
      /\ UNCHANGED <<source, listed, began, visited, deadEnds>>
  BY DEF Pop
<1>2. /\ frontier \in Seq(Trail(source, listed)) /\ Len(frontier) \in Nat \ {0}
      /\ node' = frontier[1] /\ Len(frontier') = Len(frontier) - 1
      /\ \A i \in 1 .. Len(frontier) - 1 : frontier'[i] = frontier[i + 1]
  <2>1. frontier \in Seq(Trail(source, listed))
    BY DEF SearchTyped
  <2> QED BY <1>1, <2>1, HeadTailProperties, EmptySeq
<1>3. \A i \in 1 .. Len(frontier) : frontier[i].hops \in Nat
  <2>1. \A i \in 1 .. Len(frontier) : frontier[i] \in Trail(source, listed)
    BY <1>2, ElementOfSeq
  <2>2. \A n \in Trail(source, listed) : n.hops \in Nat
    BY LiveConstantsOK DEF Trail, Node
  <2> QED BY <2>1, <2>2
<1>4. Queued'
  <2>1. ASSUME NEW i \in 1 .. Len(frontier'), NEW j \in 1 .. Len(frontier')
        PROVE  /\ i <= j => frontier'[i].hops <= frontier'[j].hops
               /\ frontier'[j].hops <= frontier'[i].hops + 1
    <3>1. /\ i + 1 \in 1 .. Len(frontier) /\ j + 1 \in 1 .. Len(frontier)
          /\ frontier'[i] = frontier[i + 1] /\ frontier'[j] = frontier[j + 1]
          /\ i <= j => i + 1 <= j + 1
      BY <1>2
    <3> QED BY <3>1 DEF Queued
  <2>2. ASSUME NEW i \in 1 .. Len(frontier')
        PROVE  node'.hops <= frontier'[i].hops /\ frontier'[i].hops <= node'.hops + 1
    <3>1. /\ 1 \in 1 .. Len(frontier) /\ i + 1 \in 1 .. Len(frontier) /\ 1 <= i + 1
          /\ frontier'[i] = frontier[i + 1]
      BY <1>2
    <3> QED BY <1>2, <3>1 DEF Queued
  <2> QED BY <2>1, <2>2 DEF Queued
<1>5. Waiting = {frontier[i] : i \in 1 .. Len(frontier)}
  BY <1>1 DEF Waiting
<1>6. Waiting' = {frontier'[i] : i \in 1 .. Len(frontier')} \cup {frontier[1]}
  BY <1>1, <1>2 DEF Waiting
<1>7. ASSUME NEW n PROVE n \in Waiting' <=> n \in Waiting
  <2>1. ASSUME n \in Waiting' PROVE n \in Waiting
    <3>1. CASE n = frontier[1]
      BY <1>2, <1>5, <3>1
    <3>2. CASE n # frontier[1]
      <4>1. PICK i \in 1 .. Len(frontier') : n = frontier'[i]
        BY <1>6, <2>1, <3>2
      <4>2. i + 1 \in 1 .. Len(frontier) /\ n = frontier[i + 1]
        BY <1>2, <4>1
      <4> QED BY <1>5, <4>2
    <3> QED BY <3>1, <3>2
  <2>2. ASSUME n \in Waiting PROVE n \in Waiting'
    <3>1. PICK i \in 1 .. Len(frontier) : n = frontier[i]
      BY <1>5, <2>2
    <3>2. CASE i = 1
      BY <1>6, <3>1, <3>2
    <3>3. CASE i # 1
      <4>1. i - 1 \in 1 .. Len(frontier') /\ i - 1 + 1 = i
        BY <1>2, <3>3
      <4>2. frontier'[i - 1] = frontier[i]
        BY <1>2, <4>1
      <4> QED BY <1>6, <3>1, <4>1, <4>2
    <3> QED BY <3>2, <3>3
  <2> QED BY <2>1, <2>2
<1>8. Waiting' = Waiting
  BY <1>7
<1> QED BY <1>1, <1>4, <1>8, NearStays

LEMMA GrowNear ==
  ASSUME SearchTyped, Grow, Queued, NEW L, NearFirst(L)
  PROVE  Queued' /\ NearFirst(L)'
<1>1. /\ listed' = listed + 1
      /\ UNCHANGED <<pc, source, began, visited, frontier, deadEnds, node>>
  BY DEF Grow, heard
<1>2. Queued' /\ Waiting' = Waiting
  BY <1>1 DEF Queued, Waiting
<1>3. listed \in Nat /\ listed + 1 \in Nat /\ listed <= listed + 1
  BY DEF SearchTyped
<1>4. ASSUME NEW a, Asked(a, L, visited, deadEnds, source, began, listed)
      PROVE  Asked(a, L, visited, deadEnds, source, began, listed + 1)
  BY <1>3, <1>4, AskedStays
<1>5. AreLayers(L, source, began)'
  <2>1. AreLayers(L, source, began)
    BY DEF NearFirst
  <2> QED BY <1>1, <2>1
<1>6. ASSUME NEW a \in visited' \cap L[MaxHops - 1]
      PROVE  \/ \E n \in Waiting' : n.addr = a
             \/ Asked(a, L, visited', deadEnds', source', began', listed')
  <2>1. \/ \E n \in Waiting' : n.addr = a
        \/ Asked(a, L, visited, deadEnds, source, began, listed + 1)
    BY <1>1, <1>2, <1>4, <1>6 DEF NearFirst
  <2> QED BY <1>1, <2>1
<1>7. Suspect \in visited' /\ \A n \in Waiting' : \A k \in Nat : n.addr \in L[k] => n.hops <= k
  BY <1>1, <1>2 DEF NearFirst
<1>8. \A a \in visited' \cap L[MaxHops - 1] :
        \/ \E n \in Waiting' : n.addr = a
        \/ Asked(a, L, visited', deadEnds', source', began', listed')
  BY <1>6
<1>9. NearFirst(L)'
  BY <1>5, <1>7, <1>8 DEF NearFirst
<1> QED BY <1>2, <1>9

\* A search begins with the wallet it starts from.
LEMMA RequestNear ==
  ASSUME ProvidersTyped, NEW chain \in Chains \cup {Unknown}, Request(chain), Searching'
  PROVE  /\ Queued' /\ \E L : NearFirst(L)'
         /\ outcome' = "none"
<1>1. /\ pc' = "pop" /\ source' = chain /\ outcome' = "none" /\ chain \in DOMAIN registry
      /\ frontier' = <<Start>> /\ visited' = {Suspect} /\ node' = Start
      /\ listed' \in 0 .. Len(LedgerOf(chain)) /\ began' = listed'
  <2>1. ~Enter("done", chain, "unknown") /\ ~Enter("done", chain, "offline")
    BY DEF Enter, Searching
  <2> QED BY <2>1 DEF Request
<1>2. chain \in Chains
  BY <1>1 DEF ProvidersTyped, Request
<1>3. PICK n \in Nat : n = began'
  BY <1>1, LedgerIsSeq
<1>4. PICK L : AreLayers(L, chain, n)
  BY <1>2, LayersExist
<1>5. Len(frontier') = 1 /\ frontier'[1] = Start
  BY <1>1
<1>6. Waiting' = {Start}
  <2>1. 1 .. Len(frontier') = {1}
    BY <1>5
  <2> QED BY <1>1, <1>5, <2>1 DEF Waiting
<1>7. Start.hops = 0 /\ Start.addr = Suspect
  BY DEF Start
<1>8. Queued'
  <2>1. \A i \in 1 .. Len(frontier') : frontier'[i].hops = 0
    BY <1>5, <1>7
  <2> QED BY <1>1, <2>1 DEF Queued
<1>9. NearFirst(L)'
  <2>1. AreLayers(L, source, began)'
    BY <1>1, <1>3, <1>4
  <2>2. \A m \in Waiting' : \A k \in Nat : m.addr \in L[k] => m.hops <= k
    BY <1>6, <1>7
  <2>3. \A a \in visited' : \E m \in Waiting' : m.addr = a
    BY <1>1, <1>6, <1>7
  <2> QED BY <1>1, <2>1, <2>2, <2>3 DEF NearFirst
<1> QED BY <1>1, <1>8, <1>9

\* NothingMissed, over the layers L.
SawAll(L) ==
    /\ AreLayers(L, source, began)
    /\ L[MaxHops] \subseteq visited
    /\ \A k \in 1 .. MaxHops - 1 : \A a \in L[k] \ {Suspect} :
         SendsOn(source, a, listed) \/ \E d \in ToSet(deadEnds) : d.addr = a /\ d.hops <= k

\* When nothing waits, everything within the budget has been asked about.
LEMMA NothingWaits ==
  ASSUME SearchTyped, pc = "pop", frontier = <<>>, NEW L, NearFirst(L)
  PROVE  SawAll(L)
<1>1. Waiting = {}
  BY DEF Waiting
<1>2. MaxHops \in Nat \ {0} /\ MaxHops \in 0 .. MaxHops
  BY LiveConstantsOK
<1>3. L[MaxHops] \subseteq visited
  BY <1>1, <1>2, LevelSeen
<1>4. AreLayers(L, source, began)
  BY DEF NearFirst
<1>5. ASSUME NEW k \in 1 .. MaxHops - 1, NEW a \in L[k] \ {Suspect}
      PROVE  \/ SendsOn(source, a, listed)
             \/ \E d \in ToSet(deadEnds) : d.addr = a /\ d.hops <= k
  <2>1. /\ k \in Nat /\ MaxHops - 1 \in Nat /\ k <= MaxHops - 1 /\ k <= MaxHops
    BY <1>2
  <2>2. a \in L[MaxHops - 1] /\ a \in L[MaxHops]
    BY <1>2, <1>4, <2>1, LayersGrow
  <2>3. Asked(a, L, visited, deadEnds, source, began, listed)
    BY <1>1, <1>3, <2>2 DEF NearFirst
  <2> QED BY <1>5, <2>1, <2>3 DEF Asked, Reported
<1> QED BY <1>3, <1>4, <1>5 DEF SawAll

SearchInv ==
    /\ Searching => outcome = "none"
    /\ Searching /\ ~partial => Queued /\ \E L : NearFirst(L)
    /\ outcome = "answered" /\ ~partial /\ Len(deadEnds) < MaxCandidates =>
         \E L : SawAll(L)

LEMMA SearchInvHolds == Spec => [](SearchTyped /\ SearchInv)
<1>1. Init => SearchInv
  BY DEF Init, SearchInv, Searching
<1>2. ProvidersTyped /\ SearchTyped /\ SearchInv /\ [Next]_vars => SearchInv'
  <2> SUFFICES ASSUME ProvidersTyped, SearchTyped, SearchInv, [Next]_vars PROVE SearchInv'
    OBVIOUS
  <2>1. ASSUME NEW L, UNCHANGED <<source, began, listed, visited, deadEnds>>, SawAll(L)
        PROVE  SawAll(L)'
    BY <2>1 DEF SawAll, AreLayers, OnwardOn
  <2>2. CASE UNCHANGED vars
    <3>1. /\ UNCHANGED <<pc, source, listed, began, visited, frontier, deadEnds>>
          /\ UNCHANGED <<partial, node, outcome>>
      BY <2>2 DEF vars, heard
    <3>2. Queued' <=> Queued
      BY <3>1 DEF Queued
    <3>3. ASSUME NEW L, NearFirst(L) PROVE NearFirst(L)'
      <4>1. Waiting' = Waiting
        BY <3>1 DEF Waiting
      <4> QED BY <3>1, <3>3, <4>1, NearStays
    <3>4. Searching' <=> Searching
      BY <3>1 DEF Searching
    <3> QED BY <2>1, <3>1, <3>2, <3>3, <3>4 DEF SearchInv
  <2>3. CASE Calling
    BY <2>3 DEF Calling, Enter, SearchInv, Searching
  <2>4. ASSUME NEW chain \in Chains \cup {Unknown}, Request(chain) PROVE SearchInv'
    <3>1. CASE Searching'
      BY <2>4, <3>1, RequestNear DEF SearchInv
    <3>2. CASE ~Searching'
      <4>1. Enter("done", chain, "unknown") \/ Enter("done", chain, "offline")
        BY <2>4, <3>2 DEF Request, Searching
      <4> QED BY <3>2, <4>1 DEF Enter, SearchInv
    <3> QED BY <3>1, <3>2
  <2>5. CASE Pop
    <3>1. pc = "pop" /\ outcome' = outcome /\ partial' = partial /\ Searching
      BY <2>5 DEF Pop, Searching
    <3> QED BY <2>5, <3>1, PopNear DEF SearchInv
  <2>6. CASE Grow
    <3>1. outcome' = outcome /\ partial' = partial /\ Searching
      BY <2>6 DEF Grow, heard
    <3> QED BY <2>6, <3>1, GrowNear DEF SearchInv
  <2>7. CASE Finish
    <3>1. /\ pc = "pop" /\ Searching /\ ~Searching' /\ pc' = "done"
          /\ frontier = <<>> \/ Len(deadEnds) >= MaxCandidates
          /\ UNCHANGED <<source, listed, began, visited, deadEnds, partial>>
      BY <2>7 DEF Finish, Searching, heard
    <3>2. ASSUME ~partial', Len(deadEnds') < MaxCandidates PROVE \E L : SawAll(L)'
      <4>1. ~partial /\ frontier = <<>>
        <5>1. Len(deadEnds) \in Nat /\ MaxCandidates \in Nat
          BY LiveConstantsOK DEF SearchTyped
        <5> QED BY <3>1, <3>2, <5>1
      <4>2. PICK L : NearFirst(L)
        BY <3>1, <4>1 DEF SearchInv
      <4>3. SawAll(L)
        BY <3>1, <4>1, <4>2, NothingWaits
      <4> QED BY <2>1, <3>1, <4>3
    <3> QED BY <3>1, <3>2 DEF SearchInv
  <2>8. CASE Refused \/ Fails
    BY <2>8 DEF Refused, Fails, Lose, SearchInv, Searching
  <2>9. CASE HearsAll
    <3>1. PICK s \in Answers : Hears(s) /\ Promise!Complete(s)
                               /\ partial' = (partial \/ Len(s) = TxLimit)
      BY <2>9 DEF HearsAll
    <3>2. pc = "await" /\ Searching /\ outcome' = outcome
      BY <2>9, <3>1 DEF HearsAll, Hears, Searching
    <3>3. ASSUME ~partial' PROVE Queued' /\ \E L : NearFirst(L)'
      <4>1. ~partial /\ Len(s) # TxLimit
        BY <3>1, <3>3
      <4>2. Queued
        BY <3>2, <4>1 DEF SearchInv
      <4>3. PICK L : NearFirst(L)
        BY <3>2, <4>1 DEF SearchInv
      <4> QED BY <3>1, <3>2, <4>1, <4>2, <4>3, HearsIdleNear, HearsOnNear
    <3> QED BY <3>2, <3>3 DEF SearchInv
  <2>10. CASE HearsSome
    <3>1. partial' = TRUE /\ outcome' = outcome /\ Searching
      BY <2>10 DEF HearsSome, Hears, Searching
    <3> QED BY <3>1 DEF SearchInv
  <2> QED BY <2>2, <2>3, <2>4, <2>5, <2>6, <2>7, <2>8, <2>9, <2>10 DEF Next, Step
<1> QED BY <1>1, <1>2, AlwaysTyped, PTL DEF Spec

\* A search that every provider answered in full, and that max_candidates did not
\* stop, has seen every wallet within reach when it began, and reports those that
\* have sent nothing at no more than their distance, whatever rows come in
\* meanwhile: for every ledger, hop budget and provider that keeps its promise.
THEOREM AllWithinReachIsSeen == Spec => []NothingMissed
<1>1. SearchTyped /\ SearchInv => NothingMissed
  <2> SUFFICES ASSUME SearchTyped, SearchInv, outcome = "answered", ~partial,
                      Len(deadEnds) < MaxCandidates
               PROVE  /\ Within(began)[MaxHops] \subseteq visited
                      /\ \A k \in 1 .. MaxHops - 1 : \A a \in Within(began)[k] \ {Suspect} :
                           Sends(a, listed) \/ \E d \in ToSet(deadEnds) : d.addr = a /\ d.hops <= k
    BY DEF NothingMissed
  <2>1. PICK L : SawAll(L)
    BY DEF SearchInv
  <2>2. \A k \in Nat : Within(began)[k] = L[k]
    BY <2>1, WithinIsLayers DEF SawAll
  <2>3. MaxHops \in Nat /\ \A k \in 1 .. MaxHops - 1 : k \in Nat
    BY LiveConstantsOK
  <2> QED BY <2>1, <2>2, <2>3, ShownIsShownOf DEF SawAll
<1> QED BY <1>1, SearchInvHolds, PTL

-----------------------------------------------------------------------------
(* Queries of the dataset. *)

\* The places where rows are filed under an address that is not missing.
LEMMA PlacesOfRows ==
  ASSUME NEW d \in Seq(DemoRow), NEW a \in DemoAddress, NEW c \in DemoChain,
         NEW from \in Nat, NEW till \in Nat
  PROVE  /\ Kept(d, a, c, from, till) \subseteq 1 .. 2 * Len(d)
         /\ \A k \in 1 .. 2 * Len(d) :
              /\ RowAt(d, k) \in ToSet(d) /\ RowAt(d, k) \in DemoRow
              /\ TimeOf(d)[k] = RowAt(d, k).time /\ RowAt(d, k).time \in Nat
         /\ \A k \in Kept(d, a, c, from, till) :
              /\ RowAt(d, k).chain = c /\ a \in {RowAt(d, k).from, RowAt(d, k).to}
              /\ Inside(RowAt(d, k), from, till)
         /\ \A r \in ToSet(d) :
              r.chain = c /\ a \in {r.from, r.to} /\ Inside(r, from, till) =>
                \E k \in Kept(d, a, c, from, till) : RowAt(d, k) = r
<1>1. Len(d) \in Nat /\ DOMAIN d = 1 .. Len(d) /\ \A i \in 1 .. Len(d) : d[i] \in DemoRow
  BY LenProperties, ElementOfSeq
<1>2. a # NoAddress
  BY DemoConstantsOK
<1>3. ASSUME NEW k \in 1 .. 2 * Len(d)
      PROVE  /\ RowAt(d, k) \in ToSet(d) /\ RowAt(d, k) \in DemoRow
             /\ TimeOf(d)[k] = RowAt(d, k).time /\ RowAt(d, k).time \in Nat
  <2>1. (k + 1) \div 2 \in 1 .. Len(d)
    BY <1>1
  <2>2. RowAt(d, k) \in ToSet(d) /\ RowAt(d, k) \in DemoRow
    BY <1>1, <2>1 DEF RowAt, ToSet
  <2>3. RowAt(d, k).time \in Nat
    BY <2>2 DEF DemoRow
  <2> QED BY <2>2, <2>3 DEF TimeOf
<1>4. Kept(d, a, c, from, till) \subseteq 1 .. 2 * Len(d)
  BY DEF Kept, Indexed, Filed
<1>5. ASSUME NEW k \in Kept(d, a, c, from, till)
      PROVE  /\ RowAt(d, k).chain = c /\ a \in {RowAt(d, k).from, RowAt(d, k).to}
             /\ Inside(RowAt(d, k), from, till)
  <2>1. EndAt(d, k) = a /\ RowAt(d, k).chain = c /\ Inside(RowAt(d, k), from, till)
    BY DEF Kept, Indexed
  <2> QED BY <2>1 DEF EndAt
<1>6. ASSUME NEW r \in ToSet(d), r.chain = c, a \in {r.from, r.to}, Inside(r, from, till)
      PROVE  \E k \in Kept(d, a, c, from, till) : RowAt(d, k) = r
  <2>1. PICK i \in 1 .. Len(d) : d[i] = r
    BY <1>1 DEF ToSet
  <2>2. PICK k \in {2 * i - 1, 2 * i} : a = IF k = 2 * i THEN r.to ELSE r.from
    <3>1. 2 * i - 1 # 2 * i
      BY <1>1
    <3> QED BY <1>6, <3>1
  <2>3. k \in 1 .. 2 * Len(d) /\ (k + 1) \div 2 = i /\ (k % 2 = 1 <=> k # 2 * i)
    BY <1>1, <2>2
  <2>4. RowAt(d, k) = r /\ EndAt(d, k) = a
    BY <2>1, <2>2, <2>3 DEF RowAt, EndAt
  <2>5. k \in Indexed(d, a, c)
    BY <1>2, <1>6, <2>3, <2>4 DEF Indexed, Filed
  <2> QED BY <1>6, <2>4, <2>5 DEF Kept
<1> QED BY <1>3, <1>4, <1>5, <1>6

\* A query keeps the promise of a history.
Answered(s, d, a, c, from, till, limit) ==
    /\ s \in Seq(DemoRow) /\ Len(s) <= limit
    /\ \A i \in 1 .. Len(s) :
         s[i] \in ToSet(d) /\ s[i].chain = c /\ a \in {s[i].from, s[i].to}
         /\ Inside(s[i], from, till)
    /\ \A i, j \in 1 .. Len(s) : i < j => s[i].time <= s[j].time
    /\ \A r \in ToSet(d) :
         r.chain = c /\ a \in {r.from, r.to} /\ Inside(r, from, till) =>
           \/ \E i \in 1 .. Len(s) : s[i] = r
           \/ Len(s) = limit /\ \A i \in 1 .. Len(s) : s[i].time <= r.time

LEMMA QueryAnswers ==
  ASSUME NEW d \in Seq(DemoRow), NEW a \in DemoAddress, NEW c \in DemoChain,
         NEW from \in Nat, NEW till \in Nat, NEW limit \in Nat
  PROVE  Answered(Query(d, a, c, from, till, limit), d, a, c, from, till, limit)
<1> DEFINE kept == Kept(d, a, c, from, till)
           time == TimeOf(d)
           places == Leading(kept, time, limit)
           s == Query(d, a, c, from, till, limit)
<1>1. /\ kept \subseteq 1 .. 2 * Len(d)
      /\ \A k \in 1 .. 2 * Len(d) :
           /\ RowAt(d, k) \in ToSet(d) /\ RowAt(d, k) \in DemoRow
           /\ time[k] = RowAt(d, k).time /\ RowAt(d, k).time \in Nat
      /\ \A k \in kept :
           /\ RowAt(d, k).chain = c /\ a \in {RowAt(d, k).from, RowAt(d, k).to}
           /\ Inside(RowAt(d, k), from, till)
      /\ \A r \in ToSet(d) :
           r.chain = c /\ a \in {r.from, r.to} /\ Inside(r, from, till) =>
             \E k \in kept : RowAt(d, k) = r
  BY PlacesOfRows
<1>2. s = RowsAt(d, places)
  BY DEF Query
<1> HIDE DEF kept, time, s
<1>3. kept \subseteq Nat /\ IsFiniteSet(kept)
  <2>1. Len(d) \in Nat
    BY LenProperties
  <2>2. 1 \in Int /\ 2 * Len(d) \in Int
    BY <2>1
  <2>3. IsFiniteSet(1 .. 2 * Len(d))
    BY <2>2, FS_Interval
  <2>4. kept \subseteq 1 .. 2 * Len(d)
    BY <1>1
  <2>5. IsFiniteSet(kept)
    BY <2>3, <2>4, FS_Subset
  <2>6. 1 .. 2 * Len(d) \subseteq Nat
    BY <2>1
  <2> QED BY <2>4, <2>5, <2>6
<1>4. \A k \in kept : time[k] \in Int
  BY <1>1
<1>5. PICK m \in 0 .. limit :
         /\ places \in [1 .. m -> kept]
         /\ \A k, l \in 1 .. m : k < l => time[places[k]] <= time[places[l]]
         /\ \A i \in kept : \/ \E k \in 1 .. m : places[k] = i
                            \/ m = limit /\ \A k \in 1 .. m : time[places[k]] <= time[i]
  <2>1. Leads(places, kept, time, limit)
    BY <1>3, <1>4, LeadingSorts
  <2> HIDE DEF places
  <2> QED BY <2>1 DEF Leads
<1> HIDE DEF places
<1>6. /\ m \in Nat /\ m <= limit
      /\ \A k \in 1 .. m : places[k] \in kept /\ places[k] \in 1 .. 2 * Len(d)
  <2>1. m \in Nat /\ m <= limit
    BY <1>5
  <2>2. places \in [1 .. m -> kept]
    BY <1>5
  <2>3. \A k \in 1 .. m : places[k] \in kept
    BY <2>2
  <2>4. kept \subseteq 1 .. 2 * Len(d)
    BY <1>1
  <2> QED BY <2>1, <2>3, <2>4
<1>7. s \in [1 .. m -> DemoRow] /\ \A k \in 1 .. m : s[k] = RowAt(d, places[k])
  BY <1>1, <1>2, <1>5, <1>6 DEF RowsAt
<1>8. s \in Seq(DemoRow) /\ Len(s) = m
  BY <1>6, <1>7, FunctionIsSeq
<1>9. \A i \in 1 .. m :
        /\ s[i] \in ToSet(d) /\ s[i].chain = c /\ a \in {s[i].from, s[i].to}
        /\ Inside(s[i], from, till) /\ s[i].time = time[places[i]]
  BY <1>1, <1>6, <1>7
<1>10. \A i, j \in 1 .. m : i < j => s[i].time <= s[j].time
  BY <1>5, <1>9
<1>11. ASSUME NEW r \in ToSet(d), r.chain = c, a \in {r.from, r.to}, Inside(r, from, till)
       PROVE  \/ \E i \in 1 .. m : s[i] = r
              \/ m = limit /\ \A i \in 1 .. m : s[i].time <= r.time
  <2>1. PICK k \in kept : RowAt(d, k) = r
    BY <1>1, <1>11
  <2>2. time[k] = r.time
    BY <1>1, <2>1
  <2>3. CASE \E i \in 1 .. m : places[i] = k
    BY <1>7, <2>1, <2>3
  <2>4. CASE m = limit /\ \A i \in 1 .. m : time[places[i]] <= time[k]
    BY <1>9, <2>2, <2>4
  <2> QED BY <1>5, <2>3, <2>4
<1>12. Answered(s, d, a, c, from, till, limit)
  BY <1>6, <1>8, <1>9, <1>10, <1>11 DEF Answered
<1> QED BY <1>12 DEF s

\* The last answer is what a query of the dataset gives.
DemoInv ==
    /\ dataset \in Seq(DemoRow)
    /\ \/ page = NoPage
       \/ \E a \in DemoAddress, c \in DemoChain, from, till \in Times, limit \in Limits :
            page = [addr |-> a, chain |-> c, from |-> from, till |-> till, limit |-> limit,
                    rows |-> Query(dataset, a, c, from, till, limit)]

LEMMA DemoInvHolds == Spec => []DemoInv
<1>1. Init => DemoInv
  <2> SUFFICES ASSUME Init PROVE DemoInv
    OBVIOUS
  <2>1. <<>> \in Seq(DemoRow)
    OBVIOUS
  <2> QED BY <2>1, ProvidersConstantsOK DEF Init, StartUp, DemoInv
<1>2. DemoInv /\ [Next]_vars => DemoInv'
  <2> SUFFICES ASSUME DemoInv, [Next]_vars PROVE DemoInv'
    OBVIOUS
  <2>1. ASSUME dataset' = dataset, page' = page \/ page' = NoPage PROVE DemoInv'
    BY <2>1 DEF DemoInv, NoPage
  <2>2. CASE UNCHANGED vars
    BY <2>1, <2>2 DEF vars, lookedUp
  <2>3. CASE Calling
    <3>1. CASE Serve
      BY <2>1, <3>1 DEF Serve, FromDataset, FromStub, Unconfigured, Retry, Answer, Return, given
    <3>2. CASE Build
      BY <2>1, <3>2 DEF Build, given
    <3>3. ASSUME NEW chain \in Chains, NEW want \in {"height", "health"}, Ask(chain, want)
          PROVE  DemoInv'
      BY <2>1, <3>3 DEF Ask, given
    <3>4. ASSUME NEW a \in DemoAddress, NEW c \in DemoChain, NEW from \in Times,
                 NEW till \in Times, NEW limit \in Limits, QueryDataset(a, c, from, till, limit)
          PROVE  DemoInv'
      <4>1. /\ dataset' = dataset
            /\ page' = [addr |-> a, chain |-> c, from |-> from, till |-> till, limit |-> limit,
                        rows |-> Query(dataset, a, c, from, till, limit)]
        BY <3>4 DEF QueryDataset, given
      <4> QED BY <4>1 DEF DemoInv
    <3> QED BY <2>3, <3>1, <3>2, <3>3, <3>4 DEF Calling, ProviderCall
  <2>4. CASE Step \/ Grow \/ \E chain \in Chains \cup {Unknown} : Request(chain)
    <3>1. dataset' = dataset /\ page' \in {page, NoPage}
      BY <2>4 DEF Step, Pop, Refused, Fails, HearsAll, HearsSome, Hears, Finish, Grow,
                  Request, Lose, lookedUp
    <3> QED BY <2>1, <3>1
  <2> QED BY <2>2, <2>3, <2>4 DEF Next
<1> QED BY <1>1, <1>2, PTL DEF Spec

\* The demo provider answers what the live ones promise, from every dataset, for
\* every address, window and limit.
THEOREM DemoAnswersAreKept == Spec => []DemoKeepsPromise
<1>1. DemoInv => DemoKeepsPromise
  <2> SUFFICES ASSUME DemoInv, page # NoPage
               PROVE  DemoPromise!Sound(page.rows) /\ DemoPromise!Complete(page.rows)
    BY DEF DemoKeepsPromise
  <2>1. PICK a \in DemoAddress, c \in DemoChain, from \in Times, till \in Times,
             limit \in Limits :
           page = [addr |-> a, chain |-> c, from |-> from, till |-> till, limit |-> limit,
                   rows |-> Query(dataset, a, c, from, till, limit)]
    BY DEF DemoInv
  <2>2. from \in Nat /\ till \in Nat /\ limit \in Nat /\ dataset \in Seq(DemoRow)
    BY ProvidersConstantsOK DEF DemoInv
  <2> DEFINE s == page.rows
             T == [r \in DemoRow |-> r.time]
  <2>3. /\ page.addr = a /\ page.chain = c /\ page.from = from /\ page.till = till
        /\ page.limit = limit /\ s = Query(dataset, a, c, from, till, limit)
    BY <2>1
  <2>4. Answered(s, dataset, a, c, from, till, limit)
    BY <2>2, <2>3, QueryAnswers
  <2> HIDE DEF s
  <2>5. \A r \in ToSet(dataset) : r \in DemoRow /\ r.time \in Nat
    <3>1. DOMAIN dataset = 1 .. Len(dataset) /\ \A i \in 1 .. Len(dataset) : dataset[i] \in DemoRow
      BY <2>2, LenProperties, ElementOfSeq
    <3> QED BY <3>1 DEF ToSet, DemoRow
  <2>6. ASSUME NEW r \in ToSet(dataset)
        PROVE  r \in AskedFor <=> r.chain = c /\ a \in {r.from, r.to} /\ Inside(r, from, till)
    <3>1. r.time \in Nat
      BY <2>5
    <3>2. Inside(r, from, till) <=>
            r.time \in {NoTime} \cup (from .. (IF till = 0 THEN r.time ELSE till))
      BY <2>2, <3>1 DEF Inside, NoTime
    <3> QED BY <2>3, <3>2 DEF AskedFor
  <2>7. AskedFor \subseteq ToSet(dataset)
    BY DEF AskedFor
  <2>8. /\ s \in Seq(DemoRow) /\ Len(s) \in Nat /\ DOMAIN s = 1 .. Len(s) /\ Len(s) <= limit
        /\ \A i \in 1 .. Len(s) : s[i] \in AskedFor /\ s[i] \in DemoRow
    <3>1. s \in Seq(DemoRow) /\ Len(s) <= limit
      BY <2>4 DEF Answered
    <3>2. \A i \in 1 .. Len(s) : s[i] \in AskedFor
      BY <2>4, <2>6 DEF Answered
    <3> QED BY <2>5, <2>7, <3>1, <3>2, LenProperties
  <2>9. DemoPromise!Rows(s) = {s[i] : i \in 1 .. Len(s)}
    BY <2>8 DEF DemoPromise!Rows
  <2>10. DemoPromise!Sound(s)
    <3>1. DemoPromise!Rows(s) \subseteq ToSet(dataset) \cap AskedFor
      BY <2>7, <2>8, <2>9
    <3>2. ASSUME NEW i \in 1 .. Len(s) - 1 PROVE T[s[i]] <= T[s[i + 1]]
      <4>1. i \in 1 .. Len(s) /\ i + 1 \in 1 .. Len(s) /\ i < i + 1
        BY <2>8
      <4>2. s[i].time <= s[i + 1].time
        BY <2>4, <4>1 DEF Answered
      <4> QED BY <2>8, <4>1, <4>2
    <3> QED BY <2>3, <2>8, <3>1, <3>2 DEF DemoPromise!Sound
  <2>11. DemoPromise!Complete(s)
    <3>1. ASSUME NEW r \in AskedFor \ DemoPromise!Rows(s)
          PROVE  Len(s) = limit /\ \A q \in DemoPromise!Rows(s) : T[q] <= T[r]
      <4>1. r \in ToSet(dataset) /\ r \in DemoRow
        BY <2>5, <2>7
      <4>2. ~\E i \in 1 .. Len(s) : s[i] = r
        BY <2>9
      <4>3. Len(s) = limit /\ \A i \in 1 .. Len(s) : s[i].time <= r.time
        BY <2>4, <2>6, <4>1, <4>2 DEF Answered
      <4> QED BY <2>8, <2>9, <4>1, <4>3
    <3> QED BY <2>3, <3>1 DEF DemoPromise!Complete
  <2> QED BY <2>10, <2>11 DEF s
<1> QED BY <1>1, DemoInvHolds, PTL

================================================================================
