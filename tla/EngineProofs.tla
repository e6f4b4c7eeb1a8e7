----------------------------- MODULE EngineProofs -----------------------------
(***************************************************************************)
(* The search and the pipeline around it, for every dataset, tag map, hop  *)
(* budget and candidate cap.                                               *)
(*                                                                         *)
(* The search: its safety properties, and that it finds every exchange,    *)
(* mixer, hub and dead end within the budget at its least distance, for    *)
(* every dataset of one chain (FindsNearest).  Induction is by least       *)
(* counterexample: a nonempty set of naturals has a least element.  The    *)
(* layers of the ledger are handled through a rigid function L that is     *)
(* equal to them; the ledger never changes, so that L stays equal to them  *)
(* in every step.                                                          *)
(*                                                                         *)
(* The pipeline: its safety properties rest on what the search hands over, *)
(* two more facts about the search that only the later stages need, and    *)
(* Ordering being a sort.  The outcome of a run is the one the ledger      *)
(* calls for, for every dataset of one chain: the search finds what there  *)
(* is to find, and nothing of it is lost or counted twice on the way       *)
(* through the filter, the scores and the ranking.                         *)
(***************************************************************************)
EXTENDS Engine, SortingProofs

-----------------------------------------------------------------------------
(* The search: its invariant. *)

KeyOf(n) == <<n.addr, n.chain>>

IsEnd(a) == Role[a] \in {"mixer", "vasp"}

\* A trail no interior wallet of which is a mixer or an exchange.
Clean(n) == IsTrail(n) /\ \A k \in 2 .. n.hops : ~IsEnd(n.path[k])

\* A trail that may be continued.
Open(n) == Clean(n) /\ (n.hops > 0 => ~IsEnd(n.addr))

\* The queue holds distinct, visited wallets within the budget.
FrontierOK ==
    /\ frontier \in Seq(Node)
    /\ \A i \in 1 .. Len(frontier) :
         /\ Open(frontier[i]) /\ frontier[i].hops < MaxHops
         /\ KeyOf(frontier[i]) \in visited
    /\ \A i, j \in 1 .. Len(frontier) :
         KeyOf(frontier[i]) = KeyOf(frontier[j]) => i = j

Budget(c) == MaxHops + (IF c.bridged THEN 1 ELSE 0)

\* Reports are clean trails; those of a mixer, an exchange or a hub are
\* distinct and mark their wallet as visited.
CandidatesOK ==
    /\ candidates \in Seq(Candidate)
    /\ \A i \in 1 .. Len(candidates) :
         /\ Clean(candidates[i]) /\ candidates[i].hops <= Budget(candidates[i])
         /\ candidates[i].role # "dead_end" => KeyOf(candidates[i]) \in visited
    /\ \A i, j \in 1 .. Len(candidates) :
         /\ candidates[i].role # "dead_end" /\ candidates[j].role # "dead_end"
         /\ KeyOf(candidates[i]) = KeyOf(candidates[j])
         => i = j

\* What the loops know: a node under expansion is within the budget, and the
\* transactions still to be looked at leave the node they were fetched for.
LoopOK ==
    /\ pc \in {"pop", "scan", "cross", "done"}
    /\ node \in Node /\ Open(node)
    /\ crossing \in Node /\ Open(crossing)
    /\ outgoing \subseteq DOMAIN ledger /\ downstream \subseteq DOMAIN ledger
    /\ pc \in {"scan", "cross"} =>
         node.hops < MaxHops /\ \A i \in outgoing : ledger[i].from = node.addr
    /\ pc = "cross" =>
         crossing.hops <= MaxHops /\ \A i \in downstream : ledger[i].from = crossing.addr

\* The inductive invariant.
SearchInv ==
    /\ ledger \in Seq(Tx)
    /\ visited \subseteq Addr \X Chain
    /\ FrontierOK
    /\ CandidatesOK
    /\ LoopOK

-----------------------------------------------------------------------------
(* How a trail grows. *)

\* The last element of a longer sequence, and the others.
LEMMA AppendElement ==
  ASSUME NEW S, NEW s \in Seq(S), NEW e
  PROVE  /\ Len(s) \in Nat /\ Len(Append(s, e)) = Len(s) + 1
         /\ Append(s, e)[Len(s) + 1] = e
         /\ \A k \in 1 .. Len(s) : Append(s, e)[k] = s[k]
<1>1. s \in Seq(S \cup {e}) /\ e \in S \cup {e} /\ Len(s) \in Nat
  BY SeqMonotonic, LenProperties
<1> QED BY <1>1, AppendProperties

\* One more transaction that leaves the wallet a trail has reached makes a
\* longer trail, whose interior is clean when the shorter one could go on.
LEMMA ExtendClean ==
  ASSUME ledger \in Seq(Tx), NEW n \in Node, Open(n),
         NEW i \in DOMAIN ledger, ledger[i].from = n.addr, ledger[i].to # NoAddr,
         NEW c \in Chain
  PROVE  /\ Extend(n, i, c) \in Node
         /\ Clean(Extend(n, i, c))
         /\ Extend(n, i, c).hops = n.hops + 1
         /\ KeyOf(Extend(n, i, c)) = <<ledger[i].to, c>>
         /\ ~IsEnd(ledger[i].to) => Open(Extend(n, i, c))
<1> DEFINE e == Extend(n, i, c)
<1>1. /\ ledger[i] \in Tx /\ ledger[i].to \in Addr /\ i \in Nat
      /\ n.path \in Seq(Addr) /\ n.edges \in Seq(Nat) /\ n.hops \in Nat
  <2>1. ledger[i] \in Tx /\ i \in Nat
    <3>1. DOMAIN ledger = 1 .. Len(ledger) /\ Len(ledger) \in Nat
      BY LenProperties
    <3> QED BY <3>1, ElementOfSeq
  <2>2. ledger[i].to \in Addr
    BY <2>1 DEF Tx
  <2>3. n.path \in Seq(Addr) /\ n.edges \in Seq(Nat) /\ n.hops \in Nat
    BY DEF Node
  <2> QED BY <2>1, <2>2, <2>3
<1>2. /\ e.addr = ledger[i].to /\ e.chain = c /\ e.hops = n.hops + 1
      /\ e.path = Append(n.path, ledger[i].to) /\ e.edges = Append(n.edges, i)
  BY DEF Extend
<1>3. e \in Node
  <2>1. /\ Append(n.path, ledger[i].to) \in Seq(Addr) /\ Append(n.edges, i) \in Seq(Nat)
        /\ n.hops + 1 \in Nat
    BY <1>1, AppendProperties
  <2> QED BY <1>1, <2>1 DEF Extend, Node
<1>4. /\ Len(n.path) = n.hops + 1 /\ Len(n.edges) = n.hops
      /\ n.path[1] = Suspect /\ n.path[n.hops + 1] = n.addr
      /\ \A k \in 1 .. n.hops : /\ n.edges[k] \in DOMAIN ledger
                                /\ ledger[n.edges[k]].from = n.path[k]
                                /\ ledger[n.edges[k]].to = n.path[k + 1]
  BY DEF Open, Clean, IsTrail
<1>5. /\ Len(e.path) = n.hops + 2 /\ Len(e.edges) = n.hops + 1
      /\ \A k \in 1 .. n.hops + 1 : e.path[k] = n.path[k]
      /\ e.path[n.hops + 2] = ledger[i].to
      /\ \A k \in 1 .. n.hops : e.edges[k] = n.edges[k]
      /\ e.edges[n.hops + 1] = i
  <2>1. /\ Len(e.path) = n.hops + 2
        /\ \A k \in 1 .. n.hops + 1 : e.path[k] = n.path[k]
        /\ e.path[n.hops + 2] = ledger[i].to
    <3>1. /\ Len(e.path) = Len(n.path) + 1 /\ e.path[Len(n.path) + 1] = ledger[i].to
          /\ \A k \in 1 .. Len(n.path) : e.path[k] = n.path[k]
      BY <1>1, <1>2, AppendElement
    <3>2. Len(n.path) = n.hops + 1 /\ n.hops \in Nat /\ Len(n.path) + 1 = n.hops + 2
      BY <1>1, <1>4
    <3>3. /\ Len(e.path) = n.hops + 2 /\ e.path[n.hops + 2] = ledger[i].to
      BY <3>1, <3>2
    <3>4. \A k \in 1 .. n.hops + 1 : e.path[k] = n.path[k]
      BY <3>1, <3>2
    <3> QED BY <3>3, <3>4
  <2>2. /\ Len(e.edges) = n.hops + 1
        /\ \A k \in 1 .. n.hops : e.edges[k] = n.edges[k]
        /\ e.edges[n.hops + 1] = i
    <3>1. /\ Len(e.edges) = Len(n.edges) + 1 /\ e.edges[Len(n.edges) + 1] = i
          /\ \A k \in 1 .. Len(n.edges) : e.edges[k] = n.edges[k]
      BY <1>1, <1>2, AppendElement
    <3>2. Len(n.edges) = n.hops /\ n.hops \in Nat
      BY <1>1, <1>4
    <3> QED BY <3>1, <3>2
  <2> QED BY <2>1, <2>2
<1> HIDE DEF e
<1>h. e.hops = n.hops + 1 /\ n.hops \in Nat
  BY <1>1, <1>2
<1>6. IsTrail(e)
  <2>1. Len(e.path) = e.hops + 1 /\ Len(e.edges) = e.hops
    BY <1>1, <1>2, <1>5
  <2>2. e.path[1] = Suspect /\ e.path[e.hops + 1] = e.addr
    BY <1>1, <1>2, <1>4, <1>5
  <2>3. ASSUME NEW k \in 1 .. e.hops
        PROVE  /\ e.edges[k] \in DOMAIN ledger
               /\ ledger[e.edges[k]].from = e.path[k]
               /\ ledger[e.edges[k]].to = e.path[k + 1]
    <3>1. CASE k \in 1 .. n.hops
      <4>1. e.edges[k] = n.edges[k] /\ e.path[k] = n.path[k] /\ e.path[k + 1] = n.path[k + 1]
        <5>1. k \in 1 .. n.hops + 1 /\ k + 1 \in 1 .. n.hops + 1
          BY <3>1, <1>h
        <5> QED BY <3>1, <5>1, <1>5
      <4> QED BY <3>1, <4>1, <1>4
    <3>2. CASE k = n.hops + 1
      <4>1. e.edges[k] = i /\ e.path[k] = n.path[k] /\ e.path[k + 1] = ledger[i].to
        <5>1. k \in 1 .. n.hops + 1 /\ k + 1 = n.hops + 2
          BY <3>2, <1>h
        <5> QED BY <3>2, <5>1, <1>5
      <4> QED BY <3>2, <4>1, <1>4
    <3> QED BY <3>1, <3>2, <1>h
  <2> QED BY <2>1, <2>2, <2>3 DEF IsTrail
<1>7. \A k \in 2 .. e.hops : ~IsEnd(e.path[k])
  <2> SUFFICES ASSUME NEW k \in 2 .. e.hops PROVE ~IsEnd(e.path[k])
    OBVIOUS
  <2>1. CASE k \in 2 .. n.hops
    <3>1. k \in 1 .. n.hops + 1
      BY <2>1, <1>h
    <3> QED BY <2>1, <3>1, <1>5 DEF Open, Clean
  <2>2. CASE k = n.hops + 1
    BY <2>2, <1>1, <1>2, <1>4, <1>5 DEF Open
  <2> QED BY <2>1, <2>2, <1>h
<1>8. Clean(e)
  BY <1>6, <1>7 DEF Clean
<1>9. KeyOf(e) = <<ledger[i].to, c>> /\ (~IsEnd(ledger[i].to) => Open(e))
  BY <1>2, <1>8 DEF KeyOf, Open
<1> QED BY <1>h, <1>3, <1>8, <1>9 DEF e

-----------------------------------------------------------------------------
(* What one step may do to the queue and to the reports. *)

\* A trail stays one as long as the dataset does not change.
LEMMA OpenStays ==
  ASSUME ledger' = ledger, NEW n
  PROVE  (Open(n) <=> Open(n)') /\ (Clean(n) <=> Clean(n)')
BY DEF Open, Clean, IsTrail

\* The queue may be left alone while more wallets are visited.
LEMMA FrontierKept ==
  ASSUME FrontierOK, ledger' = ledger, frontier' = frontier, visited \subseteq visited'
  PROVE  FrontierOK'
BY OpenStays DEF FrontierOK

\* Taking the head keeps the queue in order and yields an open trail.
LEMMA FrontierPopped ==
  ASSUME FrontierOK, Pop
  PROVE  /\ FrontierOK'
         /\ Head(frontier) \in Node /\ Open(Head(frontier))
         /\ Head(frontier).hops < MaxHops
<1>1. /\ frontier \in Seq(Node) /\ frontier # <<>> /\ frontier' = Tail(frontier)
      /\ ledger' = ledger /\ visited' = visited
  BY DEF FrontierOK, Pop
<1>2. Len(frontier) \in Nat \ {0} /\ Head(frontier) = frontier[1]
  BY <1>1, EmptySeq
<1>3. Head(frontier) \in Node /\ Open(Head(frontier)) /\ Head(frontier).hops < MaxHops
  BY <1>1, <1>2, HeadTailProperties DEF FrontierOK
<1>4. /\ frontier' \in Seq(Node) /\ Len(frontier') = Len(frontier) - 1
      /\ \A i \in 1 .. Len(frontier') : frontier'[i] = frontier[i + 1]
  BY <1>1, HeadTailProperties
<1>5. \A i \in 1 .. Len(frontier') : i + 1 \in 1 .. Len(frontier)
  BY <1>2, <1>4
<1>6. \A i \in 1 .. Len(frontier') :
        /\ Open(frontier[i])' /\ frontier'[i].hops < MaxHops
        /\ KeyOf(frontier'[i]) \in visited'
  BY <1>1, <1>4, <1>5, OpenStays DEF FrontierOK
<1>7. \A i, j \in 1 .. Len(frontier') :
        KeyOf(frontier'[i]) = KeyOf(frontier'[j]) => i = j
  <2> SUFFICES ASSUME NEW i \in 1 .. Len(frontier'), NEW j \in 1 .. Len(frontier'),
                      KeyOf(frontier'[i]) = KeyOf(frontier'[j])
               PROVE  i = j
    OBVIOUS
  <2>1. i + 1 = j + 1
    BY <1>4, <1>5 DEF FrontierOK
  <2> QED BY <2>1
<1> QED BY <1>3, <1>4, <1>6, <1>7 DEF FrontierOK, KeyOf

\* Queueing a wallet that was not visited before.
LEMMA FrontierPushed ==
  ASSUME FrontierOK, MaxHops \in Nat, ledger' = ledger,
         NEW n \in Node, Open(n), KeyOf(n) \notin visited,
         visited' = visited \cup {KeyOf(n)}, Enqueue(n)
  PROVE  FrontierOK'
<1>1. CASE ~(n.hops < MaxHops)
  BY <1>1, FrontierKept DEF Enqueue
<1>2. CASE n.hops < MaxHops
  <2>1. frontier \in Seq(Node) /\ Len(frontier) \in Nat /\ frontier' = Append(frontier, n)
    BY <1>2, LenProperties DEF FrontierOK, Enqueue
  <2>2. /\ frontier' \in Seq(Node) /\ Len(frontier') = Len(frontier) + 1
        /\ \A i \in 1 .. Len(frontier) : frontier'[i] = frontier[i]
        /\ frontier'[Len(frontier) + 1] = n
    BY <2>1, AppendProperties
  <2>3. \A i \in 1 .. Len(frontier') :
          i \in 1 .. Len(frontier) \/ i = Len(frontier) + 1
    BY <2>1, <2>2
  <2>4. \A i \in 1 .. Len(frontier') :
          /\ Open(frontier[i])' /\ frontier'[i].hops < MaxHops
          /\ KeyOf(frontier'[i]) \in visited'
    BY <1>2, <2>2, <2>3, OpenStays DEF FrontierOK
  <2>5. \A i, j \in 1 .. Len(frontier') :
          KeyOf(frontier'[i]) = KeyOf(frontier'[j]) => i = j
    BY <2>2, <2>3 DEF FrontierOK
  <2> QED BY <2>2, <2>4, <2>5 DEF FrontierOK, KeyOf
<1> QED BY <1>1, <1>2

\* The reports may be left alone while more wallets are visited.
LEMMA CandidatesKept ==
  ASSUME CandidatesOK, ledger' = ledger, candidates' = candidates,
         visited \subseteq visited'
  PROVE  CandidatesOK'
BY OpenStays DEF CandidatesOK, Budget

\* Reporting a clean trail: a dead end, or a wallet not visited before.
LEMMA CandidateReported ==
  ASSUME CandidatesOK, ledger' = ledger,
         NEW n \in Node, Clean(n),
         NEW role \in {"vasp", "mixer", "hub", "dead_end"}, NEW bridged \in BOOLEAN,
         n.hops <= MaxHops + (IF bridged THEN 1 ELSE 0),
         Report(n, role, bridged),
         visited \subseteq visited',
         role # "dead_end" => KeyOf(n) \in visited' \ visited
  PROVE  CandidatesOK'
<1> DEFINE c == AsCandidate(n, role, bridged)
<1>1. /\ c \in Candidate /\ c.hops <= Budget(c) /\ c.role = role /\ KeyOf(c) = KeyOf(n)
  BY DEF AsCandidate, Candidate, Node, Budget, KeyOf
<1>2. Clean(c)'
  <2>1. c.hops = n.hops /\ c.path = n.path /\ c.edges = n.edges /\ c.addr = n.addr
    BY DEF AsCandidate
  <2>2. Clean(c)
    BY <2>1 DEF Clean, IsTrail
  <2> QED BY <2>2, OpenStays
<1> HIDE DEF c
<1>3. /\ candidates \in Seq(Candidate) /\ Len(candidates) \in Nat
      /\ candidates' = Append(candidates, c)
  BY LenProperties DEF CandidatesOK, Report, c
<1>4. /\ candidates' \in Seq(Candidate) /\ Len(candidates') = Len(candidates) + 1
      /\ \A i \in 1 .. Len(candidates) : candidates'[i] = candidates[i]
      /\ candidates'[Len(candidates) + 1] = c
  BY <1>1, <1>3, AppendProperties
<1>5. \A i \in 1 .. Len(candidates') :
        i \in 1 .. Len(candidates) \/ i = Len(candidates) + 1
  BY <1>3, <1>4
<1>6. \A i \in 1 .. Len(candidates') :
        /\ Clean(candidates[i])' /\ candidates'[i].hops <= Budget(candidates'[i])
        /\ candidates'[i].role # "dead_end" => KeyOf(candidates'[i]) \in visited'
  BY <1>1, <1>2, <1>4, <1>5, OpenStays DEF CandidatesOK
<1>7. \A i, j \in 1 .. Len(candidates') :
        /\ candidates'[i].role # "dead_end" /\ candidates'[j].role # "dead_end"
        /\ KeyOf(candidates'[i]) = KeyOf(candidates'[j])
        => i = j
  BY <1>1, <1>4, <1>5 DEF CandidatesOK
<1> QED BY <1>4, <1>6, <1>7 DEF CandidatesOK, KeyOf, Budget

-----------------------------------------------------------------------------
(* The invariant is inductive. *)

\* A search starts with the suspect alone.
LEMMA InitSearchInv == Init => SearchInv
<1> SUFFICES ASSUME Init PROVE SearchInv
  OBVIOUS
<1> USE ConstantsOK
<1>1. Suspect \in Addr /\ SourceChain \in Chain /\ MaxHops \in Nat
  OBVIOUS
<1>2. /\ <<Suspect>> \in Seq(Addr) /\ Len(<<Suspect>>) = 1 /\ <<Suspect>>[1] = Suspect
      /\ <<>> \in Seq(Nat) /\ Len(<<>>) = 0
  BY <1>1
<1>3. Start \in Node /\ Start.hops = 0
  BY <1>1, <1>2 DEF Start, Node
<1>4. Open(Start)
  BY <1>2 DEF Start, Open, Clean, IsTrail
<1>5. FrontierOK
  <2>1. CASE MaxHops < 1
    BY <2>1 DEF Init, FrontierOK
  <2>2. CASE ~(MaxHops < 1)
    <3>1. frontier = <<Start>> /\ visited = {KeyOf(Start)}
      BY <2>2 DEF Init, KeyOf, Start
    <3>2. frontier \in Seq(Node) /\ Len(frontier) = 1 /\ frontier[1] = Start
      BY <3>1, <1>3
    <3> QED BY <1>1, <1>3, <1>4, <2>2, <3>1, <3>2 DEF FrontierOK
  <2> QED BY <2>1, <2>2
<1>6. CandidatesOK
  BY DEF Init, CandidatesOK
<1>7. LoopOK
  BY <1>3, <1>4 DEF Init, LoopOK
<1>8. ledger \in Seq(Tx) /\ visited \subseteq Addr \X Chain
  BY <1>1 DEF Init
<1> QED BY <1>5, <1>6, <1>7, <1>8 DEF SearchInv

\* What a transaction of an address is.
LEMMA OutgoingLeaves ==
  ASSUME NEW a, NEW c
  PROVE  /\ Outgoing(a, c) \subseteq DOMAIN ledger
         /\ \A i \in Outgoing(a, c) : ledger[i].from = a
BY DEF Outgoing, Transactions, Touching

\* The chain a scanned transaction leads to is one of the dataset's.
LEMMA TargetIsChain ==
  ASSUME ledger \in Seq(Tx), NEW i \in DOMAIN ledger, NEW c \in Chain
  PROVE  TargetChain(i, c) \in Chain
<1>1. ledger[i] \in Tx
  BY LenProperties, ElementOfSeq
<1> QED BY <1>1 DEF Tx, TargetChain

\* One turn of the scan.
LEMMA ScanKeepsInv ==
  ASSUME SearchInv, NEW i \in DOMAIN ledger, Scan(i)
  PROVE  SearchInv'
<1> USE ConstantsOK
<1> DEFINE to == ledger[i].to
           c  == TargetChain(i, node.chain)
           n  == Extend(node, i, c)
<1>1. /\ pc = "scan" /\ i \in outgoing /\ outgoing' = outgoing \ {i}
      /\ ledger' = ledger /\ node' = node
  BY DEF Scan, IsFirst
<1>2. /\ ledger \in Seq(Tx) /\ visited \subseteq Addr \X Chain
      /\ FrontierOK /\ CandidatesOK
      /\ node \in Node /\ Open(node) /\ node.hops < MaxHops /\ node.hops \in Nat
      /\ crossing \in Node /\ Open(crossing)
      /\ outgoing \subseteq DOMAIN ledger /\ downstream \subseteq DOMAIN ledger
      /\ \A j \in outgoing : ledger[j].from = node.addr
      /\ MaxHops \in Nat
  BY <1>1 DEF SearchInv, LoopOK, Node
<1>3. Open(node)' /\ Open(crossing)
  BY <1>1, <1>2, OpenStays
<1>4. CASE Skip(i)
  <2>1. FrontierOK' /\ CandidatesOK'
    BY <1>1, <1>2, <1>4, FrontierKept, CandidatesKept DEF Skip
  <2>2. LoopOK'
    BY <1>1, <1>2, <1>3, <1>4, OpenStays DEF Skip, LoopOK
  <2> QED BY <1>1, <1>2, <1>4, <2>1, <2>2 DEF Skip, SearchInv
<1>5. ASSUME Fresh(Key(i)), visited' = visited \cup {Key(i)}
      PROVE  /\ c \in Chain /\ to \in Addr
             /\ n \in Node /\ Clean(n) /\ n.hops = node.hops + 1
             /\ KeyOf(n) = Key(i) /\ Key(i)[2] = c
             /\ ~IsEnd(to) => Open(n)
             /\ KeyOf(n) \in visited' \ visited
             /\ visited \subseteq visited' /\ visited' \subseteq Addr \X Chain
  <2>1. c \in Chain
    BY <1>2, TargetIsChain DEF Node
  <2>2. ledger[i] \in Tx
    BY <1>2, LenProperties, ElementOfSeq
  <2>3. Key(i) = <<to, c>> /\ to # NoAddr /\ Key(i) \notin visited
    BY <1>5 DEF Key, Fresh
  <2>4. to \in Addr
    BY <2>2, <2>3 DEF Tx
  <2>5. /\ n \in Node /\ Clean(n) /\ n.hops = node.hops + 1
        /\ KeyOf(n) = <<to, c>> /\ (~IsEnd(to) => Open(n))
    BY <1>1, <1>2, <2>1, <2>3, ExtendClean
  <2> QED BY <1>2, <1>5, <2>1, <2>3, <2>4, <2>5
<1>6. CASE MeetTerminal(i)
  <2>1. /\ Fresh(Key(i)) /\ visited' = visited \cup {Key(i)}
        /\ Report(n, Classify(to), FALSE) /\ Classify(to) \in {"mixer", "vasp"}
        /\ UNCHANGED <<pc, frontier, crossing, downstream>>
    BY <1>5, <1>6 DEF MeetTerminal, IsTerminal
  <2> HIDE DEF n
  <2>2. FrontierOK'
    BY <1>1, <1>2, <1>5, <2>1, FrontierKept
  <2>3. CandidatesOK'
    <3>1. n.hops <= MaxHops + (IF FALSE THEN 1 ELSE 0)
      BY <1>2, <1>5, <2>1
    <3>2. n \in Node /\ Clean(n) /\ KeyOf(n) \in visited' \ visited /\ visited \subseteq visited'
      BY <1>5, <2>1
    <3> QED BY <1>1, <1>2, <2>1, <3>1, <3>2, CandidateReported
  <2>4. LoopOK'
    BY <1>1, <1>2, <1>3, <2>1, OpenStays DEF LoopOK
  <2> QED BY <1>1, <1>2, <1>5, <2>1, <2>2, <2>3, <2>4 DEF SearchInv
<1>7. CASE MeetBridge(i)
  <2>1. /\ Fresh(Key(i)) /\ visited' = visited \cup {Key(i)}
        /\ Classify(to) = "bridge" /\ UNCHANGED <<frontier, candidates>>
    BY <1>7 DEF MeetBridge
  <2>2. FrontierOK' /\ CandidatesOK'
    BY <1>1, <1>2, <1>5, <2>1, FrontierKept, CandidatesKept
  <2>3. Open(n) /\ n \in Node /\ n.hops <= MaxHops /\ n.addr = to
    BY <1>2, <1>5, <2>1 DEF Classify, IsEnd, Extend
  <2>4. \/ UNCHANGED <<crossing, downstream, pc>>
        \/ crossing' = n /\ downstream' = Outgoing(to, c) /\ pc' = "cross"
    BY <1>5, <1>7, <2>1 DEF MeetBridge
  <2> HIDE DEF n
  <2>5. LoopOK'
    <3>1. CASE UNCHANGED <<crossing, downstream, pc>>
      BY <1>1, <1>2, <1>3, <3>1, OpenStays DEF LoopOK
    <3>2. CASE crossing' = n /\ downstream' = Outgoing(to, c) /\ pc' = "cross"
      <4>1. /\ downstream' \subseteq DOMAIN ledger
            /\ \A j \in downstream' : ledger[j].from = crossing'.addr
        BY <2>3, <3>2, OutgoingLeaves
      <4>2. Open(crossing)'
        BY <1>1, <2>3, <3>2, OpenStays
      <4> QED BY <1>1, <1>2, <1>3, <2>3, <3>2, <4>1, <4>2 DEF LoopOK
    <3> QED BY <2>4, <3>1, <3>2
  <2> QED BY <1>1, <1>2, <1>5, <2>1, <2>2, <2>5 DEF SearchInv
<1>8. CASE MeetHub(i)
  <2>1. /\ Fresh(Key(i)) /\ visited' = visited \cup {Key(i)}
        /\ Report(n, "hub", FALSE)
        /\ UNCHANGED <<pc, frontier, crossing, downstream>>
    BY <1>5, <1>8 DEF MeetHub
  <2> HIDE DEF n
  <2>2. FrontierOK'
    BY <1>1, <1>2, <1>5, <2>1, FrontierKept
  <2>3. CandidatesOK'
    <3>1. n.hops <= MaxHops + (IF FALSE THEN 1 ELSE 0)
      BY <1>2, <1>5, <2>1
    <3>2. n \in Node /\ Clean(n) /\ KeyOf(n) \in visited' \ visited /\ visited \subseteq visited'
      BY <1>5, <2>1
    <3> QED BY <1>1, <1>2, <2>1, <3>1, <3>2, CandidateReported
  <2>4. LoopOK'
    BY <1>1, <1>2, <1>3, <2>1, OpenStays DEF LoopOK
  <2> QED BY <1>1, <1>2, <1>5, <2>1, <2>2, <2>3, <2>4 DEF SearchInv
<1>9. CASE MeetIntermediary(i)
  <2>1. /\ Fresh(Key(i)) /\ visited' = visited \cup {Key(i)}
        /\ Enqueue(n) /\ ~IsEnd(to)
        /\ UNCHANGED <<pc, candidates, crossing, downstream>>
    BY <1>5, <1>9 DEF MeetIntermediary, IsWallet, Classify, IsEnd
  <2> HIDE DEF n
  <2>2. FrontierOK'
    BY <1>1, <1>2, <1>5, <2>1, FrontierPushed
  <2>3. CandidatesOK'
    BY <1>1, <1>2, <1>5, <2>1, CandidatesKept
  <2>4. LoopOK'
    BY <1>1, <1>2, <1>3, <2>1, OpenStays DEF LoopOK
  <2> QED BY <1>1, <1>2, <1>5, <2>1, <2>2, <2>3, <2>4 DEF SearchInv
<1> QED BY <1>4, <1>6, <1>7, <1>8, <1>9 DEF Scan

\* One turn of the loop over what follows a bridge.
LEMMA CrossKeepsInv ==
  ASSUME SearchInv, NEW i \in DOMAIN ledger, Cross(i)
  PROVE  SearchInv'
<1> USE ConstantsOK
<1> DEFINE to == ledger[i].to
           n  == Extend(crossing, i, crossing.chain)
<1>1. /\ pc = "cross" /\ i \in downstream /\ downstream' = downstream \ {i}
      /\ UNCHANGED <<ledger, pc, node, outgoing, crossing>>
  BY DEF Cross, IsFirst
<1>2. /\ ledger \in Seq(Tx) /\ visited \subseteq Addr \X Chain
      /\ FrontierOK /\ CandidatesOK
      /\ crossing \in Node /\ Open(crossing) /\ crossing.hops <= MaxHops
      /\ crossing.hops \in Nat /\ crossing.chain \in Chain /\ Open(node)
      /\ downstream \subseteq DOMAIN ledger
      /\ \A j \in downstream : ledger[j].from = crossing.addr
      /\ MaxHops \in Nat
  BY <1>1 DEF SearchInv, LoopOK, Node
<1>3. LoopOK'
  BY <1>1, <1>2, OpenStays DEF SearchInv, LoopOK
<1>4. CASE SkipFar(i)
  <2>1. FrontierOK' /\ CandidatesOK'
    BY <1>1, <1>2, <1>4, FrontierKept, CandidatesKept DEF SkipFar
  <2> QED BY <1>1, <1>2, <1>3, <1>4, <2>1 DEF SkipFar, SearchInv
<1>5. ASSUME Fresh(FarKey(i)), visited' = visited \cup {FarKey(i)}
      PROVE  /\ n \in Node /\ Clean(n) /\ n.hops = crossing.hops + 1
             /\ KeyOf(n) = FarKey(i)
             /\ ~IsEnd(to) => Open(n)
             /\ KeyOf(n) \in visited' \ visited
             /\ visited \subseteq visited' /\ visited' \subseteq Addr \X Chain
  <2>1. ledger[i] \in Tx
    BY <1>2, LenProperties, ElementOfSeq
  <2>2. FarKey(i) = <<to, crossing.chain>> /\ to # NoAddr /\ FarKey(i) \notin visited
    BY <1>5 DEF FarKey, Fresh
  <2>3. to \in Addr
    BY <2>1, <2>2 DEF Tx
  <2>4. /\ n \in Node /\ Clean(n) /\ n.hops = crossing.hops + 1
        /\ KeyOf(n) = <<to, crossing.chain>> /\ (~IsEnd(to) => Open(n))
    BY <1>1, <1>2, <2>2, ExtendClean
  <2> QED BY <1>2, <1>5, <2>2, <2>3, <2>4
<1>6. CASE MeetFarTerminal(i)
  <2>1. /\ Fresh(FarKey(i)) /\ visited' = visited \cup {FarKey(i)}
        /\ Report(n, Classify(to), TRUE) /\ Classify(to) \in {"mixer", "vasp"}
        /\ UNCHANGED frontier
    BY <1>6 DEF MeetFarTerminal, IsTerminal
  <2> HIDE DEF n
  <2>2. FrontierOK'
    BY <1>1, <1>2, <1>5, <2>1, FrontierKept
  <2>3. CandidatesOK'
    <3>1. n.hops <= MaxHops + (IF TRUE THEN 1 ELSE 0)
      BY <1>2, <1>5, <2>1
    <3>2. n \in Node /\ Clean(n) /\ KeyOf(n) \in visited' \ visited /\ visited \subseteq visited'
      BY <1>5, <2>1
    <3> QED BY <1>1, <1>2, <2>1, <3>1, <3>2, CandidateReported
  <2> QED BY <1>1, <1>2, <1>3, <1>5, <2>1, <2>2, <2>3 DEF SearchInv
<1>7. CASE MeetFarWallet(i)
  <2>1. /\ Fresh(FarKey(i)) /\ visited' = visited \cup {FarKey(i)}
        /\ Enqueue(n) /\ ~IsEnd(to) /\ UNCHANGED candidates
    BY <1>7 DEF MeetFarWallet, IsTerminal, Classify, IsEnd
  <2> HIDE DEF n
  <2>2. FrontierOK'
    BY <1>1, <1>2, <1>5, <2>1, FrontierPushed
  <2>3. CandidatesOK'
    BY <1>1, <1>2, <1>5, <2>1, CandidatesKept
  <2> QED BY <1>1, <1>2, <1>3, <1>5, <2>1, <2>2, <2>3 DEF SearchInv
<1> QED BY <1>4, <1>6, <1>7 DEF Cross

\* Popping a node, to expand it or to report it as a dead end.
LEMMA PopKeepsInv ==
  ASSUME SearchInv, DeadEnd \/ Expand
  PROVE  SearchInv'
<1> USE ConstantsOK
<1> DEFINE h == Head(frontier)
<1>1. /\ Pop /\ pc = "pop" /\ node' = h
      /\ UNCHANGED <<ledger, visited, crossing, downstream>>
  BY DEF DeadEnd, Expand, Pop
<1>2. FrontierOK' /\ h \in Node /\ Open(h) /\ h.hops < MaxHops /\ h.hops \in Nat
  BY <1>1, FrontierPopped DEF SearchInv, Node
<1>3. /\ ledger \in Seq(Tx) /\ visited \subseteq Addr \X Chain
      /\ crossing \in Node /\ Open(crossing) /\ CandidatesOK
      /\ outgoing \subseteq DOMAIN ledger /\ downstream \subseteq DOMAIN ledger
      /\ MaxHops \in Nat /\ SourceChain \in Chain
  BY DEF SearchInv, LoopOK
<1>4. Open(node)' /\ Open(crossing)'
  BY <1>1, <1>2, <1>3, OpenStays
<1> HIDE DEF h
<1>5. CASE DeadEnd
  <2> DEFINE d == [h EXCEPT !.chain = SourceChain]
  <2>1. Report(d, "dead_end", FALSE) /\ UNCHANGED <<pc, outgoing>>
    BY <1>5 DEF DeadEnd, h
  <2>2. /\ d \in Node /\ d.hops = h.hops /\ d.path = h.path
        /\ d.edges = h.edges /\ d.addr = h.addr
    BY <1>2, <1>3 DEF Node
  <2> HIDE DEF d
  <2>3. Clean(d)
    BY <1>2, <2>2 DEF Open, Clean, IsTrail
  <2>4. d.hops <= MaxHops + (IF FALSE THEN 1 ELSE 0)
    BY <1>2, <1>3, <2>2
  <2>5. CandidatesOK'
    BY <1>1, <1>3, <2>1, <2>2, <2>3, <2>4, CandidateReported
  <2>6. LoopOK'
    BY <1>1, <1>2, <1>3, <1>4, <2>1 DEF LoopOK
  <2> QED BY <1>1, <1>2, <1>3, <2>5, <2>6 DEF SearchInv
<1>6. CASE Expand
  <2>1. /\ outgoing' = Outgoing(h.addr, SourceChain) /\ pc' = "scan"
        /\ UNCHANGED candidates
    BY <1>6 DEF Expand, Fetched, h
  <2>2. CandidatesOK'
    BY <1>1, <1>3, <2>1, CandidatesKept
  <2>3. outgoing' \subseteq DOMAIN ledger /\ \A i \in outgoing' : ledger[i].from = h.addr
    BY <2>1, OutgoingLeaves
  <2>4. LoopOK'
    BY <1>1, <1>2, <1>3, <1>4, <2>1, <2>3 DEF LoopOK
  <2> QED BY <1>1, <1>2, <1>3, <2>2, <2>4 DEF SearchInv
<1> QED BY <1>5, <1>6

\* A step that touches neither the queue nor the reports nor what they rest on.
LEMMA QuietKeepsInv ==
  ASSUME SearchInv, Finish \/ EndScan \/ EndCross \/ Returned \/ UNCHANGED vars
  PROVE  SearchInv'
<1>1. /\ UNCHANGED <<ledger, frontier, visited, candidates, node, outgoing,
                     crossing, downstream>>
      /\ pc' = pc \/ (pc = "cross" /\ pc' = "scan") \/ pc' \in {"pop", "done"}
  BY DEF Finish, EndScan, EndCross, Returned, vars
<1>2. FrontierOK' /\ CandidatesOK'
  BY <1>1, FrontierKept, CandidatesKept DEF SearchInv
<1>3. Open(node)' /\ Open(crossing)'
  BY <1>1, OpenStays DEF SearchInv, LoopOK
<1>4. LoopOK'
  BY <1>1, <1>3 DEF SearchInv, LoopOK
<1> QED BY <1>1, <1>2, <1>4 DEF SearchInv

\* No step of the search breaks the invariant.
LEMMA SearchStep == SearchInv /\ [Next]_vars => SearchInv'
<1> SUFFICES ASSUME SearchInv, [Next]_vars PROVE SearchInv'
  OBVIOUS
<1>1. CASE Finish \/ EndScan \/ EndCross \/ Returned \/ UNCHANGED vars
  BY <1>1, QuietKeepsInv
<1>2. CASE DeadEnd \/ Expand
  BY <1>2, PopKeepsInv
<1>3. CASE \E i \in DOMAIN ledger : Scan(i)
  BY <1>3, ScanKeepsInv
<1>4. CASE \E i \in DOMAIN ledger : Cross(i)
  BY <1>4, CrossKeepsInv
<1> QED BY <1>1, <1>2, <1>3, <1>4 DEF Next

\* The invariant holds throughout every search.
THEOREM SearchInvHolds == Spec => []SearchInv
BY InitSearchInv, SearchStep, PTL DEF Spec

-----------------------------------------------------------------------------
(* The properties of Discovery, from the invariant. *)

\* Elements of a sequence's range are its elements.
LEMMA RangeElement ==
  ASSUME NEW S, NEW s \in Seq(S), NEW e \in Range(s)
  PROVE  \E i \in 1 .. Len(s) : s[i] = e
BY LenProperties DEF Range

\* Every wallet a search holds has been reached along a clean trail.
LEMMA WalksAreClean ==
  ASSUME SearchInv
  PROVE  /\ \A n \in Nodes : n \in Node /\ Open(n)
         /\ \A c \in Range(candidates) : c \in Candidate /\ Clean(c)
<1>1. \A n \in Range(frontier) : n \in Node /\ Open(n)
  BY RangeElement, ElementOfSeq DEF SearchInv, FrontierOK
<1>2. \A c \in Range(candidates) : c \in Candidate /\ Clean(c)
  BY RangeElement, ElementOfSeq DEF SearchInv, CandidatesOK
<1> QED BY <1>1, <1>2 DEF Nodes, SearchInv, LoopOK

\* Type correctness of the search, for every dataset and every bound.
THEOREM TypeCorrect == Spec => []TypeOK
<1>1. SearchInv => TypeOK
  BY DEF SearchInv, FrontierOK, CandidatesOK, LoopOK, TypeOK
<1> QED BY <1>1, SearchInvHolds, PTL

\* Every path the search holds or reports is a chain of transactions of the
\* dataset that starts at the suspect.
THEOREM TrailsHold == Spec => []TrailsAreReal
<1>1. SearchInv => TrailsAreReal
  BY WalksAreClean DEF TrailsAreReal, Walks, Open, Clean
<1> QED BY <1>1, SearchInvHolds, PTL

\* No walk ever continues through a mixer or an exchange.
THEOREM MixerStop == Spec => []StopsAtTerminals
<1>1. SearchInv => StopsAtTerminals
  <2> SUFFICES ASSUME SearchInv PROVE StopsAtTerminals
    OBVIOUS
  <2>1. \A n \in Walks : Clean(n)
    BY WalksAreClean DEF Walks, Open
  <2> QED BY <2>1, WalksAreClean DEF StopsAtTerminals, Open, Clean, IsEnd
<1> QED BY <1>1, SearchInvHolds, PTL

\* The budget is exceeded by one hop at most, and only right behind a bridge.
THEOREM BudgetHolds == Spec => []HopBudget
<1>1. SearchInv => HopBudget
  <2> SUFFICES ASSUME SearchInv PROVE HopBudget
    OBVIOUS
  <2>1. \A n \in Range(frontier) : n.hops < MaxHops
    BY RangeElement DEF SearchInv, FrontierOK
  <2>2. \A c \in Range(candidates) : c.hops <= Budget(c)
    BY RangeElement DEF SearchInv, CandidatesOK
  <2> QED BY <2>1, <2>2 DEF HopBudget, Budget
<1> QED BY <1>1, SearchInvHolds, PTL

\* No wallet waits twice, and no mixer, exchange or hub is reported twice.
THEOREM NoDuplicates == Spec => []ReportedOnce
<1>1. SearchInv => ReportedOnce
  <2> SUFFICES ASSUME SearchInv PROVE ReportedOnce
    OBVIOUS
  <2>1. /\ DOMAIN frontier = 1 .. Len(frontier)
        /\ DOMAIN candidates = 1 .. Len(candidates)
    BY LenProperties DEF SearchInv, FrontierOK, CandidatesOK
  <2> QED BY <2>1 DEF ReportedOnce, SearchInv, FrontierOK, CandidatesOK, KeyOf
<1> QED BY <1>1, SearchInvHolds, PTL

-----------------------------------------------------------------------------
(* Layers. *)

\* f lists the layers of the ledger.
AreLayers(f) == f = [k \in Nat |-> IF k = 0 THEN {Suspect} ELSE Onward(f[k - 1])]

\* The layers up to n, as a finite function.
LayersUpTo(n) ==
    {g \in [0 .. n -> SUBSET ({Suspect} \cup {ledger[i].to : i \in DOMAIN ledger})] :
        g[0] = {Suspect} /\ \A k \in 1 .. n : g[k] = Onward(g[k - 1])}

LEMMA FiniteLayersExist == \A n \in Nat : \E g : g \in LayersUpTo(n)
<1> DEFINE X == {n \in Nat : ~\E g : g \in LayersUpTo(n)}
           U == {Suspect} \cup {ledger[i].to : i \in DOMAIN ledger}
<1> SUFFICES ASSUME X # {} PROVE FALSE
  OBVIOUS
<1>1. PICK n \in X : \A m \in X : n <= m
  BY LeastNat
<1>2. [k \in 0 .. 0 |-> {Suspect}] \in LayersUpTo(0)
  BY DEF LayersUpTo
<1>3. n \in Nat \ {0} /\ n - 1 \in Nat /\ n - 1 \notin X
  BY <1>1, <1>2
<1>4. PICK g : g \in LayersUpTo(n - 1)
  BY <1>3
<1> DEFINE h == [k \in 0 .. n |-> IF k < n THEN g[k] ELSE Onward(g[n - 1])]
<1>5. /\ g \in [0 .. n - 1 -> SUBSET U] /\ g[0] = {Suspect}
      /\ \A k \in 1 .. n - 1 : g[k] = Onward(g[k - 1])
  BY <1>4 DEF LayersUpTo
<1>6. Onward(g[n - 1]) \in SUBSET U
  BY <1>3, <1>5 DEF Onward
<1>7. h \in [0 .. n -> SUBSET U]
  BY <1>3, <1>5, <1>6
<1>8. h[0] = {Suspect}
  BY <1>3, <1>5
<1>9. ASSUME NEW k \in 1 .. n PROVE h[k] = Onward(h[k - 1])
  <2>1. k - 1 \in 0 .. n /\ k - 1 < n /\ k \in 0 .. n /\ h[k - 1] = g[k - 1]
    BY <1>3
  <2>2. CASE k = n
    BY <1>3, <2>1, <2>2
  <2>3. CASE k # n
    BY <1>3, <1>5, <2>1, <2>3
  <2> QED BY <2>2, <2>3
<1> HIDE DEF h
<1>10. h \in LayersUpTo(n)
  BY <1>7, <1>8, <1>9 DEF LayersUpTo
<1> QED BY <1>1, <1>10

\* They agree wherever two of them are defined.
LEMMA FiniteLayersAgree ==
  ASSUME NEW m \in Nat, NEW n \in Nat, NEW g \in LayersUpTo(m), NEW h \in LayersUpTo(n),
         NEW k \in Nat, k <= m, k <= n
  PROVE  g[k] = h[k]
<1> DEFINE X == {j \in Nat : j <= m /\ j <= n /\ g[j] # h[j]}
<1> SUFFICES ASSUME X # {} PROVE FALSE
  OBVIOUS
<1>1. PICK j \in X : \A i \in X : j <= i
  BY LeastNat
<1>2. g[0] = h[0]
  BY DEF LayersUpTo
<1>3. j # 0 /\ j - 1 \in Nat /\ j - 1 <= m /\ j - 1 <= n /\ ~(j <= j - 1)
  BY <1>2
<1>4. g[j - 1] = h[j - 1]
  BY <1>1, <1>3
<1>5. j \in 1 .. m /\ j \in 1 .. n
  BY <1>3
<1>6. g[j] = Onward(g[j - 1]) /\ h[j] = Onward(h[j - 1])
  BY <1>5 DEF LayersUpTo
<1> QED BY <1>1, <1>4, <1>6

\* The recursive definition of Layer defines the layers.
LEMMA LayersAre == AreLayers(Layer)
<1> DEFINE G(k) == CHOOSE g : g \in LayersUpTo(k)
           f == [k \in Nat |-> G(k)[k]]
<1>1. \A k \in Nat : G(k) \in LayersUpTo(k)
  BY FiniteLayersExist
<1>2. ASSUME NEW k \in Nat PROVE f[k] = IF k = 0 THEN {Suspect} ELSE Onward(f[k - 1])
  <2>1. CASE k = 0
    BY <1>1, <2>1 DEF LayersUpTo
  <2>2. CASE k # 0
    <3>1. k - 1 \in Nat /\ k - 1 <= k /\ k - 1 <= k - 1 /\ k \in 1 .. k
      BY <2>2
    <3>2. G(k) \in LayersUpTo(k) /\ G(k - 1) \in LayersUpTo(k - 1)
      BY <1>1, <3>1
    <3>3. G(k)[k] = Onward(G(k)[k - 1])
      BY <3>1, <3>2 DEF LayersUpTo
    <3> HIDE DEF G
    <3>4. G(k)[k - 1] = G(k - 1)[k - 1]
      BY <3>1, <3>2, FiniteLayersAgree
    <3> QED BY <2>2, <3>1, <3>3, <3>4
  <2> QED BY <2>1, <2>2
<1> HIDE DEF G
<1>3. f = [k \in Nat |-> IF k = 0 THEN {Suspect} ELSE Onward(f[k - 1])]
  BY <1>2
<1> HIDE DEF f
<1>4. \E g : AreLayers(g)
  BY <1>3 DEF AreLayers
<1>5. Layer = CHOOSE g : AreLayers(g)
  BY DEF Layer, AreLayers
<1> QED BY <1>4, <1>5

\* Layers start at the suspect, go on by one transfer at a time, and grow.
LEMMA LayerSteps ==
  ASSUME NEW L, AreLayers(L)
  PROVE  /\ L[0] = {Suspect}
         /\ \A k \in Nat : L[k + 1] = Onward(L[k])
         /\ \A j, k \in Nat : j <= k => L[j] \subseteq L[k]
<1>1. L[0] = {Suspect}
  BY DEF AreLayers
<1>2. ASSUME NEW k \in Nat PROVE L[k + 1] = Onward(L[k])
  <2>1. k + 1 \in Nat /\ k + 1 # 0 /\ (k + 1) - 1 = k
    OBVIOUS
  <2>2. L[k + 1] = Onward(L[(k + 1) - 1])
    BY <2>1 DEF AreLayers
  <2> QED BY <2>1, <2>2
<1>3. ASSUME NEW j \in Nat, NEW k \in Nat, j <= k PROVE L[j] \subseteq L[k]
  <2> DEFINE X == {i \in Nat : j <= i /\ ~(L[j] \subseteq L[i])}
  <2> SUFFICES ASSUME X # {} PROVE FALSE
    BY <1>3
  <2>1. PICK i \in X : \A m \in X : i <= m
    BY LeastNat
  <2>2. i # j /\ i - 1 \in Nat /\ j <= i - 1 /\ ~(i <= i - 1)
    OBVIOUS
  <2>3. L[j] \subseteq L[i - 1]
    BY <2>1, <2>2
  <2>4. L[i] = Onward(L[i - 1])
    BY <1>2, <2>2
  <2> QED BY <2>3, <2>4 DEF Onward
<1> QED BY <1>1, <1>2, <1>3

\* While the ledger stays, so do its layers.
LEMMA LayersStay ==
  ASSUME ledger' = ledger, NEW L
  PROVE  AreLayers(L) <=> AreLayers(L)'
BY DEF AreLayers, Onward, IsOrdinary, IsHub, Degree

-----------------------------------------------------------------------------
(* The invariant of a search of one chain. *)

\* The ledger has one chain, no answer is cut, and there is something to do.
IsPlain == StaysOnChain /\ Uncut /\ MaxHops >= 1

Seen(a) == <<a, SourceChain>> \in visited

\* The search goes on from a wallet like a.
Passes(a) == a = Suspect \/ IsOrdinary(a)

\* Every transfer of b leads to a wallet already seen.
IsSettled(b) ==
    \A i \in DOMAIN ledger :
      ledger[i].from = b /\ ledger[i].to # NoAddr => Seen(ledger[i].to)

IsQueued(b) == \E j \in 1 .. Len(frontier) : frontier[j].addr = b

\* n is where it is said to be: at its least distance from the suspect.
IsPlaced(L, n) ==
    /\ n.chain = SourceChain /\ n.addr \in L[n.hops]
    /\ n.hops > 0 => n.addr \notin L[n.hops - 1]

\* The role under which a wallet is reported is the one it has.
RoleFits(c) ==
    /\ c.role \in {"vasp", "mixer"} => Role[c.addr] = c.role
    /\ c.role = "hub" => Role[c.addr] = "intermediary" /\ IsHub(c.addr)
    /\ c.role = "dead_end" => IsOrdinary(c.addr) /\ ~HasOutgoing(c.addr) /\ c.hops < MaxHops

\* The queue lists wallets of the present distance, then of the next one.
QueueInOrder(L) ==
    /\ \A j \in 1 .. Len(frontier) :
         /\ IsPlaced(L, frontier[j]) /\ Passes(frontier[j].addr)
         /\ node.hops <= frontier[j].hops /\ frontier[j].hops <= node.hops + 1
    /\ \A j, k \in 1 .. Len(frontier) : j <= k => frontier[j].hops <= frontier[k].hops

\* All that is as near as the node has been seen.
LevelSeen(L) ==
    /\ IsPlaced(L, node) /\ Passes(node.addr) /\ Seen(Suspect)
    /\ \A a \in L[node.hops] : Seen(a)

\* A seen wallet the search goes on from is waiting, under expansion, settled
\* or as far away as the budget reaches.
SeenGoOn(L) ==
    \A b \in Addr : Seen(b) /\ Passes(b) =>
      \/ IsQueued(b)
      \/ pc = "scan" /\ b = node.addr
      \/ IsSettled(b)
      \/ b \notin L[MaxHops - 1]

\* What remains to be looked at is in outgoing.
ScanComplete ==
    pc = "scan" => \A i \in DOMAIN ledger :
      ledger[i].from = node.addr /\ ledger[i].to # NoAddr => i \in outgoing \/ Seen(ledger[i].to)

ReportsPlaced(L) ==
    \A j \in 1 .. Len(candidates) :
      /\ IsPlaced(L, candidates[j]) /\ RoleFits(candidates[j])
      /\ 1 <= candidates[j].hops /\ candidates[j].hops <= MaxHops

IsReported(a) == \E j \in 1 .. Len(candidates) : candidates[j].addr = a

\* A seen wallet is reported, or an ordinary one that is still waiting, has
\* been expanded, or is as far away as the budget reaches.
SeenAreNoted(L) ==
    \A a \in Addr : Seen(a) /\ a # Suspect =>
      \/ IsReported(a)
      \/ IsOrdinary(a) /\ (IsQueued(a) \/ HasOutgoing(a) \/ a \notin L[MaxHops - 1])

NearestInv(L) ==
    /\ pc # "cross"
    /\ QueueInOrder(L)
    /\ LevelSeen(L)
    /\ SeenGoOn(L)
    /\ ScanComplete
    /\ ReportsPlaced(L)
    /\ SeenAreNoted(L)
    /\ pc = "done" => frontier = <<>> \/ Len(candidates) >= MaxCandidates

\* The inductive invariant, whatever function lists the layers.
WalkInv == SearchInv /\ (IsPlain => \A L : AreLayers(L) => NearestInv(L))

-----------------------------------------------------------------------------
(* What a step does to the parts of the invariant. *)

\* A search starts at the suspect, which is all there is at distance 0.
LEMMA InitNearest ==
  ASSUME Init, IsPlain, NEW L, AreLayers(L)
  PROVE  NearestInv(L)
<1> USE ConstantsOK
<1>1. /\ pc = "pop" /\ frontier = <<Start>> /\ Len(frontier) = 1 /\ frontier[1] = Start
      /\ visited = {<<Suspect, SourceChain>>} /\ candidates = <<>> /\ Len(candidates) = 0
      /\ node = Start
  BY DEF Init, IsPlain
<1>2. Start.addr = Suspect /\ Start.chain = SourceChain /\ Start.hops = 0
  BY DEF Start
<1>3. L[0] = {Suspect}
  BY LayerSteps
<1>4. IsPlaced(L, Start) /\ Passes(Suspect)
  BY <1>2, <1>3 DEF IsPlaced, Passes
<1>5. \A a : Seen(a) <=> a = Suspect
  BY <1>1 DEF Seen
<1>6. IsQueued(Suspect)
  BY <1>1, <1>2 DEF IsQueued
<1>7. QueueInOrder(L)
  BY <1>1, <1>2, <1>4 DEF QueueInOrder
<1>8. LevelSeen(L) /\ SeenGoOn(L) /\ SeenAreNoted(L)
  BY <1>1, <1>2, <1>3, <1>4, <1>5, <1>6 DEF LevelSeen, SeenGoOn, SeenAreNoted
<1>9. ScanComplete /\ ReportsPlaced(L)
  BY <1>1 DEF ScanComplete, ReportsPlaced
<1> QED BY <1>1, <1>7, <1>8, <1>9 DEF NearestInv

\* What is said of the queue and of the reports depends on the ledger and on them.
LEMMA PlacesStay ==
  ASSUME NEW L, UNCHANGED <<ledger, candidates>>, ReportsPlaced(L)
  PROVE  ReportsPlaced(L)'
<1>1. \A x : (RoleFits(x) <=> RoleFits(x)') /\ (IsPlaced(L, x) <=> IsPlaced(L, x)')
  BY DEF RoleFits, IsPlaced, IsHub, IsOrdinary, Degree, HasOutgoing
<1> QED BY <1>1 DEF ReportsPlaced

LEMMA QueueStays ==
  ASSUME NEW L, UNCHANGED <<ledger, frontier, node>>, QueueInOrder(L)
  PROVE  QueueInOrder(L)'
<1>1. \A x : (Passes(x) <=> Passes(x)') /\ (IsPlaced(L, x) <=> IsPlaced(L, x)')
  BY DEF Passes, IsPlaced, IsHub, IsOrdinary, Degree
<1> QED BY <1>1 DEF QueueInOrder

\* A report of a wallet at its place, under its own role.
LEMMA PlacedReported ==
  ASSUME SearchInv, ledger' = ledger, NEW L, ReportsPlaced(L),
         NEW n, NEW role, NEW bridged, Report(n, role, bridged), IsPlaced(L, n),
         RoleFits(AsCandidate(n, role, bridged)), 1 <= n.hops, n.hops <= MaxHops
  PROVE  /\ ReportsPlaced(L)'
         /\ IsReported(n.addr)' /\ \A a : IsReported(a) => IsReported(a)'
<1> DEFINE c == AsCandidate(n, role, bridged)
<1>1. /\ candidates \in Seq(Candidate) /\ candidates' = Append(candidates, c)
      /\ c.addr = n.addr /\ c.chain = n.chain /\ c.hops = n.hops /\ RoleFits(c)
  BY DEF SearchInv, CandidatesOK, Report, AsCandidate
<1> HIDE DEF c
<1>2. IsPlaced(L, c) /\ 1 <= c.hops /\ c.hops <= MaxHops
  BY <1>1 DEF IsPlaced
<1>3. /\ Len(candidates) \in Nat /\ Len(candidates') = Len(candidates) + 1
      /\ candidates'[Len(candidates) + 1] = c
      /\ \A k \in 1 .. Len(candidates) : candidates'[k] = candidates[k]
  BY <1>1, AppendElement
<1>4. \A x : (RoleFits(x) <=> RoleFits(x)') /\ (IsPlaced(L, x) <=> IsPlaced(L, x)')
  BY DEF RoleFits, IsPlaced, IsHub, IsOrdinary, Degree, HasOutgoing
<1>5. \A k \in 1 .. Len(candidates') :
        /\ IsPlaced(L, candidates'[k]) /\ RoleFits(candidates'[k])
        /\ 1 <= candidates'[k].hops /\ candidates'[k].hops <= MaxHops
  BY <1>1, <1>2, <1>3 DEF ReportsPlaced
<1>6. ReportsPlaced(L)'
  <2> SUFFICES ASSUME NEW k \in 1 .. Len(candidates')
               PROVE  /\ IsPlaced(L, candidates[k])' /\ RoleFits(candidates[k])'
                      /\ 1 <= candidates'[k].hops /\ candidates'[k].hops <= MaxHops
    BY DEF ReportsPlaced
  <2>1. PICK x : x = candidates'[k]
    OBVIOUS
  <2>2. IsPlaced(L, x)' /\ RoleFits(x)'
    BY <1>4, <1>5, <2>1
  <2> QED BY <1>5, <2>1, <2>2 DEF IsPlaced, RoleFits
<1>7. IsReported(n.addr)'
  BY <1>1, <1>3 DEF IsReported
<1>8. \A a : IsReported(a) => IsReported(a)'
  BY <1>3 DEF IsReported
<1> QED BY <1>6, <1>7, <1>8

\* A wallet of the next distance goes to the end of the queue.
LEMMA PlacedQueued ==
  ASSUME SearchInv, ledger' = ledger, node' = node, NEW L, QueueInOrder(L),
         NEW n, Enqueue(n), IsPlaced(L, n), Passes(n.addr),
         node.hops \in Nat, n.hops = node.hops + 1
  PROVE  /\ QueueInOrder(L)' /\ \A a : IsQueued(a) => IsQueued(a)'
         /\ n.hops < MaxHops => IsQueued(n.addr)'
<1>1. \A x : (Passes(x) <=> Passes(x)') /\ (IsPlaced(L, x) <=> IsPlaced(L, x)')
  BY DEF Passes, IsPlaced, IsOrdinary, IsHub, Degree
<1>2. CASE ~(n.hops < MaxHops)
  <2>1. frontier' = frontier
    BY <1>2 DEF Enqueue
  <2> QED BY <1>2, <2>1 DEF QueueInOrder, IsQueued, Passes, IsPlaced, IsOrdinary, IsHub, Degree
<1>3. CASE n.hops < MaxHops
  <2>1. frontier \in Seq(Node) /\ frontier' = Append(frontier, n)
    BY <1>3 DEF SearchInv, FrontierOK, Enqueue
  <2>2. /\ Len(frontier) \in Nat /\ Len(frontier') = Len(frontier) + 1
        /\ frontier'[Len(frontier) + 1] = n
        /\ \A k \in 1 .. Len(frontier) : frontier'[k] = frontier[k]
    BY <2>1, AppendElement
  <2>3. \A j \in 1 .. Len(frontier) :
          /\ IsPlaced(L, frontier[j]) /\ Passes(frontier[j].addr)
          /\ node.hops <= frontier[j].hops /\ frontier[j].hops <= node.hops + 1
    BY DEF QueueInOrder
  <2>4. \A j \in 1 .. Len(frontier') : j \in 1 .. Len(frontier) \/ j = Len(frontier) + 1
    BY <2>2
  <2>5. \A j \in 1 .. Len(frontier') :
          /\ IsPlaced(L, frontier'[j]) /\ Passes(frontier'[j].addr)
          /\ node.hops <= frontier'[j].hops /\ frontier'[j].hops <= node.hops + 1
    BY <2>2, <2>3, <2>4
  <2>6. ASSUME NEW j \in 1 .. Len(frontier'), NEW k \in 1 .. Len(frontier'), j <= k
        PROVE  frontier'[j].hops <= frontier'[k].hops
    <3>1. CASE k \in 1 .. Len(frontier)
      BY <2>2, <2>6, <3>1 DEF QueueInOrder
    <3>2. CASE k = Len(frontier) + 1
      BY <2>2, <2>5, <3>2
    <3> QED BY <2>4, <3>1, <3>2
  <2>7. QueueInOrder(L)'
    <3>1. ASSUME NEW j \in 1 .. Len(frontier')
          PROVE  IsPlaced(L, frontier[j])' /\ Passes(frontier[j].addr)'
      <4>1. PICK x : x = frontier'[j]
        OBVIOUS
      <4>2. IsPlaced(L, x)' /\ Passes(x.addr)'
        BY <1>1, <2>5, <4>1
      <4> QED BY <4>1, <4>2 DEF IsPlaced, Passes
    <3> QED BY <2>5, <2>6, <3>1 DEF QueueInOrder
  <2>8. IsQueued(n.addr)' /\ \A a : IsQueued(a) => IsQueued(a)'
    BY <2>2 DEF IsQueued
  <2> QED BY <2>7, <2>8
<1> QED BY <1>2, <1>3

\* More reports and more waiting wallets only help.
LEMMA SeenKept ==
  ASSUME ledger' = ledger, NEW L, SeenAreNoted(L),
         \A a : IsReported(a) => IsReported(a)', \A a : IsQueued(a) => IsQueued(a)',
         \A a \in Addr : Seen(a)' /\ ~Seen(a) =>
           IsReported(a)' \/ (IsOrdinary(a) /\ (IsQueued(a)' \/ a \notin L[MaxHops - 1]))
  PROVE  SeenAreNoted(L)'
<1>1. \A a : (IsOrdinary(a) <=> IsOrdinary(a)') /\ (HasOutgoing(a) <=> HasOutgoing(a)')
  BY DEF IsOrdinary, IsHub, Degree, HasOutgoing
<1> SUFFICES ASSUME NEW a \in Addr, Seen(a)', a # Suspect
             PROVE  \/ IsReported(a)'
                    \/ IsOrdinary(a)' /\ (IsQueued(a)' \/ HasOutgoing(a)' \/ a \notin L[MaxHops - 1])
  BY DEF SeenAreNoted
<1>2. CASE Seen(a)
  BY <1>1, <1>2 DEF SeenAreNoted
<1>3. CASE ~Seen(a)
  BY <1>1, <1>3
<1> QED BY <1>2, <1>3

LEMMA GoOnKept ==
  ASSUME ledger' = ledger, pc = "scan", pc' = "scan", node' = node, NEW L, SeenGoOn(L),
         visited \subseteq visited', \A a : IsQueued(a) => IsQueued(a)',
         \A a \in Addr : Seen(a)' /\ ~Seen(a) /\ Passes(a) =>
           IsQueued(a)' \/ a \notin L[MaxHops - 1]
  PROVE  SeenGoOn(L)'
<1>1. \A a : (Passes(a) <=> Passes(a)') /\ (IsSettled(a) => IsSettled(a)')
  BY DEF Passes, IsOrdinary, IsHub, Degree, IsSettled, Seen
<1> SUFFICES ASSUME NEW b \in Addr, Seen(b)', Passes(b)'
             PROVE  \/ IsQueued(b)'
                    \/ pc' = "scan" /\ b = node'.addr
                    \/ IsSettled(b)'
                    \/ b \notin L[MaxHops - 1]
  BY DEF SeenGoOn
<1>2. CASE Seen(b)
  BY <1>1, <1>2 DEF SeenGoOn
<1>3. CASE ~Seen(b)
  BY <1>1, <1>3
<1> QED BY <1>2, <1>3

\* One turn of the scan on one chain: what is new lies one hop farther.
LEMMA ScanNearest ==
  ASSUME SearchInv, IsPlain, NEW L, AreLayers(L), NearestInv(L),
         NEW i \in DOMAIN ledger, Scan(i)
  PROVE  NearestInv(L)'
<1> USE ConstantsOK
<1> DEFINE to == ledger[i].to
           n  == Extend(node, i, SourceChain)
<1>1. /\ pc = "scan" /\ i \in outgoing /\ outgoing' = outgoing \ {i}
      /\ ledger' = ledger /\ node' = node
  BY DEF Scan, IsFirst
<1>2. /\ QueueInOrder(L) /\ LevelSeen(L) /\ SeenGoOn(L) /\ ScanComplete
      /\ ReportsPlaced(L) /\ SeenAreNoted(L)
  BY DEF NearestInv
<1>3. /\ ledger[i].from = node.addr /\ node \in Node /\ node.hops \in Nat
      /\ node.hops < MaxHops /\ MaxHops \in Nat /\ node.chain = SourceChain
      /\ visited \subseteq Addr \X Chain /\ ledger[i] \in Tx
  <2>1. ledger[i].from = node.addr /\ node \in Node /\ node.hops < MaxHops
    BY <1>1 DEF SearchInv, LoopOK
  <2>2. ledger[i] \in Tx
    BY LenProperties, ElementOfSeq DEF SearchInv
  <2> QED BY <1>2, <2>1, <2>2 DEF Node, LevelSeen, IsPlaced, SearchInv
<1>4. Key(i) = <<to, SourceChain>>
  BY <1>3 DEF Key, TargetChain, IsPlain, StaysOnChain
<1>5. /\ n.addr = to /\ n.chain = SourceChain /\ n.hops = node.hops + 1
      /\ \A role : AsCandidate(n, role, FALSE).addr = to
      /\ \A role : AsCandidate(n, role, FALSE).role = role
  BY <1>3 DEF Extend, AsCandidate
<1>n. n = Extend(node, i, Key(i)[2])
  BY <1>4
<1> HIDE DEF n
<1>6. ASSUME to # NoAddr
      PROVE  to \in Addr /\ Role[to] # "bridge" /\ Role[to] \in Tags
  BY <1>3, <1>6 DEF Tx, IsPlain, StaysOnChain
<1>7. ASSUME Fresh(Key(i))
      PROVE  /\ to # NoAddr /\ ~Seen(to) /\ to # Suspect /\ IsPlaced(L, n)
             /\ 1 <= n.hops /\ n.hops <= MaxHops
  <2>1. to # NoAddr /\ ~Seen(to)
    BY <1>4, <1>7 DEF Fresh, Seen
  <2>2. to # Suspect /\ to \notin L[node.hops]
    BY <1>2, <2>1 DEF LevelSeen
  <2>3. to \in Onward(L[node.hops])
    BY <1>2, <1>3, <2>1 DEF Onward, LevelSeen, IsPlaced, Passes
  <2>4. to \in L[n.hops] /\ n.hops - 1 = node.hops
    <3>1. L[node.hops + 1] = Onward(L[node.hops])
      BY <1>3, LayerSteps
    <3> QED BY <1>3, <1>5, <2>3, <3>1
  <2> QED BY <1>3, <1>5, <2>1, <2>2, <2>4 DEF IsPlaced
<1>8. ASSUME visited \subseteq visited', ~Fresh(Key(i)) \/ Seen(to)', pc' = "scan"
      PROVE  ScanComplete' /\ LevelSeen(L)'
  <2>1. \A a : Seen(a) => Seen(a)'
    BY <1>8 DEF Seen
  <2>2. to # NoAddr => Seen(to)'
    <3>1. to # NoAddr /\ ~Fresh(Key(i)) => Seen(to)
      BY <1>4 DEF Fresh, Seen
    <3> QED BY <1>1, <1>8, <2>1, <3>1
  <2>3. ScanComplete'
    BY <1>1, <1>2, <2>1, <2>2 DEF ScanComplete
  <2>4. LevelSeen(L)'
    BY <1>1, <1>2, <2>1 DEF LevelSeen, IsPlaced, Passes, IsOrdinary, IsHub, Degree
  <2> QED BY <2>3, <2>4
<1>9. ASSUME visited' = visited \cup {Key(i)}
      PROVE  visited \subseteq visited' /\ Seen(to)' /\ \A a : Seen(a)' => Seen(a) \/ a = to
  BY <1>1, <1>4, <1>9 DEF Seen
<1>10. CASE Skip(i)
  <2>1. ~Fresh(Key(i)) /\ UNCHANGED <<pc, frontier, visited, candidates>>
    BY <1>10 DEF Skip
  <2>2. ScanComplete' /\ LevelSeen(L)'
    BY <1>1, <1>8, <2>1
  <2>3. /\ \A a : (IsReported(a) <=> IsReported(a)') /\ (IsQueued(a) <=> IsQueued(a)')
        /\ \A a : Seen(a) <=> Seen(a)'
    BY <2>1 DEF IsReported, IsQueued, Seen
  <2>4. SeenAreNoted(L)'
    BY <1>1, <1>2, <2>3, SeenKept
  <2>5. SeenGoOn(L)'
    BY <1>1, <1>2, <2>1, <2>3, GoOnKept
  <2>6. QueueInOrder(L)' /\ ReportsPlaced(L)'
    BY <1>1, <1>2, <2>1, QueueStays, PlacesStay
  <2> QED BY <1>1, <2>1, <2>2, <2>4, <2>5, <2>6 DEF NearestInv
<1>11. ASSUME NEW role, Fresh(Key(i)), visited' = visited \cup {Key(i)},
              Report(n, role, FALSE), UNCHANGED <<pc, frontier>>,
              RoleFits(AsCandidate(n, role, FALSE)), ~IsOrdinary(to)
       PROVE  NearestInv(L)'
  <2>1. to # Suspect /\ IsPlaced(L, n) /\ 1 <= n.hops /\ n.hops <= MaxHops
    BY <1>7, <1>11
  <2>2. ReportsPlaced(L)' /\ IsReported(to)' /\ \A a : IsReported(a) => IsReported(a)'
    BY <1>1, <1>2, <1>5, <1>11, <2>1, PlacedReported
  <2>3. \A a : IsQueued(a) <=> IsQueued(a)'
    BY <1>11 DEF IsQueued
  <2>4. visited \subseteq visited' /\ Seen(to)' /\ \A a : Seen(a)' => Seen(a) \/ a = to
    BY <1>9, <1>11
  <2>5. SeenAreNoted(L)'
    BY <1>1, <1>2, <2>2, <2>3, <2>4, SeenKept
  <2>6. SeenGoOn(L)'
    <3>1. \A a \in Addr : Seen(a)' /\ ~Seen(a) /\ Passes(a) => FALSE
      BY <1>11, <2>1, <2>4 DEF Passes
    <3> QED BY <1>1, <1>2, <1>11, <2>3, <2>4, <3>1, GoOnKept
  <2>7. ScanComplete' /\ LevelSeen(L)'
    BY <1>1, <1>8, <1>11, <2>4
  <2>8. QueueInOrder(L)'
    BY <1>1, <1>2, <1>11 DEF QueueInOrder, IsPlaced, Passes, IsOrdinary, IsHub, Degree
  <2> QED BY <1>1, <1>11, <2>2, <2>5, <2>6, <2>7, <2>8 DEF NearestInv
<1>12. CASE MeetTerminal(i)
  <2>1. /\ Fresh(Key(i)) /\ visited' = visited \cup {Key(i)} /\ Role[to] \in {"mixer", "vasp"}
        /\ Report(n, Role[to], FALSE) /\ UNCHANGED <<pc, frontier>>
    BY <1>n, <1>12 DEF MeetTerminal, IsTerminal, Classify, Report
  <2>2. RoleFits(AsCandidate(n, Role[to], FALSE)) /\ ~IsOrdinary(to)
    BY <1>5, <2>1 DEF RoleFits, IsOrdinary
  <2> QED BY <1>11, <2>1, <2>2
<1>13. CASE MeetBridge(i)
  <2>1. Fresh(Key(i)) /\ Role[to] = "bridge"
    BY <1>13 DEF MeetBridge, Classify
  <2> QED BY <1>6, <1>7, <2>1
<1>14. CASE MeetHub(i)
  <2>1. /\ Fresh(Key(i)) /\ visited' = visited \cup {Key(i)}
        /\ Role[to] = "intermediary" /\ IsHub(to)
        /\ Report(n, "hub", FALSE) /\ UNCHANGED <<pc, frontier>>
    BY <1>n, <1>14 DEF MeetHub, Classify, Report
  <2>2. RoleFits(AsCandidate(n, "hub", FALSE)) /\ ~IsOrdinary(to)
    BY <1>5, <2>1 DEF RoleFits, IsOrdinary
  <2> QED BY <1>11, <2>1, <2>2
<1>15. CASE MeetIntermediary(i)
  <2>1. /\ Fresh(Key(i)) /\ visited' = visited \cup {Key(i)} /\ IsOrdinary(to)
        /\ Enqueue(n) /\ UNCHANGED <<pc, candidates>>
    BY <1>n, <1>15 DEF MeetIntermediary, IsWallet, IsOrdinary, Classify, Enqueue
  <2>2. to # Suspect /\ IsPlaced(L, n) /\ 1 <= n.hops /\ n.hops <= MaxHops
    BY <1>7, <2>1
  <2>3. /\ QueueInOrder(L)' /\ \A a : IsQueued(a) => IsQueued(a)'
        /\ n.hops < MaxHops => IsQueued(to)'
    BY <1>1, <1>2, <1>3, <1>5, <2>1, <2>2, PlacedQueued DEF Passes
  <2>4. IsQueued(to)' \/ to \notin L[MaxHops - 1]
    <3>1. CASE n.hops < MaxHops
      BY <2>3, <3>1
    <3>2. CASE ~(n.hops < MaxHops)
      <4>1. n.hops = MaxHops
        BY <1>3, <1>5, <2>2, <3>2
      <4> QED BY <1>5, <2>2, <4>1 DEF IsPlaced
    <3> QED BY <3>1, <3>2
  <2>5. visited \subseteq visited' /\ Seen(to)' /\ \A a : Seen(a)' => Seen(a) \/ a = to
    BY <1>9, <2>1
  <2>6. \A a : IsReported(a) <=> IsReported(a)'
    BY <2>1 DEF IsReported
  <2>7. SeenAreNoted(L)'
    BY <1>1, <1>2, <2>1, <2>3, <2>4, <2>5, <2>6, SeenKept
  <2>8. SeenGoOn(L)'
    BY <1>1, <1>2, <2>1, <2>3, <2>4, <2>5, GoOnKept
  <2>9. ScanComplete' /\ LevelSeen(L)'
    BY <1>1, <1>8, <2>1, <2>5
  <2>10. ReportsPlaced(L)'
    BY <1>1, <1>2, <2>1, PlacesStay
  <2> QED BY <1>1, <2>1, <2>3, <2>7, <2>8, <2>9, <2>10 DEF NearestInv
<1> QED BY <1>10, <1>12, <1>13, <1>14, <1>15 DEF Scan

\* On one chain, with no answer cut, the provider answers all that leaves a.
LEMMA PlainAnswer ==
  ASSUME IsPlain, NEW a \in Addr
  PROVE  Outgoing(a, SourceChain) = {i \in DOMAIN ledger : ledger[i].from = a}
BY DEF IsPlain, StaysOnChain, Uncut, Outgoing, Touching

\* The next node is as near as the last one or one hop farther, and by then
\* all that is as near as it has been seen.
LEMMA PopNearest ==
  ASSUME SearchInv, IsPlain, NEW L, AreLayers(L), NearestInv(L), DeadEnd \/ Expand
  PROVE  NearestInv(L)'
<1> USE ConstantsOK
<1> DEFINE h == Head(frontier)
<1>1. /\ pc = "pop" /\ node' = h /\ frontier' = Tail(frontier) /\ frontier # <<>>
      /\ UNCHANGED <<ledger, visited>> /\ MaxHops \in Nat
  BY DEF DeadEnd, Expand, Pop
<1>2. /\ QueueInOrder(L) /\ LevelSeen(L) /\ SeenGoOn(L)
      /\ ReportsPlaced(L) /\ SeenAreNoted(L)
  BY DEF NearestInv
<1>3. /\ frontier \in Seq(Node) /\ Len(frontier) \in Nat /\ 1 \in 1 .. Len(frontier)
      /\ h = frontier[1]
      /\ Len(frontier') = Len(frontier) - 1
      /\ \A k \in 1 .. Len(frontier') : k + 1 \in 1 .. Len(frontier)
                                        /\ frontier'[k] = frontier[k + 1]
      /\ \A k \in 1 .. Len(frontier) : frontier[k].hops \in Nat
  <2>1. frontier \in Seq(Node) /\ Len(frontier) \in Nat \ {0} /\ h = frontier[1]
    BY <1>1, EmptySeq, LenProperties DEF SearchInv, FrontierOK
  <2>2. /\ Len(frontier') = Len(frontier) - 1
        /\ \A k \in 1 .. Len(frontier') : frontier'[k] = frontier[k + 1]
    BY <1>1, <2>1, HeadTailProperties
  <2>3. ASSUME NEW k \in 1 .. Len(frontier) PROVE frontier[k].hops \in Nat
    <3>1. frontier[k] \in Node
      BY <2>1, ElementOfSeq
    <3> QED BY <3>1 DEF Node
  <2> QED BY <2>1, <2>2, <2>3
<1>4. /\ h \in Node /\ h.hops < MaxHops /\ h.hops \in Nat /\ h.addr \in Addr
      /\ IsPlaced(L, h) /\ Passes(h.addr) /\ node.hops \in Nat
      /\ node.hops <= h.hops /\ h.hops <= node.hops + 1
  <2>1. h \in Node /\ h.hops < MaxHops /\ node \in Node
    BY <1>1, <1>3, ElementOfSeq DEF SearchInv, FrontierOK, LoopOK
  <2>2. IsPlaced(L, h) /\ Passes(h.addr) /\ node.hops <= h.hops /\ h.hops <= node.hops + 1
    BY <1>2, <1>3 DEF QueueInOrder
  <2> QED BY <2>1, <2>2 DEF Node
<1> HIDE DEF h
<1>w. PICK w : w = h.addr
  OBVIOUS
<1>g. \A j, k \in Nat : j <= k => L[j] \subseteq L[k]
  BY LayerSteps
<1>5. /\ \A a : (Seen(a) <=> Seen(a)') /\ (IsSettled(a) <=> IsSettled(a)')
      /\ \A a : (Passes(a) <=> Passes(a)') /\ (IsOrdinary(a) <=> IsOrdinary(a)')
      /\ \A a : HasOutgoing(a) <=> HasOutgoing(a)'
  BY <1>1 DEF Seen, IsSettled, Passes, IsOrdinary, IsHub, Degree, HasOutgoing
<1>6. ASSUME NEW a, IsQueued(a) PROVE IsQueued(a)' \/ a = h.addr
  <2>1. PICK j \in 1 .. Len(frontier) : frontier[j].addr = a
    BY <1>6 DEF IsQueued
  <2>2. CASE j = 1
    BY <1>3, <2>1, <2>2
  <2>3. CASE j # 1
    <3>1. j - 1 \in 1 .. Len(frontier') /\ (j - 1) + 1 = j
      BY <1>3, <2>3
    <3> QED BY <1>3, <2>1, <3>1 DEF IsQueued
  <2> QED BY <2>2, <2>3
<1>7. QueueInOrder(L)'
  <2>1. \A k \in 1 .. Len(frontier') :
          /\ IsPlaced(L, frontier'[k]) /\ Passes(frontier'[k].addr)
          /\ h.hops <= frontier'[k].hops /\ frontier'[k].hops <= h.hops + 1
    <3> SUFFICES ASSUME NEW k \in 1 .. Len(frontier')
                 PROVE  /\ IsPlaced(L, frontier[k + 1]) /\ Passes(frontier[k + 1].addr)
                        /\ h.hops <= frontier[k + 1].hops /\ frontier[k + 1].hops <= h.hops + 1
      BY <1>3
    <3>1. k + 1 \in 1 .. Len(frontier) /\ 1 <= k + 1
      BY <1>3
    <3>2. /\ IsPlaced(L, frontier[k + 1]) /\ Passes(frontier[k + 1].addr)
          /\ frontier[k + 1].hops <= node.hops + 1 /\ frontier[1].hops <= frontier[k + 1].hops
      BY <1>2, <1>3, <3>1 DEF QueueInOrder
    <3>3. frontier[k + 1].hops \in Nat /\ node.hops \in Nat /\ h.hops \in Nat
      BY <1>3, <1>4, <3>1
    <3>4. h.hops = frontier[1].hops /\ node.hops <= h.hops
      BY ONLY <1>3, <1>4
    <3>5. h.hops <= frontier[k + 1].hops /\ frontier[k + 1].hops <= h.hops + 1
      BY ONLY <3>2, <3>3, <3>4
    <3> QED BY <3>2, <3>5
  <2>2. \A j, k \in 1 .. Len(frontier') : j <= k => frontier'[j].hops <= frontier'[k].hops
    <3> SUFFICES ASSUME NEW j \in 1 .. Len(frontier'), NEW k \in 1 .. Len(frontier'), j <= k
                 PROVE  frontier'[j].hops <= frontier'[k].hops
      OBVIOUS
    <3>1. j + 1 \in 1 .. Len(frontier) /\ k + 1 \in 1 .. Len(frontier) /\ j + 1 <= k + 1
      BY <1>3
    <3>2. frontier[j + 1].hops <= frontier[k + 1].hops
      BY <1>2, <3>1 DEF QueueInOrder
    <3> QED BY <1>3, <3>2
  <2>3. ASSUME NEW k \in 1 .. Len(frontier')
        PROVE  IsPlaced(L, frontier[k])' /\ Passes(frontier[k].addr)'
    <3>1. PICK x : x = frontier'[k]
      OBVIOUS
    <3>2. IsPlaced(L, x)' /\ Passes(x.addr)'
      BY <1>5, <2>1, <3>1 DEF IsPlaced
    <3> QED BY <3>1, <3>2 DEF IsPlaced, Passes
  <2> QED BY <1>1, <2>1, <2>2, <2>3 DEF QueueInOrder
<1>8. \A a \in L[h.hops] : Seen(a)
  <2>1. CASE h.hops = node.hops
    BY <1>2, <2>1 DEF LevelSeen
  <2>2. CASE h.hops = node.hops + 1
    <3> SUFFICES ASSUME NEW a \in L[h.hops], a \notin L[node.hops] PROVE Seen(a)
      BY <1>2 DEF LevelSeen
    <3>1. a \in Onward(L[node.hops])
      BY <1>4, <2>2, LayerSteps
    <3>2. PICK i \in DOMAIN ledger :
            /\ a = ledger[i].to /\ ledger[i].from \in L[node.hops] /\ ledger[i].to # NoAddr
            /\ Passes(ledger[i].from)
      BY <3>1 DEF Onward, Passes
    <3> DEFINE b == ledger[i].from
    <3>3. Seen(b) /\ b \in Addr
      <4>1. Seen(b)
        BY <1>2, <3>2 DEF LevelSeen
      <4> QED BY <4>1 DEF Seen, SearchInv
    <3>4. ~IsQueued(b)
      <4> SUFFICES ASSUME NEW j \in 1 .. Len(frontier), frontier[j].addr = b PROVE FALSE
        BY DEF IsQueued
      <4>1. /\ IsPlaced(L, frontier[j]) /\ frontier[1].hops <= frontier[j].hops
        BY <1>2, <1>3 DEF QueueInOrder
      <4>2. frontier[j].hops \in Nat
        BY <1>3
      <4>3. frontier[j].hops - 1 \in Nat /\ node.hops <= frontier[j].hops - 1
            /\ frontier[j].hops > 0
        <5>1. node.hops + 1 <= frontier[j].hops
          BY <1>3, <2>2, <4>1
        <5>2. node.hops \in Nat
          BY <1>4
        <5>3. \A m, n \in Nat : m + 1 <= n => n - 1 \in Nat /\ m <= n - 1 /\ n > 0
          OBVIOUS
        <5> QED BY <4>2, <5>1, <5>2, <5>3
      <4>4. L[node.hops] \subseteq L[frontier[j].hops - 1]
        <5>1. node.hops \in Nat
          BY <1>4
        <5> QED BY <1>g, <4>3, <5>1
      <4>5. b \in L[frontier[j].hops - 1]
        BY <3>2, <4>4
      <4> QED BY <4>1, <4>3, <4>5 DEF IsPlaced
    <3>5. b \in L[MaxHops - 1]
      <4>1. MaxHops - 1 \in Nat /\ node.hops <= MaxHops - 1
        BY <1>1, <1>4, <2>2
      <4>2. L[node.hops] \subseteq L[MaxHops - 1]
        BY <1>4, <4>1, LayerSteps
      <4> QED BY <3>2, <4>2
    <3>6. IsSettled(b)
      BY <1>1, <1>2, <3>2, <3>3, <3>4, <3>5 DEF SeenGoOn
    <3> QED BY <3>2, <3>6 DEF IsSettled
  <2> QED BY <1>4, <2>1, <2>2
<1>9. LevelSeen(L)'
  BY <1>1, <1>2, <1>4, <1>5, <1>8 DEF LevelSeen, IsPlaced
<1>10. Outgoing(h.addr, SourceChain) = {i \in DOMAIN ledger : ledger[i].from = h.addr}
  BY <1>4, PlainAnswer
<1>11. CASE DeadEnd
  <2> DEFINE d == [h EXCEPT !.chain = SourceChain]
  <2>1. /\ Report(d, "dead_end", FALSE) /\ pc' = pc /\ h.hops > 0
        /\ Outgoing(h.addr, SourceChain) = {}
    BY <1>11 DEF DeadEnd, Fetched, h
  <2>2. ~HasOutgoing(h.addr) /\ IsSettled(h.addr)
    BY <1>10, <2>1 DEF HasOutgoing, IsSettled
  <2>3. h.addr # Suspect
    <3>1. Suspect \in L[h.hops - 1]
      <4>1. 0 \in Nat /\ h.hops - 1 \in Nat /\ 0 <= h.hops - 1
        BY <1>4, <2>1
      <4>2. L[0] \subseteq L[h.hops - 1]
        BY <1>g, <4>1
      <4>3. Suspect \in L[0]
        BY LayerSteps
      <4> QED BY <4>2, <4>3
    <3> QED BY <1>4, <2>1, <3>1 DEF IsPlaced
  <2>4. /\ d.addr = h.addr /\ d.chain = SourceChain /\ d.hops = h.hops
        /\ AsCandidate(d, "dead_end", FALSE).addr = h.addr
        /\ AsCandidate(d, "dead_end", FALSE).hops = h.hops
        /\ AsCandidate(d, "dead_end", FALSE).role = "dead_end"
    BY <1>4 DEF Node, AsCandidate
  <2> HIDE DEF d
  <2>5. IsPlaced(L, d) /\ RoleFits(AsCandidate(d, "dead_end", FALSE))
    BY <1>4, <2>2, <2>3, <2>4 DEF IsPlaced, RoleFits, Passes
  <2>6. ReportsPlaced(L)' /\ IsReported(w)' /\ \A a : IsReported(a) => IsReported(a)'
    <3>1. PICK e : e = d
      OBVIOUS
    <3>2. /\ Report(e, "dead_end", FALSE) /\ IsPlaced(L, e) /\ e.addr = w
          /\ RoleFits(AsCandidate(e, "dead_end", FALSE))
      BY <1>w, <2>1, <2>4, <2>5, <3>1
    <3>3. 1 <= e.hops /\ e.hops <= MaxHops
      BY <1>1, <1>4, <2>1, <2>4, <3>1
    <3>4. ledger' = ledger /\ ReportsPlaced(L)
      BY <1>1, <1>2
    <3>5. ReportsPlaced(L)' /\ IsReported(e.addr)' /\ \A a : IsReported(a) => IsReported(a)'
      BY <3>2, <3>3, <3>4, PlacedReported
    <3> QED BY <3>2, <3>5
  <2>7. SeenGoOn(L)'
    BY <1>1, <1>2, <1>5, <1>6, <2>1, <2>2 DEF SeenGoOn
  <2>8. SeenAreNoted(L)'
    BY <1>1, <1>2, <1>w, <1>5, <1>6, <2>6 DEF SeenAreNoted
  <2>9. ScanComplete' /\ pc' # "cross" /\ pc' # "done"
    BY <1>1, <2>1 DEF ScanComplete
  <2> QED BY <1>7, <1>9, <2>6, <2>7, <2>8, <2>9 DEF NearestInv
<1>12. CASE Expand
  <2>1. /\ pc' = "scan" /\ outgoing' = Outgoing(h.addr, SourceChain) /\ candidates' = candidates
        /\ Outgoing(h.addr, SourceChain) # {} \/ h.hops = 0
    BY <1>12 DEF Expand, Fetched, h
  <2>2. HasOutgoing(h.addr) \/ h.addr = Suspect
    <3>1. CASE Outgoing(h.addr, SourceChain) # {}
      BY <1>10, <3>1 DEF HasOutgoing
    <3>2. CASE h.hops = 0
      <4>1. L[0] = {Suspect}
        BY LayerSteps
      <4>2. h.addr \in L[h.hops]
        BY <1>4 DEF IsPlaced
      <4> QED BY <3>2, <4>1, <4>2
    <3> QED BY <2>1, <3>1, <3>2
  <2>3. SeenGoOn(L)'
    BY <1>1, <1>2, <1>5, <1>6, <2>1 DEF SeenGoOn
  <2>4. \A a : IsReported(a) <=> IsReported(a)'
    BY <2>1 DEF IsReported
  <2>5. SeenAreNoted(L)'
    BY <1>1, <1>2, <1>5, <1>6, <2>2, <2>4 DEF SeenAreNoted
  <2>6. ScanComplete'
    BY <1>1, <1>10, <2>1 DEF ScanComplete
  <2>7. ReportsPlaced(L)'
    BY <1>1, <1>2, <2>1, PlacesStay
  <2> QED BY <1>7, <1>9, <2>1, <2>3, <2>5, <2>6, <2>7 DEF NearestInv
<1> QED BY <1>11, <1>12

\* The steps between two loops: a scan that is over has settled its wallet.
LEMMA QuietNearest ==
  ASSUME SearchInv, IsPlain, NEW L, AreLayers(L), NearestInv(L),
         Finish \/ EndScan \/ Returned \/ UNCHANGED vars
  PROVE  NearestInv(L)'
<1>1. UNCHANGED <<ledger, frontier, visited, candidates, node, outgoing>>
  BY DEF Finish, EndScan, Returned, vars
<1>2. /\ QueueInOrder(L)' /\ LevelSeen(L)' /\ ReportsPlaced(L)' /\ SeenAreNoted(L)'
  <2>1. QueueInOrder(L)' /\ LevelSeen(L)'
    BY <1>1
       DEF NearestInv, QueueInOrder, LevelSeen, IsPlaced, Passes, Seen, IsOrdinary, IsHub, Degree
  <2>2. ReportsPlaced(L)'
    BY <1>1, PlacesStay DEF NearestInv
  <2>3. /\ \A a : (IsReported(a) <=> IsReported(a)') /\ (IsQueued(a) <=> IsQueued(a)')
        /\ \A a : Seen(a) <=> Seen(a)'
    BY <1>1 DEF IsReported, IsQueued, Seen
  <2>4. SeenAreNoted(L)'
    BY <1>1, <2>3, SeenKept DEF NearestInv
  <2> QED BY <2>1, <2>2, <2>4
<1>3. /\ \A a : (Seen(a) <=> Seen(a)') /\ (IsQueued(a) <=> IsQueued(a)')
      /\ \A a : (Passes(a) <=> Passes(a)') /\ (IsSettled(a) <=> IsSettled(a)')
  BY <1>1 DEF Seen, IsQueued, Passes, IsSettled, IsOrdinary, IsHub, Degree
<1>4. CASE pc' = pc
  <2>1. SeenGoOn(L)' /\ ScanComplete'
    BY <1>1, <1>3, <1>4 DEF NearestInv, SeenGoOn, ScanComplete
  <2>2. pc = "done" => frontier = <<>> \/ Len(candidates) >= MaxCandidates
    BY DEF NearestInv
  <2>3. pc' # "cross" /\ (pc' = "done" => frontier' = <<>> \/ Len(candidates') >= MaxCandidates)
    BY <1>1, <1>4, <2>2 DEF NearestInv
  <2> QED BY <1>2, <2>1, <2>3 DEF NearestInv
<1>5. CASE Finish
  <2>1. /\ pc = "pop" /\ pc' = "done"
        /\ frontier = <<>> \/ Len(candidates) >= MaxCandidates
    BY <1>5 DEF Finish
  <2>2. SeenGoOn(L)
    BY DEF NearestInv
  <2>3. SeenGoOn(L)'
    BY <1>1, <1>3, <2>1, <2>2 DEF SeenGoOn
  <2>4. ScanComplete' /\ pc' # "cross"
    BY <2>1 DEF ScanComplete
  <2>5. frontier' = <<>> \/ Len(candidates') >= MaxCandidates
    BY <1>1, <2>1
  <2> QED BY <1>2, <2>3, <2>4, <2>5 DEF NearestInv
<1>6. CASE EndScan
  <2>1. pc = "scan" /\ outgoing = {} /\ pc' = "pop"
    BY <1>6 DEF EndScan
  <2>2. IsSettled(node.addr)
    BY <2>1 DEF NearestInv, ScanComplete, IsSettled
  <2>3. ScanComplete' /\ pc' # "cross" /\ pc' # "done"
    BY <2>1 DEF ScanComplete
  <2>4. SeenGoOn(L)
    BY DEF NearestInv
  <2>5. SeenGoOn(L)'
    BY <1>1, <1>3, <2>1, <2>2, <2>4 DEF SeenGoOn
  <2> QED BY <1>2, <2>3, <2>5 DEF NearestInv
<1> QED BY <1>4, <1>5, <1>6 DEF Returned, vars

\* No step of a search breaks the invariant.
LEMMA WalkStep == WalkInv /\ [Next]_vars => WalkInv'
<1> SUFFICES ASSUME WalkInv, [Next]_vars PROVE WalkInv'
  OBVIOUS
<1>1. SearchInv /\ SearchInv'
  BY SearchStep DEF WalkInv
<1>2. ledger' = ledger
  BY DEF Next, Finish, DeadEnd, Expand, Pop, EndScan, Scan, EndCross, Cross, Returned, vars
<1>3. IsPlain <=> IsPlain'
  BY <1>2 DEF IsPlain, StaysOnChain, Uncut, Transactions, Touching, Place
<1> SUFFICES ASSUME IsPlain, NEW L, AreLayers(L)' PROVE NearestInv(L)'
  BY <1>1, <1>3 DEF WalkInv
<1>4. AreLayers(L) /\ NearestInv(L)
  BY <1>2, LayersStay DEF WalkInv
<1>5. CASE Finish \/ EndScan \/ Returned \/ UNCHANGED vars
  BY <1>1, <1>4, <1>5, QuietNearest
<1>6. CASE DeadEnd \/ Expand
  BY <1>1, <1>4, <1>6, PopNearest
<1>7. ASSUME NEW i \in DOMAIN ledger, Scan(i) PROVE NearestInv(L)'
  BY <1>1, <1>4, <1>7, ScanNearest
<1>8. pc # "cross"
  BY <1>4 DEF NearestInv
<1>9. ~EndCross /\ \A i \in DOMAIN ledger : ~Cross(i)
  BY <1>8 DEF EndCross, Cross
<1> QED BY <1>5, <1>6, <1>7, <1>9 DEF Next

\* The invariant holds throughout every search.
THEOREM WalkInvHolds == Spec => []WalkInv
<1>1. Init => WalkInv
  BY InitSearchInv, InitNearest DEF WalkInv
<1> QED BY <1>1, WalkStep, PTL DEF Spec

-----------------------------------------------------------------------------
(* What the invariant says of a search that has returned. *)

\* When the queue is empty, every wallet within the budget has been seen.
LEMMA AllSeen ==
  ASSUME SearchInv, NEW L, AreLayers(L), NearestInv(L), frontier = <<>>, pc # "scan",
         MaxHops >= 1, NEW k \in Nat, k <= MaxHops
  PROVE  \A a \in L[k] : Seen(a) /\ a \in Addr
<1> USE ConstantsOK
<1> DEFINE X == {j \in Nat : j <= MaxHops /\ \E a \in L[j] : ~Seen(a)}
<1>0. visited \subseteq Addr \X Chain
  BY DEF SearchInv
<1> SUFFICES ASSUME X # {} PROVE FALSE
  BY <1>0 DEF Seen
<1>1. PICK j \in X : \A m \in X : j <= m
  BY LeastNat
<1>2. PICK a \in L[j] : ~Seen(a)
  BY <1>1
<1>3. j # 0
  <2>1. L[0] = {Suspect} /\ Seen(Suspect)
    BY LayerSteps DEF NearestInv, LevelSeen
  <2> QED BY <1>2, <2>1
<1>4. j - 1 \in Nat /\ (j - 1) + 1 = j /\ ~(j <= j - 1) /\ j - 1 <= MaxHops /\ j <= MaxHops
  BY <1>1, <1>3
<1>5. \A b \in L[j - 1] : Seen(b)
  BY <1>1, <1>4
<1>6. a \in Onward(L[j - 1])
  BY <1>2, <1>4, LayerSteps
<1>7. PICK i \in DOMAIN ledger :
        /\ a = ledger[i].to /\ ledger[i].from \in L[j - 1] /\ ledger[i].to # NoAddr
        /\ Passes(ledger[i].from)
  BY <1>2, <1>5, <1>6 DEF Onward, Passes
<1> DEFINE b == ledger[i].from
<1>8. Seen(b) /\ b \in Addr
  BY <1>0, <1>5, <1>7 DEF Seen
<1>9. ~IsQueued(b)
  BY DEF IsQueued
<1>10. b \in L[MaxHops - 1]
  <2>1. MaxHops - 1 \in Nat /\ j - 1 <= MaxHops - 1
    BY <1>1, <1>4
  <2>2. \A l, m \in Nat : l <= m => L[l] \subseteq L[m]
    BY LayerSteps
  <2>3. L[j - 1] \subseteq L[MaxHops - 1]
    BY <1>4, <2>1, <2>2
  <2> QED BY <1>7, <2>3
<1>11. IsSettled(b)
  BY <1>7, <1>8, <1>9, <1>10 DEF NearestInv, SeenGoOn
<1> QED BY <1>2, <1>7, <1>11 DEF IsSettled

\* A wallet has one least distance.
LEMMA OneDistance ==
  ASSUME NEW L, AreLayers(L), NEW a, NEW j \in Nat \ {0}, NEW k \in Nat \ {0},
         a \in L[j] \ L[j - 1], a \in L[k] \ L[k - 1]
  PROVE  j = k
<1>1. \A l, m \in Nat : l <= m => L[l] \subseteq L[m]
  BY LayerSteps
<1>2. j - 1 \in Nat /\ k - 1 \in Nat
  OBVIOUS
<1>3. ~(j <= k - 1)
  BY <1>1, <1>2
<1>4. ~(k <= j - 1)
  BY <1>1, <1>2
<1> QED BY <1>3, <1>4

Roles == {"vasp", "mixer", "hub", "dead_end"}

\* The wallets a returned search has reported under a role at a distance are
\* those that have both.
LEMMA ReportsAreFound ==
  ASSUME SearchInv, IsPlain, NEW L, AreLayers(L), NearestInv(L), frontier = <<>>, pc = "done",
         NEW k \in 1 .. MaxHops, NEW role \in Roles, NEW a
  PROVE  (\E j \in 1 .. Len(candidates) :
            candidates[j].addr = a /\ candidates[j].role = role /\ candidates[j].hops = k)
         <=> a \in L[k] \ L[k - 1] /\ RoleFits([addr |-> a, role |-> role, hops |-> k])
<1> USE ConstantsOK
<1> DEFINE r == [addr |-> a, role |-> role, hops |-> k]
<1>1. /\ k \in Nat \ {0} /\ k - 1 \in Nat /\ k <= MaxHops /\ MaxHops \in Nat
      /\ r.addr = a /\ r.role = role /\ r.hops = k
  BY DEF IsPlain
<1>2. ReportsPlaced(L) /\ SeenAreNoted(L)
  BY DEF NearestInv
<1> HIDE DEF r
<1>3. \A j \in 1 .. Len(candidates) :
        /\ candidates[j].role \in Roles /\ candidates[j].hops \in Nat \ {0}
        /\ candidates[j].addr \in L[candidates[j].hops] \ L[candidates[j].hops - 1]
        /\ RoleFits(candidates[j])
  <2> SUFFICES ASSUME NEW j \in 1 .. Len(candidates)
               PROVE  /\ candidates[j].role \in Roles /\ candidates[j].hops \in Nat \ {0}
                      /\ candidates[j].addr \in L[candidates[j].hops] \ L[candidates[j].hops - 1]
                      /\ RoleFits(candidates[j])
    OBVIOUS
  <2>1. candidates[j] \in Candidate
    BY ElementOfSeq DEF SearchInv, CandidatesOK
  <2>2. candidates[j].role \in Roles /\ candidates[j].hops \in Nat
    BY <2>1 DEF Candidate, Roles
  <2>3. IsPlaced(L, candidates[j]) /\ RoleFits(candidates[j]) /\ 1 <= candidates[j].hops
    BY <1>2 DEF ReportsPlaced
  <2>4. candidates[j].hops > 0
    BY <2>2, <2>3
  <2> QED BY <2>2, <2>3, <2>4 DEF IsPlaced
<1>4. ASSUME NEW j \in 1 .. Len(candidates),
             candidates[j].addr = a, candidates[j].role = role, candidates[j].hops = k
      PROVE  a \in L[k] \ L[k - 1] /\ RoleFits(r)
  BY <1>1, <1>3, <1>4 DEF RoleFits
<1>5. ASSUME a \in L[k] \ L[k - 1], RoleFits(r)
      PROVE  \E j \in 1 .. Len(candidates) :
               candidates[j].addr = a /\ candidates[j].role = role /\ candidates[j].hops = k
  <2>1. Seen(a) /\ a \in Addr
    BY <1>1, <1>5, AllSeen DEF IsPlain
  <2>2. a # Suspect
    <3>1. \A l, m \in Nat : l <= m => L[l] \subseteq L[m]
      BY LayerSteps
    <3>2. 0 \in Nat /\ 0 <= k - 1
      BY <1>1
    <3>3. L[0] \subseteq L[k - 1]
      BY <1>1, <3>1, <3>2
    <3>4. L[0] = {Suspect}
      BY LayerSteps
    <3> QED BY <1>5, <3>3, <3>4
  <2>3. ~IsQueued(a)
    BY DEF IsQueued
  <2>4. IsOrdinary(a) => role = "dead_end" /\ k < MaxHops /\ ~HasOutgoing(a)
    BY <1>1, <1>5 DEF RoleFits, Roles, IsOrdinary
  <2>5. k < MaxHops => a \in L[MaxHops - 1]
    <3> SUFFICES ASSUME k < MaxHops PROVE a \in L[MaxHops - 1]
      OBVIOUS
    <3>1. \A l, m \in Nat : l <= m => L[l] \subseteq L[m]
      BY LayerSteps
    <3>2. k \in Nat /\ MaxHops - 1 \in Nat /\ k <= MaxHops - 1
      BY <1>1
    <3>3. L[k] \subseteq L[MaxHops - 1]
      BY <3>1, <3>2
    <3> QED BY <1>5, <3>3
  <2>6. IsReported(a)
    BY <1>2, <2>1, <2>2, <2>3, <2>4, <2>5 DEF SeenAreNoted
  <2>7. PICK j \in 1 .. Len(candidates) : candidates[j].addr = a
    BY <2>6 DEF IsReported
  <2>8. candidates[j].hops = k
    <3>1. candidates[j].hops \in Nat \ {0} /\ a \in L[candidates[j].hops] \ L[candidates[j].hops - 1]
      BY <1>3, <2>7
    <3> QED BY <1>1, <1>5, <3>1, OneDistance
  <2>9. candidates[j].role = role
    BY <1>1, <1>3, <1>5, <2>7 DEF RoleFits, Roles, IsOrdinary
  <2> QED BY <2>7, <2>8, <2>9
<1> QED BY <1>4, <1>5 DEF r

\* What is to be found under a role at a distance is what has both.
LEMMA FoundFits ==
  ASSUME NEW k, NEW role \in Roles, NEW a
  PROVE  a \in Found(k)[role] <=>
           /\ a \in Layer[k] \ Layer[k - 1]
           /\ RoleFits([addr |-> a, role |-> role, hops |-> k])
<1> DEFINE at == Layer[k] \ Layer[k - 1]
<1>1. /\ Found(k).vasp = {b \in at : Role[b] = "vasp"}
      /\ Found(k).mixer = {b \in at : Role[b] = "mixer"}
      /\ Found(k).hub = {b \in at : Role[b] = "intermediary" /\ IsHub(b)}
      /\ Found(k).dead_end = {b \in at : IsOrdinary(b) /\ k < MaxHops /\ ~HasOutgoing(b)}
  BY DEF Found, AtDistance
<1> HIDE DEF at
<1>2. CASE role = "vasp"
  BY <1>1, <1>2 DEF at, RoleFits
<1>3. CASE role = "mixer"
  BY <1>1, <1>3 DEF at, RoleFits
<1>4. CASE role = "hub"
  BY <1>1, <1>4 DEF at, RoleFits
<1>5. CASE role = "dead_end"
  BY <1>1, <1>5 DEF at, RoleFits
<1> QED BY <1>2, <1>3, <1>4, <1>5 DEF Roles

\* When a search of one chain returns without having been cut short, it has
\* found exactly the exchanges, mixers, hubs and dead ends within the budget,
\* each at its least distance.
THEOREM NearestFound == Spec => []FindsNearest
<1>1. WalkInv => FindsNearest
  <2> USE ConstantsOK
  <2> SUFFICES ASSUME WalkInv, pc = "done", StaysOnChain, Uncut, Len(candidates) < MaxCandidates,
                      NEW k \in 1 .. MaxHops, NEW role \in Roles
               PROVE  {c.addr : c \in {c \in Range(candidates) : c.role = role /\ c.hops = k}}
                        = Found(k)[role]
    BY DEF FindsNearest, Roles
  <2>1. SearchInv /\ IsPlain /\ candidates \in Seq(Candidate) /\ Len(candidates) \in Nat
    <3>1. candidates \in Seq(Candidate)
      BY DEF WalkInv, SearchInv, CandidatesOK
    <3> QED BY <3>1, LenProperties DEF WalkInv, IsPlain
  <2>2. PICK L : L = Layer
    OBVIOUS
  <2>3. AreLayers(L) /\ NearestInv(L)
    <3>1. AreLayers(L)
      BY <2>2, LayersAre
    <3> QED BY <2>1, <3>1 DEF WalkInv
  <2>4. frontier = <<>>
    <3>1. ~(Len(candidates) >= MaxCandidates)
      BY <2>1
    <3> QED BY <2>3, <3>1 DEF NearestInv
  <2> DEFINE Reported == {c.addr : c \in {c \in Range(candidates) : c.role = role /\ c.hops = k}}
  <2>5. ASSUME NEW a PROVE a \in Reported <=> a \in Found(k)[role]
    <3>1. a \in Reported <=> \E j \in 1 .. Len(candidates) :
            candidates[j].addr = a /\ candidates[j].role = role /\ candidates[j].hops = k
      <4>1. Range(candidates) = {candidates[j] : j \in 1 .. Len(candidates)}
        BY <2>1, LenProperties DEF Range
      <4> QED BY <4>1
    <3>2. a \in Found(k)[role] <=>
            a \in L[k] \ L[k - 1] /\ RoleFits([addr |-> a, role |-> role, hops |-> k])
      BY <2>2, FoundFits
    <3> QED BY <2>1, <2>3, <2>4, <3>1, <3>2, ReportsAreFound
  <2> QED BY <2>5
<1> QED BY <1>1, WalkInvHolds, PTL


-----------------------------------------------------------------------------
(* Two more facts about the search: what a role says, and how near a bridge is. *)

\* A wallet one hop away that is still to be expanded is not a bridge.
NearIsNoBridge(n) == n.hops = 1 => Role[n.addr] # "bridge"

\* A report's role tells whether its wallet is an exchange, a mixer or neither,
\* an exchange two hops away on one chain is not behind a bridge, and no dead end
\* carries a label.
WellMarked(c) ==
    /\ c.role \in {"vasp", "mixer"} => Role[c.addr] = c.role
    /\ c.role \notin {"vasp", "mixer"} => ~IsEnd(c.addr)
    /\ c.role = "vasp" /\ ~c.bridged /\ c.hops = 2 => Role[c.path[2]] # "bridge"
    /\ c.role = "dead_end" => ~c.label

MarksOK ==
    /\ \A i \in 1 .. Len(frontier) : NearIsNoBridge(frontier[i])
    /\ NearIsNoBridge(node)
    /\ pc = "cross" => crossing.hops >= 1
    /\ \A i \in 1 .. Len(candidates) : WellMarked(candidates[i])

LEMMA InitMarks == Init => MarksOK
BY DEF Init, MarksOK, Start, NearIsNoBridge

\* A wallet that is queued is marked if the others are.
LEMMA MarksPushed ==
  ASSUME SearchInv, MarksOK, NEW n \in Node, NearIsNoBridge(n), Enqueue(n)
  PROVE  \A i \in 1 .. Len(frontier') : NearIsNoBridge(frontier'[i])
<1>1. frontier \in Seq(Node) /\ Len(frontier) \in Nat
  BY LenProperties DEF SearchInv, FrontierOK
<1>2. CASE frontier' = frontier
  BY <1>2 DEF MarksOK
<1>3. CASE frontier' = Append(frontier, n)
  <2>1. /\ Len(frontier') = Len(frontier) + 1 /\ frontier'[Len(frontier) + 1] = n
        /\ \A i \in 1 .. Len(frontier) : frontier'[i] = frontier[i]
    BY <1>1, <1>3, AppendProperties
  <2> QED BY <1>1, <2>1 DEF MarksOK
<1> QED BY <1>2, <1>3 DEF Enqueue

\* A report that is added is marked if the others are.
LEMMA MarksReported ==
  ASSUME SearchInv, MarksOK, NEW n, NEW role, NEW bridged,
         WellMarked(AsCandidate(n, role, bridged)), Report(n, role, bridged)
  PROVE  \A i \in 1 .. Len(candidates') : WellMarked(candidates'[i])
<1> DEFINE c == AsCandidate(n, role, bridged)
<1>1. candidates \in Seq(Candidate) /\ Len(candidates) \in Nat /\ candidates' = Append(candidates, c)
  BY LenProperties DEF SearchInv, CandidatesOK, Report
<1>2. WellMarked(c)
  OBVIOUS
<1> HIDE DEF c
<1>3. /\ Len(candidates') = Len(candidates) + 1 /\ candidates'[Len(candidates) + 1] = c
      /\ \A i \in 1 .. Len(candidates) : candidates'[i] = candidates[i]
  <2> DEFINE T == Candidate \cup {c}
  <2>1. candidates \in Seq(T) /\ c \in T
    BY <1>1, SeqMonotonic
  <2> QED BY <1>1, <2>1, AppendProperties
<1> QED BY <1>1, <1>2, <1>3 DEF MarksOK

\* What a scanned transaction leads to is marked by how it is classified.
LEMMA MarksScan ==
  ASSUME SearchInv, MarksOK, NEW i \in DOMAIN ledger, Scan(i)
  PROVE  MarksOK'
<1> DEFINE to == ledger[i].to
           n  == Extend(node, i, Key(i)[2])
<1>1. /\ pc = "scan" /\ i \in outgoing /\ ledger' = ledger /\ node' = node
      /\ node \in Node /\ Open(node) /\ node.hops \in Nat /\ ledger \in Seq(Tx)
      /\ i \in DOMAIN ledger /\ ledger[i].from = node.addr
      /\ node.path \in Seq(Addr) /\ Len(node.path) = node.hops + 1
      /\ node.path[node.hops + 1] = node.addr
  <2>1. /\ pc = "scan" /\ i \in outgoing /\ ledger' = ledger /\ node' = node
    BY DEF Scan, IsFirst
  <2>2. node \in Node /\ Open(node) /\ ledger \in Seq(Tx) /\ ledger[i].from = node.addr
    BY <2>1 DEF SearchInv, LoopOK
  <2>3. node.hops \in Nat /\ node.path \in Seq(Addr)
    BY <2>2 DEF Node
  <2> QED BY <2>1, <2>2, <2>3 DEF Open, Clean, IsTrail
<1>2. NearIsNoBridge(node')
  BY <1>1 DEF MarksOK
<1>3. CASE Skip(i)
  BY <1>1, <1>2, <1>3 DEF Skip, MarksOK
<1>4. ASSUME Fresh(Key(i))
      PROVE  /\ n \in Node /\ n.addr = to /\ n.hops = node.hops + 1
             /\ n.hops = 2 => n.path[2] = node.addr
  <2>1. to # NoAddr /\ Key(i)[2] = TargetChain(i, node.chain) /\ node.chain \in Chain
    BY <1>1, <1>4 DEF Fresh, Key, Node
  <2>2. TargetChain(i, node.chain) \in Chain
    BY <1>1, <2>1, TargetIsChain
  <2>3. n \in Node /\ n.hops = node.hops + 1
    BY <1>1, <2>1, <2>2, ExtendClean
  <2>4. to \in Addr
    <3>1. ledger[i] \in Tx
      BY <1>1, LenProperties, ElementOfSeq
    <3> QED BY <2>1, <3>1 DEF Tx
  <2>5. n.addr = to /\ n.path = Append(node.path, to)
    BY DEF Extend
  <2>6. ASSUME n.hops = 2 PROVE n.path[2] = node.addr
    <3>1. node.hops = 1 /\ Len(node.path) = 2 /\ node.path[2] = node.addr
      BY <1>1, <2>3, <2>6
    <3> QED BY <1>1, <2>4, <2>5, <3>1, AppendProperties
  <2> QED BY <2>3, <2>5, <2>6
<1>5. CASE MeetTerminal(i)
  <2>1. /\ Fresh(Key(i)) /\ IsTerminal(to) /\ Report(n, Classify(to), FALSE)
        /\ UNCHANGED <<pc, frontier, crossing, downstream>>
    BY <1>5 DEF MeetTerminal
  <2>2. n \in Node /\ n.addr = to /\ (n.hops = 2 => node.hops = 1 /\ n.path[2] = node.addr)
    BY <1>1, <1>4, <2>1
  <2> HIDE DEF n
  <2>3. WellMarked(AsCandidate(n, Classify(to), FALSE))
    BY <1>1, <1>2, <2>1, <2>2
       DEF WellMarked, AsCandidate, IsTerminal, Classify, NearIsNoBridge
  <2>4. \A k \in 1 .. Len(candidates') : WellMarked(candidates'[k])
    BY <2>1, <2>3, MarksReported
  <2> QED BY <1>2, <2>1, <2>4 DEF MarksOK
<1>6. CASE MeetBridge(i)
  <2>1. /\ Fresh(Key(i)) /\ UNCHANGED <<frontier, candidates>>
        /\ UNCHANGED <<crossing, pc>> \/ crossing' = n
    BY <1>6 DEF MeetBridge
  <2>2. n.hops = node.hops + 1
    BY <1>4, <2>1
  <2> HIDE DEF n
  <2>3. pc' = "cross" => crossing'.hops >= 1
    BY <1>1, <2>1, <2>2
  <2> QED BY <1>2, <2>1, <2>3 DEF MarksOK
<1>7. CASE MeetHub(i)
  <2>1. /\ Fresh(Key(i)) /\ Classify(to) = "intermediary" /\ Report(n, "hub", FALSE)
        /\ UNCHANGED <<pc, frontier, crossing, downstream>>
    BY <1>7 DEF MeetHub
  <2>2. n \in Node /\ n.addr = to
    BY <1>4, <2>1
  <2> HIDE DEF n
  <2>3. WellMarked(AsCandidate(n, "hub", FALSE))
    BY <2>1, <2>2 DEF WellMarked, AsCandidate, Classify, IsEnd
  <2>4. \A k \in 1 .. Len(candidates') : WellMarked(candidates'[k])
    BY <2>1, <2>3, MarksReported
  <2> QED BY <1>2, <2>1, <2>4 DEF MarksOK
<1>8. CASE MeetIntermediary(i)
  <2>1. /\ Fresh(Key(i)) /\ Classify(to) = "intermediary" /\ Enqueue(n)
        /\ UNCHANGED <<pc, candidates, crossing, downstream>>
    BY <1>8 DEF MeetIntermediary, IsWallet
  <2>2. n \in Node /\ NearIsNoBridge(n)
    BY <1>4, <2>1 DEF Classify, NearIsNoBridge
  <2> HIDE DEF n
  <2>3. \A k \in 1 .. Len(frontier') : NearIsNoBridge(frontier'[k])
    BY <2>1, <2>2, MarksPushed
  <2> QED BY <1>2, <2>1, <2>3 DEF MarksOK
<1> QED BY <1>3, <1>5, <1>6, <1>7, <1>8 DEF Scan

\* What lies behind a bridge is two hops away at least.
LEMMA MarksCross ==
  ASSUME SearchInv, MarksOK, NEW i \in DOMAIN ledger, Cross(i)
  PROVE  MarksOK'
<1> DEFINE to == ledger[i].to
           n  == Extend(crossing, i, crossing.chain)
<1>1. /\ pc = "cross" /\ UNCHANGED <<ledger, pc, node, outgoing, crossing>>
      /\ crossing \in Node /\ Open(crossing) /\ crossing.hops \in Nat /\ crossing.hops >= 1
      /\ crossing.chain \in Chain /\ ledger \in Seq(Tx) /\ ledger[i].from = crossing.addr
  <2>1. pc = "cross" /\ i \in downstream /\ UNCHANGED <<ledger, pc, node, outgoing, crossing>>
    BY DEF Cross, IsFirst
  <2>2. /\ crossing \in Node /\ Open(crossing) /\ ledger \in Seq(Tx)
        /\ ledger[i].from = crossing.addr
    BY <2>1 DEF SearchInv, LoopOK
  <2> QED BY <2>1, <2>2 DEF Node, MarksOK
<1>2. ASSUME Fresh(FarKey(i)) PROVE n \in Node /\ n.addr = to /\ n.hops >= 2
  <2>1. to # NoAddr
    BY <1>2 DEF Fresh, FarKey
  <2>2. n \in Node /\ n.hops = crossing.hops + 1
    BY <1>1, <2>1, ExtendClean
  <2> QED BY <1>1, <2>2 DEF Extend
<1>3. CASE SkipFar(i)
  BY <1>1, <1>3 DEF SkipFar, MarksOK
<1>4. CASE MeetFarTerminal(i)
  <2>1. Fresh(FarKey(i)) /\ IsTerminal(to) /\ Report(n, Classify(to), TRUE) /\ UNCHANGED frontier
    BY <1>4 DEF MeetFarTerminal
  <2>2. n.addr = to
    BY <1>2, <2>1
  <2> HIDE DEF n
  <2>3. WellMarked(AsCandidate(n, Classify(to), TRUE))
    BY <2>1, <2>2 DEF WellMarked, AsCandidate, IsTerminal, Classify
  <2>4. \A k \in 1 .. Len(candidates') : WellMarked(candidates'[k])
    BY <2>1, <2>3, MarksReported
  <2> QED BY <1>1, <2>1, <2>4 DEF MarksOK
<1>5. CASE MeetFarWallet(i)
  <2>1. Fresh(FarKey(i)) /\ Enqueue(n) /\ UNCHANGED candidates
    BY <1>5 DEF MeetFarWallet
  <2>2. n \in Node /\ NearIsNoBridge(n)
    BY <1>2, <2>1 DEF NearIsNoBridge, Node
  <2> HIDE DEF n
  <2>3. \A k \in 1 .. Len(frontier') : NearIsNoBridge(frontier'[k])
    BY <2>1, <2>2, MarksPushed
  <2> QED BY <1>1, <2>1, <2>3 DEF MarksOK
<1> QED BY <1>3, <1>4, <1>5 DEF Cross

\* The queue gives up its head; a dead end is no exchange and no mixer.
LEMMA MarksPop ==
  ASSUME SearchInv, MarksOK, DeadEnd \/ Expand
  PROVE  MarksOK'
<1> DEFINE h == Head(frontier)
<1>1. /\ Pop /\ pc = "pop" /\ node' = h /\ frontier' = Tail(frontier)
      /\ frontier # <<>> /\ UNCHANGED crossing
  BY DEF DeadEnd, Expand, Pop
<1>2. /\ frontier \in Seq(Node) /\ Len(frontier) \in Nat \ {0} /\ h = frontier[1]
  BY <1>1, EmptySeq, LenProperties DEF SearchInv, FrontierOK
<1>3. /\ Len(frontier') = Len(frontier) - 1
      /\ \A i \in 1 .. Len(frontier') : frontier'[i] = frontier[i + 1]
  BY <1>1, <1>2, HeadTailProperties
<1>4. NearIsNoBridge(node') /\ \A i \in 1 .. Len(frontier') : NearIsNoBridge(frontier'[i])
  <2>1. \A i \in 1 .. Len(frontier') : i + 1 \in 1 .. Len(frontier)
    BY <1>2, <1>3
  <2>2. 1 \in 1 .. Len(frontier)
    BY <1>2
  <2> QED BY <1>1, <1>2, <1>3, <2>1, <2>2 DEF MarksOK
<1>5. CASE DeadEnd
  <2> DEFINE d == [h EXCEPT !.chain = SourceChain]
  <2>1. Report(d, "dead_end", FALSE) /\ pc' = pc /\ h.hops > 0
    BY <1>5 DEF DeadEnd
  <2>2. h \in Node /\ Open(h)
    BY <1>1, FrontierPopped DEF SearchInv
  <2>3. ~IsEnd(h.addr)
    BY <2>1, <2>2 DEF Open
  <2> HIDE DEF h
  <2>4. d.addr = h.addr
    BY <2>2 DEF Node
  <2> HIDE DEF d
  <2>5. WellMarked(AsCandidate(d, "dead_end", FALSE))
    BY <2>3, <2>4 DEF WellMarked, AsCandidate
  <2>6. \A k \in 1 .. Len(candidates') : WellMarked(candidates'[k])
    BY <2>1, <2>5, MarksReported
  <2> QED BY <1>1, <1>4, <2>1, <2>6 DEF MarksOK
<1>6. CASE Expand
  BY <1>1, <1>4, <1>6 DEF Expand, MarksOK
<1> QED BY <1>5, <1>6

\* No step of the search breaks the marks.
LEMMA MarksStep == SearchInv /\ MarksOK /\ [Next]_vars => MarksOK'
<1> SUFFICES ASSUME SearchInv, MarksOK, [Next]_vars PROVE MarksOK'
  OBVIOUS
<1>1. CASE Finish \/ EndScan \/ EndCross \/ Returned \/ UNCHANGED vars
  BY <1>1 DEF MarksOK, Finish, EndScan, EndCross, Returned, vars
<1>2. CASE DeadEnd \/ Expand
  BY <1>2, MarksPop
<1>3. CASE \E i \in DOMAIN ledger : Scan(i)
  BY <1>3, MarksScan
<1>4. CASE \E i \in DOMAIN ledger : Cross(i)
  BY <1>4, MarksCross
<1> QED BY <1>1, <1>2, <1>3, <1>4 DEF Next

-----------------------------------------------------------------------------
(* What the filter hands on. *)

\* c is a report that the filter lets through, relabelled at most as a hub.
Derived(c) ==
    /\ c \in Candidate /\ Clean(c) /\ WellMarked(c)
    /\ c.hops >= 1 /\ ~HasDust(c)
    /\ \E d \in Range(candidates) :
         /\ [d EXCEPT !.role = c.role] = c
         /\ c.role # d.role => d.role = "dead_end" /\ c.role = "hub"

\* What holds of a report that passes holds of it once relabelled.
LEMMA RelabelDerives ==
  ASSUME SearchInv, MarksOK, NEW i \in Kept(candidates)
  PROVE  Derived(Relabel(candidates[i])) /\ Relabel(candidates[i]).path = candidates[i].path
<1> DEFINE d == candidates[i]
           c == Relabel(d)
<1>1. /\ i \in DOMAIN candidates /\ IsBacked(d) /\ ~HasDust(d)
      /\ DOMAIN candidates = 1 .. Len(candidates)
  BY LenProperties DEF Kept, SearchInv, CandidatesOK
<1>2. d \in Candidate /\ Clean(d) /\ WellMarked(d) /\ d \in Range(candidates)
  BY <1>1, ElementOfSeq DEF SearchInv, CandidatesOK, MarksOK, Range
<1> HIDE DEF d
<1>3. d.hops \in Nat /\ d.hops # 0
  BY <1>1, <1>2 DEF Candidate, IsBacked
<1>4. CASE IsHub(d.addr) /\ d.role \notin {"vasp", "mixer"}
  <2>1. c = [d EXCEPT !.role = "hub"]
    BY <1>4 DEF Relabel
  <2>2. /\ c \in Candidate /\ c.role = "hub" /\ c.addr = d.addr /\ c.chain = d.chain
        /\ c.hops = d.hops /\ c.path = d.path /\ c.edges = d.edges /\ c.bridged = d.bridged
    BY <1>2, <2>1 DEF Candidate
  <2>3. [d EXCEPT !.role = c.role] = c /\ (c.role # d.role => d.role = "dead_end")
    BY <1>2, <1>4, <2>1, <2>2 DEF Candidate
  <2> HIDE DEF c
  <2>4. Clean(c)
    BY <1>2, <2>2 DEF Clean, IsTrail
  <2>5. WellMarked(c) /\ ~HasDust(c)
    BY <1>1, <1>2, <1>4, <2>2 DEF WellMarked, HasDust
  <2>6. Derived(c)
    BY <1>2, <1>3, <2>2, <2>3, <2>4, <2>5 DEF Derived
  <2> QED BY <2>2, <2>6 DEF c, d
<1>5. CASE ~(IsHub(d.addr) /\ d.role \notin {"vasp", "mixer"})
  <2>1. c = d
    BY <1>5 DEF Relabel
  <2>2. [d EXCEPT !.role = d.role] = d
    BY <1>2 DEF Candidate
  <2>3. Derived(d)
    BY <1>1, <1>2, <1>3, <2>2 DEF Derived
  <2> QED BY <2>1, <2>3 DEF d
<1> QED BY <1>4, <1>5

\* The filter keeps reports only, in their order, and no path twice.
LEMMA FilterDerives ==
  ASSUME SearchInv, MarksOK
  PROVE  /\ ApplyFilters(candidates) \in Seq(Candidate)
         /\ \A k \in DOMAIN ApplyFilters(candidates) : Derived(ApplyFilters(candidates)[k])
         /\ \A k, l \in DOMAIN ApplyFilters(candidates) :
              ApplyFilters(candidates)[k].path = ApplyFilters(candidates)[l].path => k = l
<1> DEFINE K == Kept(candidates)
           R == {p \in K \X K : p[1] < p[2]}
           o == Ordering(K, R)
           n == Cardinality(K)
           a == ApplyFilters(candidates)
<1>1. K \in SUBSET (1 .. Len(candidates)) /\ Len(candidates) \in Nat
  BY LenProperties DEF Kept, SearchInv, CandidatesOK
<1>2. IsFiniteSet(K)
  <2>1. IsFiniteSet(1 .. Len(candidates))
    BY <1>1, FS_Interval
  <2> HIDE DEF K
  <2> QED BY <1>1, <2>1, FS_Subset
<1>3. IsStrictOrder(K, R)
  BY <1>1 DEF IsStrictOrder
<1>4. /\ n \in Nat /\ o \in [1 .. n -> K]
      /\ \A k, l \in 1 .. n : k < l => <<o[k], o[l]>> \in R
  BY <1>2, <1>3, OrderingSorts
<1>5. a = [k \in 1 .. n |-> Relabel(candidates[o[k]])]
  BY <1>4 DEF ApplyFilters
<1> HIDE DEF o, n, a
<1>6. \A k \in 1 .. n : Derived(a[k]) /\ a[k].path = candidates[o[k]].path
  BY <1>4, <1>5, RelabelDerives
<1>7. ASSUME NEW k \in 1 .. n, NEW l \in 1 .. n, k < l, a[k].path = a[l].path
      PROVE  FALSE
  <2>1. o[k] \in K /\ o[l] \in K /\ o[k] < o[l]
    BY <1>4, <1>7
  <2>2. candidates[o[k]].path = candidates[o[l]].path
    BY <1>6, <1>7
  <2>3. o[k] \in 1 .. o[l] - 1 /\ IsBacked(candidates[o[k]])
    BY <1>1, <2>1 DEF Kept
  <2> QED BY <2>1, <2>2, <2>3 DEF Kept
<1>8. \A k, l \in 1 .. n : a[k].path = a[l].path => k = l
  <2> SUFFICES ASSUME NEW k \in 1 .. n, NEW l \in 1 .. n, a[k].path = a[l].path PROVE k = l
    OBVIOUS
  <2>1. ~(k < l) /\ ~(l < k)
    BY <1>7
  <2> QED BY <1>4, <2>1
<1>9. a \in [1 .. n -> Candidate] /\ DOMAIN a = 1 .. n
  BY <1>5, <1>6 DEF Derived
<1>10. a \in Seq(Candidate)
  BY <1>4, <1>9, SeqDef
<1> QED BY <1>6, <1>8, <1>9, <1>10 DEF a

-----------------------------------------------------------------------------
(* What the score of a report can be. *)

LEMMA MinOfTwo ==
  ASSUME NEW a \in Int, NEW b \in Int
  PROVE  Min({a, b}) = IF a <= b THEN a ELSE b
BY DEF Min

LEMMA GreatestIsIn ==
  ASSUME NEW n \in Nat, NEW S \in SUBSET (1 .. n), S # {}
  PROVE  Max(S) \in S
<1> DEFINE T == {n - k : k \in S}
<1>1. T \in SUBSET Nat /\ T # {}
  <2>1. \A k \in S : n - k \in Nat
    OBVIOUS
  <2>2. PICK k \in S : TRUE
    OBVIOUS
  <2> QED BY <2>1, <2>2
<1>2. PICK m \in T : \A l \in T : m <= l
  BY <1>1, LeastNat
<1>3. PICK x \in S : m = n - x
  BY <1>2
<1>4. ASSUME NEW y \in S PROVE x >= y
  <2>1. n - x <= n - y
    BY <1>2, <1>3
  <2> QED BY <2>1
<1>5. \E x1 \in S : \A y \in S : x1 >= y
  BY <1>4
<1> QED BY <1>5 DEF Max

\* The last transaction of a report that has a timestamp dates it.
LEMMA AgeIsNat ==
  ASSUME SearchInv, NEW c, Derived(c)
  PROVE  Age(c) \in Nat
<1>1. /\ c.edges \in Seq(Nat) /\ Len(c.edges) = c.hops /\ c.hops \in Nat
      /\ \A k \in 1 .. c.hops : c.edges[k] \in DOMAIN ledger
  BY DEF Derived, Clean, IsTrail, Candidate
<1>2. Dated(c) \in SUBSET (1 .. c.hops)
  BY <1>1, LenProperties DEF Dated
<1>3. CASE Dated(c) = {}
  BY <1>3 DEF Age
<1>4. CASE Dated(c) # {}
  <2> DEFINE k == Max(Dated(c))
  <2>1. k \in Dated(c)
    BY <1>1, <1>2, <1>4, GreatestIsIn
  <2> HIDE DEF k
  <2>2. c.edges[k] \in DOMAIN ledger /\ ledger[c.edges[k]].age # NoAge
    BY <1>1, <1>2, <2>1 DEF Dated
  <2>3. ledger[c.edges[k]] \in Tx
    BY <2>2, LenProperties, ElementOfSeq DEF SearchInv
  <2>4. ledger[c.edges[k]].age \in Nat
    BY <2>2, <2>3 DEF Tx
  <2> QED BY <1>4, <2>4 DEF Age, k
<1> QED BY <1>3, <1>4

LEMMA DecayBounds ==
  ASSUME SearchInv, NEW c, Derived(c)
  PROVE  Decay(c) \in 0 .. 180
<1>1. Age(c) \in Nat
  BY AgeIsNat
<1>2. Min({180, Age(c)}) = IF 180 <= Age(c) THEN 180 ELSE Age(c)
  <2>1. Age(c) \in Int /\ 180 \in Int
    BY <1>1
  <2> QED BY <2>1, MinOfTwo, Zenon
<1> QED BY <1>1, <1>2 DEF Decay, OrZero

\* The tiers, confidences and ranks are in their ranges.
LEMMA ScoreTyped ==
  ASSUME SearchInv, NEW c, Derived(c)
  PROVE  /\ Proximity(c) \in 90 * c.hops .. 90 * c.hops + 450
         /\ EvidenceTier(c) \in DOMAIN TierScore
         /\ Confidence(c) \in 0 .. 600
         /\ c.role = "dead_end" => Confidence(c) <= 330
<1>1. c.hops \in Nat /\ Age(c) \in Nat /\ Decay(c) \in 0 .. 180
  BY AgeIsNat, DecayBounds DEF Derived, Candidate
<1>2. EvidenceTier(c) \in {1, 2, 3, 4, 99}
  BY DEF EvidenceTier
<1>3. DOMAIN TierScore = {1, 2, 3, 4, 99} /\ TierScore[EvidenceTier(c)] \in 0 .. 100
  BY <1>2 DEF TierScore
<1>4. Proximity(c) \in 90 * c.hops .. 90 * c.hops + 450
  <2> DEFINE base == 90 * c.hops
             x == OrZero(HitsMixer(c), 180)
             y == OrZero(c.bridged, 90)
  <2>1. base \in Int /\ x \in 0 .. 180 /\ y \in 0 .. 90
    BY <1>1 DEF OrZero
  <2>2. Proximity(c) = base + x + y + Decay(c)
    BY DEF Proximity
  <2> HIDE DEF base, x, y
  <2>3. Proximity(c) \in base .. base + 450
    BY <1>1, <2>1, <2>2
  <2> QED BY <2>3 DEF base
<1>5. Freshness(c) \in {40, 70, 100}
  BY DEF Freshness
<1>6. Min({100, 25 * c.hops}) \in 0 .. 100
  <2>1. 25 * c.hops \in Nat /\ 100 \in Int
    BY <1>1
  <2>2. 25 * c.hops \in Int
    BY <2>1
  <2>3. Min({100, 25 * c.hops}) = IF 100 <= 25 * c.hops THEN 100 ELSE 25 * c.hops
    BY <2>1, <2>2, MinOfTwo, Zenon
  <2> QED BY <2>1, <2>3
<1>7. /\ Confidence(c) \in 0 .. 600
      /\ c.role = "dead_end" => Confidence(c) <= 330
  <2> DEFINE label == OrZero(c.label, 100)
             role  == OrZero(c.role = "vasp", 100)
             whole == OrZero(c.hops = Len(c.edges), 100)
             tier  == TierScore[EvidenceTier(c)]
             far   == Min({100, 25 * c.hops})
  <2>1. label \in 0 .. 100 /\ role \in 0 .. 100 /\ whole \in 0 .. 100
    BY DEF OrZero
  <2>2. \/ Confidence(c) = 0
        \/ Confidence(c) = tier + label + far + role + whole + Freshness(c)
    BY DEF Confidence
  <2>3. tier \in 0 .. 100 /\ far \in 0 .. 100
    BY <1>3, <1>6
  <2>10. c.role = "dead_end" => label = 0 /\ role = 0 /\ tier = 30
    <3> SUFFICES ASSUME c.role = "dead_end" PROVE label = 0 /\ role = 0 /\ tier = 30
      OBVIOUS
    <3>1. ~c.label
      BY DEF Derived, WellMarked
    <3>2. EvidenceTier(c) = 4
      BY DEF EvidenceTier, HitsMixer, IsLabelledVasp
    <3> QED BY <3>1, <3>2 DEF OrZero, TierScore
  <2> HIDE DEF label, role, whole, tier, far
  <2> DEFINE two   == tier + label
             three == two + far
             four  == three + role
             five  == four + whole
  <2>4. two \in 0 .. 200
    BY <2>1, <2>3
  <2> HIDE DEF two
  <2>5. three \in 0 .. 300
    BY <2>3, <2>4
  <2> HIDE DEF three
  <2>6. four \in 0 .. 400
    BY <2>1, <2>5
  <2> HIDE DEF four
  <2>7. five \in 0 .. 500
    BY <2>1, <2>6
  <2> HIDE DEF five
  <2>8. five + Freshness(c) \in 0 .. 600
    BY <1>5, <2>7
  <2>9. Confidence(c) = 0 \/ Confidence(c) = five + Freshness(c)
    BY <2>2 DEF two, three, four, five
  <2>11. c.role = "dead_end" => five \in 0 .. 230
    BY <2>1, <2>3, <2>10 DEF two, three, four, five
  <2> QED BY <1>5, <2>8, <2>9, <2>11
<1> QED BY <1>2, <1>3, <1>4, <1>7

-----------------------------------------------------------------------------
(* Ranking sorts. *)

\* The lexicographic order of two keys of four parts.
LEMMA LexOrder ==
  ASSUME NEW x, NEW y, DOMAIN x = 1 .. 4
  PROVE  LexLess(x, y) <=>
           \/ x[1] < y[1]
           \/ x[1] = y[1] /\ x[2] < y[2]
           \/ x[1] = y[1] /\ x[2] = y[2] /\ x[3] < y[3]
           \/ x[1] = y[1] /\ x[2] = y[2] /\ x[3] = y[3] /\ x[4] < y[4]
<1>1. /\ 1 .. 4 = {1, 2, 3, 4}
      /\ 1 .. 1 - 1 = {} /\ 1 .. 2 - 1 = {1} /\ 1 .. 3 - 1 = {1, 2}
      /\ 1 .. 4 - 1 = {1, 2, 3}
  OBVIOUS
<1>2. LexLess(x, y) <=> \E k \in {1, 2, 3, 4} : x[k] < y[k] /\ \A j \in 1 .. k - 1 : x[j] = y[j]
  BY <1>1 DEF LexLess
<1>3. LexLess(x, y) <=>
        \/ x[1] < y[1] /\ \A j \in 1 .. 1 - 1 : x[j] = y[j]
        \/ x[2] < y[2] /\ \A j \in 1 .. 2 - 1 : x[j] = y[j]
        \/ x[3] < y[3] /\ \A j \in 1 .. 3 - 1 : x[j] = y[j]
        \/ x[4] < y[4] /\ \A j \in 1 .. 4 - 1 : x[j] = y[j]
  BY <1>2
<1> QED BY <1>1, <1>3

\* ss is a list of scored reports, no path twice.
ScoredOK(ss) ==
    /\ \E n \in Nat : DOMAIN ss = 1 .. n
    /\ \A i \in DOMAIN ss : ss[i] = Score(ss[i].cand) /\ Derived(ss[i].cand)
    /\ \A i, j \in DOMAIN ss : ss[i].cand.path = ss[j].cand.path => i = j

\* The parts of a rank key are numbers.
LEMMA KeyParts ==
  ASSUME SearchInv, NEW ss, ScoredOK(ss), NEW i \in DOMAIN ss
  PROVE  /\ ss[i].proximity \in Int /\ ss[i].tier \in Int
         /\ ss[i].cand.hops \in Int /\ AddrOrder[ss[i].cand.addr] \in Int
<1>1. ss[i] = Score(ss[i].cand) /\ Derived(ss[i].cand)
  BY DEF ScoredOK
<1>2. ss[i].cand.hops \in Nat /\ ss[i].cand.addr \in Addr
  BY <1>1 DEF Derived, Candidate
<1>3. AddrOrder[ss[i].cand.addr] \in Nat
  BY <1>2, EngineConstantsOK
<1>4. /\ ss[i].proximity = Proximity(ss[i].cand)
      /\ ss[i].tier = EvidenceTier(ss[i].cand)
  BY <1>1 DEF Score
<1>5. ss[i].proximity \in Int
  BY <1>1, <1>2, <1>4, ScoreTyped
<1>6. ss[i].tier \in Int
  BY <1>4 DEF EvidenceTier
<1> QED BY <1>2, <1>3, <1>5, <1>6

\* The order of results: by proximity, among equals by tier, then by hops.
InOrder(x, y) ==
    \/ x.proximity < y.proximity
    \/ x.proximity = y.proximity /\ x.tier < y.tier
    \/ x.proximity = y.proximity /\ x.tier = y.tier /\ x.cand.hops <= y.cand.hops

\* Sorting by rank key, then by place, is a strict order that respects InOrder.
LEMMA RankIsOrder ==
  ASSUME SearchInv, NEW ss, ScoredOK(ss)
  PROVE  /\ IsStrictOrder(DOMAIN ss, RankBefore(ss))
         /\ \A i, j \in DOMAIN ss :
              <<i, j>> \in RankBefore(ss) => InOrder(ss[i], ss[j])
<1> DEFINE a(i) == ss[i].proximity
           b(i) == ss[i].tier
           c(i) == ss[i].cand.hops
           d(i) == AddrOrder[ss[i].cand.addr]
           Less(i, j) == \/ a(i) < a(j)
                         \/ a(i) = a(j) /\ b(i) < b(j)
                         \/ a(i) = a(j) /\ b(i) = b(j) /\ c(i) < c(j)
                         \/ a(i) = a(j) /\ b(i) = b(j) /\ c(i) = c(j) /\ d(i) < d(j)
           Same(i, j) == a(i) = a(j) /\ b(i) = b(j) /\ c(i) = c(j) /\ d(i) = d(j)
<1>1. \A i \in DOMAIN ss : i \in Int /\ a(i) \in Int /\ b(i) \in Int /\ c(i) \in Int /\ d(i) \in Int
  <2> SUFFICES ASSUME NEW i \in DOMAIN ss
               PROVE  i \in Int /\ a(i) \in Int /\ b(i) \in Int /\ c(i) \in Int /\ d(i) \in Int
    OBVIOUS
  <2>1. /\ ss[i].proximity \in Int /\ ss[i].tier \in Int
        /\ ss[i].cand.hops \in Int /\ AddrOrder[ss[i].cand.addr] \in Int
    BY KeyParts
  <2>2. i \in Int
    BY DEF ScoredOK
  <2> QED BY <2>1, <2>2
<1>2. ASSUME NEW i \in DOMAIN ss, NEW j \in DOMAIN ss
      PROVE  /\ LexLess(RankKey(ss[i]), RankKey(ss[j])) <=> Less(i, j)
             /\ RankKey(ss[i]) = RankKey(ss[j]) <=> Same(i, j)
  <2> DEFINE x == RankKey(ss[i])
             y == RankKey(ss[j])
  <2>1. x = <<a(i), b(i), c(i), d(i)>> /\ y = <<a(j), b(j), c(j), d(j)>>
    BY DEF RankKey
  <2> HIDE DEF x, y, a, b, c, d
  <2>2. /\ DOMAIN x = 1 .. 4
        /\ x[1] = a(i) /\ x[2] = b(i) /\ x[3] = c(i) /\ x[4] = d(i)
        /\ y[1] = a(j) /\ y[2] = b(j) /\ y[3] = c(j) /\ y[4] = d(j)
    BY <2>1
  <2>3. LexLess(x, y) <=> Less(i, j)
    BY <2>2, LexOrder
  <2>4. x = y <=> Same(i, j)
    BY <2>1
  <2> QED BY <2>3, <2>4 DEF x, y
<1> HIDE DEF a, b, c, d, Less, Same
<1>3. ASSUME NEW i \in DOMAIN ss, NEW j \in DOMAIN ss
      PROVE  <<i, j>> \in RankBefore(ss) <=> Less(i, j) \/ (Same(i, j) /\ i < j)
  <2>1. <<i, j>> \in RankBefore(ss) <=>
          \/ LexLess(RankKey(ss[i]), RankKey(ss[j]))
          \/ RankKey(ss[i]) = RankKey(ss[j]) /\ i < j
    BY DEF RankBefore
  <2> QED BY <1>2, <2>1
<1> USE DEF Less, Same
<1>4. \A i \in DOMAIN ss : <<i, i>> \notin RankBefore(ss)
  BY <1>1, <1>3
<1>5. \A i, j \in DOMAIN ss : i = j \/ <<i, j>> \in RankBefore(ss) \/ <<j, i>> \in RankBefore(ss)
  <2> SUFFICES ASSUME NEW i \in DOMAIN ss, NEW j \in DOMAIN ss
               PROVE  i = j \/ <<i, j>> \in RankBefore(ss) \/ <<j, i>> \in RankBefore(ss)
    OBVIOUS
  <2>1. /\ i \in Int /\ a(i) \in Int /\ b(i) \in Int /\ c(i) \in Int /\ d(i) \in Int
        /\ j \in Int /\ a(j) \in Int /\ b(j) \in Int /\ c(j) \in Int /\ d(j) \in Int
    BY <1>1
  <2>2. i = j \/ Less(i, j) \/ (Same(i, j) /\ i < j) \/ Less(j, i) \/ (Same(j, i) /\ j < i)
    BY <2>1
  <2> QED BY <1>3, <2>2
<1>6. \A i, j, k \in DOMAIN ss :
        <<i, j>> \in RankBefore(ss) /\ <<j, k>> \in RankBefore(ss) => <<i, k>> \in RankBefore(ss)
  <2> SUFFICES ASSUME NEW i \in DOMAIN ss, NEW j \in DOMAIN ss, NEW k \in DOMAIN ss,
                      <<i, j>> \in RankBefore(ss), <<j, k>> \in RankBefore(ss)
               PROVE  <<i, k>> \in RankBefore(ss)
    OBVIOUS
  <2>1. (Less(i, j) \/ (Same(i, j) /\ i < j)) /\ (Less(j, k) \/ (Same(j, k) /\ j < k))
    BY <1>3
  <2>2. /\ i \in Int /\ a(i) \in Int /\ b(i) \in Int /\ c(i) \in Int /\ d(i) \in Int
        /\ j \in Int /\ a(j) \in Int /\ b(j) \in Int /\ c(j) \in Int /\ d(j) \in Int
        /\ k \in Int /\ a(k) \in Int /\ b(k) \in Int /\ c(k) \in Int /\ d(k) \in Int
    BY <1>1
  <2>3. Less(i, k) \/ (Same(i, k) /\ i < k)
    BY <2>1, <2>2
  <2> QED BY <1>3, <2>3
<1>7. \A i, j \in DOMAIN ss :
        <<i, j>> \in RankBefore(ss) =>
          a(i) < a(j) \/ (a(i) = a(j) /\ (b(i) < b(j) \/ (b(i) = b(j) /\ c(i) <= c(j))))
  BY <1>1, <1>3
<1> QED BY <1>4, <1>5, <1>6, <1>7 DEF IsStrictOrder, InOrder, a, b, c

\* Ranking permutes a list of scored reports into that order.
LEMMA RankSorts ==
  ASSUME SearchInv, NEW ss, ScoredOK(ss)
  PROVE  /\ ScoredOK(Rank(ss))
         /\ \A i, j \in DOMAIN Rank(ss) :
              i < j => InOrder(Rank(ss)[i], Rank(ss)[j])
<1> DEFINE o == Ordering(DOMAIN ss, RankBefore(ss))
           r == Rank(ss)
<1>1. PICK n \in Nat : DOMAIN ss = 1 .. n
  BY DEF ScoredOK
<1>2. IsFiniteSet(DOMAIN ss) /\ Cardinality(DOMAIN ss) = n
  BY <1>1, FS_Interval
<1>3. /\ o \in [1 .. n -> DOMAIN ss]
      /\ \A k, l \in 1 .. n : k < l => <<o[k], o[l]>> \in RankBefore(ss)
  BY <1>2, RankIsOrder, OrderingSorts
<1>4. r = [k \in 1 .. n |-> ss[o[k]]]
  BY <1>1 DEF Rank
<1> HIDE DEF o, r
<1>5. \A k \in 1 .. n : o[k] \in DOMAIN ss /\ r[k] = ss[o[k]]
  BY <1>3, <1>4
<1>6. \A k \in 1 .. n : r[k] = Score(r[k].cand) /\ Derived(r[k].cand)
  BY <1>5 DEF ScoredOK
<1>7. ASSUME NEW k \in 1 .. n, NEW l \in 1 .. n, r[k].cand.path = r[l].cand.path
      PROVE  k = l
  <2>1. o[k] = o[l]
    BY <1>5, <1>7 DEF ScoredOK
  <2>2. <<o[k], o[l]>> \notin RankBefore(ss) /\ <<o[l], o[k]>> \notin RankBefore(ss)
    BY <1>5, <2>1, RankIsOrder DEF IsStrictOrder
  <2> QED BY <1>3, <2>2
<1>8. \A k, l \in 1 .. n : k < l => InOrder(r[k], r[l])
  BY <1>3, <1>5, RankIsOrder
<1>9. DOMAIN r = 1 .. n
  BY <1>4
<1> QED BY <1>6, <1>7, <1>8, <1>9 DEF ScoredOK, r

-----------------------------------------------------------------------------
(* The invariant of the pipeline. *)

\* cs is a list of filtered reports, no path twice.
FilteredOK(cs) ==
    /\ cs \in Seq(Candidate)
    /\ \A i \in DOMAIN cs : Derived(cs[i])
    /\ \A i, j \in DOMAIN cs : cs[i].path = cs[j].path => i = j

\* What each stage hands to the next one.
EngineInv ==
    /\ SearchInv
    /\ MarksOK
    /\ stage \in {"discovery", "score", "rank", "explain", "returned"}
    /\ stage = "score" => FilteredOK(scored)
    /\ stage \in {"rank", "explain", "returned"} => ScoredOK(scored)
    /\ Ranked =>
         /\ outcome.insufficient = (outcome.kind = "insufficient_evidence")
         /\ \A i, j \in DOMAIN scored : i < j => InOrder(scored[i], scored[j])

LEMMA EngineInitInv == EngineInit => EngineInv
BY InitSearchInv, InitMarks DEF EngineInit, EngineInv, Ranked

\* After the search nothing changes what a report rests on.
LEMMA DerivedStays ==
  ASSUME UNCHANGED <<ledger, candidates>>, NEW c
  PROVE  (Derived(c) <=> Derived(c)') /\ Score(c)' = Score(c)
<1>1. (Clean(c) <=> Clean(c)') /\ (WellMarked(c) <=> WellMarked(c)')
  BY OpenStays DEF WellMarked, IsEnd
<1>2. HasDust(c) <=> HasDust(c)'
  BY DEF HasDust, IsDust
<1>3. Derived(c) <=> Derived(c)'
  BY <1>1, <1>2 DEF Derived
<1>4. Age(c)' = Age(c)
  BY DEF Age, Dated
<1>5. Proximity(c)' = Proximity(c) /\ Freshness(c)' = Freshness(c)
  BY <1>4 DEF Proximity, Decay, Freshness
<1>6. Confidence(c)' = Confidence(c) /\ Evidence(c)' = Evidence(c)
  BY <1>5 DEF Confidence, Evidence
<1>7. Score(c)' = Score(c)
  BY <1>5, <1>6 DEF Score
<1> QED BY <1>3, <1>7

LEMMA ListsStay ==
  ASSUME UNCHANGED <<ledger, candidates>>, NEW ss
  PROVE  (FilteredOK(ss) <=> FilteredOK(ss)') /\ (ScoredOK(ss) <=> ScoredOK(ss)')
BY DerivedStays DEF FilteredOK, ScoredOK

LEMMA EngineStep == EngineInv /\ [EngineNext]_<<vars, engineVars>> => EngineInv'
<1> SUFFICES ASSUME EngineInv, [EngineNext]_<<vars, engineVars>> PROVE EngineInv'
  OBVIOUS
<1> USE DEF Ranked
<1>1. SearchInv' /\ MarksOK'
  <2>1. [Next]_vars
    BY DEF EngineNext, Search, Filter, ScoreAll, RankAll, ExplainAll, Answered
  <2> QED BY <2>1, SearchStep, MarksStep DEF EngineInv
<1>2. CASE Search
  BY <1>1, <1>2 DEF Search, engineVars, EngineInv
<1>3. CASE Filter
  <2>1. /\ scored' = ApplyFilters(candidates) /\ stage' = "score"
        /\ UNCHANGED <<ledger, candidates>>
    BY <1>3 DEF Filter, vars
  <2>2. FilteredOK(ApplyFilters(candidates))
    BY FilterDerives DEF EngineInv, FilteredOK
  <2>3. FilteredOK(scored)'
    <3>1. PICK cs : cs = scored'
      OBVIOUS
    <3>2. FilteredOK(cs)'
      BY <2>1, <2>2, <3>1, ListsStay
    <3> QED BY <3>1, <3>2 DEF FilteredOK
  <2> QED BY <1>1, <2>1, <2>3 DEF EngineInv
<1>4. CASE ScoreAll
  <2>1. /\ stage = "score" /\ stage' = "rank" /\ UNCHANGED <<ledger, candidates>>
        /\ scored' = [i \in DOMAIN scored |-> Score(scored[i])]
    BY <1>4 DEF ScoreAll, vars
  <2>2. FilteredOK(scored)
    BY <2>1 DEF EngineInv
  <2>3. DOMAIN scored' = DOMAIN scored /\ DOMAIN scored = 1 .. Len(scored) /\ Len(scored) \in Nat
    BY <2>1, <2>2, LenProperties DEF FilteredOK
  <2>4. \A i \in DOMAIN scored : scored'[i] = Score(scored[i]) /\ scored'[i].cand = scored[i]
    BY <2>1 DEF Score
  <2>5. PICK ss : ss = scored'
    OBVIOUS
  <2>6. ScoredOK(ss)
    <3>1. \E n \in Nat : DOMAIN ss = 1 .. n
      BY <2>3, <2>5
    <3>2. \A i \in DOMAIN ss : ss[i] = Score(ss[i].cand) /\ Derived(ss[i].cand)
      BY <2>2, <2>3, <2>4, <2>5 DEF FilteredOK
    <3>3. \A i, j \in DOMAIN ss : ss[i].cand.path = ss[j].cand.path => i = j
      BY <2>2, <2>3, <2>4, <2>5 DEF FilteredOK
    <3> QED BY <3>1, <3>2, <3>3 DEF ScoredOK
  <2>7. ScoredOK(scored)'
    <3>1. ScoredOK(ss)'
      BY <2>1, <2>6, ListsStay
    <3> QED BY <2>5, <3>1 DEF ScoredOK
  <2> QED BY <1>1, <2>1, <2>7 DEF EngineInv
<1>5. CASE RankAll
  <2>1. /\ stage = "rank" /\ stage' = "explain" /\ UNCHANGED <<ledger, candidates>>
        /\ scored' = Rank(scored) /\ outcome' = ClassifyOutcome(scored')
    BY <1>5 DEF RankAll, vars
  <2>2. /\ ScoredOK(scored')
        /\ \A i, j \in DOMAIN scored' : i < j => InOrder(scored'[i], scored'[j])
    BY <2>1, RankSorts DEF EngineInv
  <2>3. ScoredOK(scored)'
    <3>1. PICK ss : ss = scored'
      OBVIOUS
    <3>2. ScoredOK(ss)'
      BY <2>1, <2>2, <3>1, ListsStay
    <3> QED BY <3>1, <3>2 DEF ScoredOK
  <2>4. outcome'.insufficient = (outcome'.kind = "insufficient_evidence")
    BY <2>1 DEF ClassifyOutcome
  <2> QED BY <1>1, <2>1, <2>2, <2>3, <2>4 DEF EngineInv
<1>6. CASE ExplainAll \/ Answered \/ UNCHANGED <<vars, engineVars>>
  <2>1. /\ UNCHANGED <<ledger, candidates, scored, outcome>>
        /\ stage' = stage \/ (stage = "explain" /\ stage' = "returned")
    BY <1>6 DEF ExplainAll, Answered, vars, engineVars
  <2>2. (FilteredOK(scored) <=> FilteredOK(scored)') /\ (ScoredOK(scored) <=> ScoredOK(scored)')
    BY <2>1, DerivedStays DEF FilteredOK, ScoredOK
  <2> QED BY <1>1, <2>1, <2>2 DEF EngineInv
<1> QED BY <1>2, <1>3, <1>4, <1>5, <1>6 DEF EngineNext

\* What every stage may rely on, for every dataset and every bound.
THEOREM EngineInvHolds == EngineSpec => []EngineInv
BY EngineInitInv, EngineStep, PTL DEF EngineSpec

-----------------------------------------------------------------------------
(* The properties of Engine, from the invariant. *)

\* What is known of a result.
LEMMA ResultIsScored ==
  ASSUME EngineInv, Ranked, NEW s \in Result
  PROVE  /\ s = Score(s.cand) /\ Derived(s.cand)
         /\ s.cand.hops \in Nat /\ s.cand.hops >= 1
<1>1. PICK i \in DOMAIN scored : s = scored[i]
  BY DEF Result
<1>2. s = Score(s.cand) /\ Derived(s.cand)
  BY <1>1 DEF EngineInv, Ranked, ScoredOK
<1>3. s.cand.hops \in Nat /\ s.cand.hops >= 1
  BY <1>2 DEF Derived, Candidate
<1> QED BY <1>2, <1>3

\* Type correctness of the pipeline: ranks, scores and tiers stay in their
\* ranges for every dataset.
THEOREM PipelineTyped == EngineSpec => []EngineTypeOK
<1>1. EngineInv => EngineTypeOK
  <2> SUFFICES ASSUME EngineInv PROVE EngineTypeOK
    OBVIOUS
  <2>1. TypeOK
    BY DEF EngineInv, SearchInv, FrontierOK, CandidatesOK, LoopOK, TypeOK
  <2>2. ASSUME stage = "score" PROVE Range(scored) \subseteq Candidate
    BY <2>2, ElementOfSeq, LenProperties DEF EngineInv, FilteredOK, Range
  <2>3. ASSUME stage \in {"rank", "explain", "returned"}, NEW s \in Result
        PROVE  /\ s.cand \in Candidate
               /\ s.proximity \in 90 * s.cand.hops .. 90 * s.cand.hops + 450
               /\ s.confidence \in 0 .. 600
               /\ s.cand.role = "dead_end" => s.confidence <= 330
               /\ s.tier \in DOMAIN TierScore
    <3>1. s = Score(s.cand) /\ Derived(s.cand)
      BY <2>3 DEF EngineInv, Result, ScoredOK
    <3>2. /\ s.proximity = Proximity(s.cand) /\ s.confidence = Confidence(s.cand)
          /\ s.tier = EvidenceTier(s.cand)
      BY <3>1 DEF Score
    <3>3. SearchInv /\ s.cand \in Candidate
      BY <3>1 DEF EngineInv, Derived
    <3> QED BY <3>1, <3>2, <3>3, ScoreTyped
  <2> QED BY <2>1, <2>2, <2>3 DEF EngineInv, EngineTypeOK
<1> QED BY <1>1, EngineInvHolds, PTL

\* An exchange is attributed only along real transfers from the suspect, none
\* of them dust, none of them past a mixer or another exchange.
THEOREM AttributionsBacked == EngineSpec => []AttributionIsBacked
<1>1. EngineInv => AttributionIsBacked
  BY ResultIsScored DEF AttributionIsBacked, Derived, Clean, HasDust, IsEnd
<1> QED BY <1>1, EngineInvHolds, PTL

\* Tier 1 is a transfer from the suspect itself, tier 2 crosses no bridge.
THEOREM TiersHold == EngineSpec => []TierMeansEvidence
<1>1. EngineInv => TierMeansEvidence
  <2> SUFFICES ASSUME EngineInv, Ranked, NEW s \in Result
               PROVE  /\ s.tier = 1 => \E i \in DOMAIN ledger :
                           ledger[i].from = Suspect /\ ledger[i].to = s.cand.addr /\ ~IsDust(i)
                      /\ s.tier \in {1, 2} =>
                           \A k \in 2 .. s.cand.hops : Role[s.cand.path[k]] # "bridge"
    BY DEF TierMeansEvidence
  <2> DEFINE c == s.cand
  <2>1. s = Score(c) /\ Derived(c) /\ c.hops \in Nat /\ c.hops >= 1
    BY ResultIsScored
  <2>2. s.tier = EvidenceTier(c)
    BY <2>1 DEF Score
  <2> HIDE DEF c
  <2>3. /\ s.tier = 1 => c.hops = 1
        /\ s.tier = 2 => c.hops = 2 /\ c.role = "vasp" /\ ~c.bridged
    BY <2>2 DEF EvidenceTier, IsLabelledVasp
  <2>4. /\ IsTrail(c) /\ WellMarked(c) /\ ~HasDust(c) /\ c.edges \in Seq(Nat)
    BY <2>1 DEF Derived, Clean, Candidate
  <2>5. ASSUME s.tier = 1
        PROVE  /\ c.edges[1] \in DOMAIN ledger
               /\ ledger[c.edges[1]].from = Suspect /\ ledger[c.edges[1]].to = c.addr
               /\ ~IsDust(c.edges[1])
    <3>1. c.hops = 1 /\ 1 \in 1 .. c.hops /\ Len(c.edges) = 1
      BY <2>3, <2>4, <2>5 DEF IsTrail
    <3>2. 1 \in DOMAIN c.edges
      BY <2>4, <3>1, LenProperties
    <3> QED BY <2>4, <3>1, <3>2 DEF IsTrail, HasDust
  <2>6. ASSUME s.tier \in {1, 2}, NEW k \in 2 .. c.hops PROVE Role[c.path[k]] # "bridge"
    <3>1. k = 2 /\ c.hops = 2 /\ c.role = "vasp" /\ ~c.bridged
      BY <2>1, <2>3, <2>6
    <3> QED BY <2>4, <3>1 DEF WellMarked
  <2> QED BY <2>5, <2>6 DEF c
<1> QED BY <1>1, EngineInvHolds, PTL

\* A trail that meets a mixer ends in it, with no confidence and no evidence
\* but the mixer stop.
THEOREM MixerRule == EngineSpec => []MixerHardStop
<1>1. EngineInv => MixerHardStop
  <2> SUFFICES ASSUME EngineInv, Ranked, NEW s \in Result, NEW k \in 2 .. s.cand.hops + 1,
                      Role[s.cand.path[k]] = "mixer"
               PROVE  /\ k = s.cand.hops + 1
                      /\ s.confidence = 0 /\ s.band = "low" /\ s.tier = 99
                      /\ s.evidence = {"mixer_stop"}
    BY DEF MixerHardStop
  <2> DEFINE c == s.cand
  <2>1. s = Score(c) /\ Derived(c) /\ c.hops \in Nat /\ c.hops >= 1
    BY ResultIsScored
  <2>2. Clean(c) /\ WellMarked(c)
    BY <2>1 DEF Derived
  <2>3. k = c.hops + 1
    <3>1. k \notin 2 .. c.hops
      BY <2>2 DEF Clean, IsEnd
    <3> QED BY <2>1, <3>1
  <2>4. Role[c.addr] = "mixer"
    BY <2>2, <2>3 DEF Clean, IsTrail
  <2>5. HitsMixer(c)
    BY <2>2, <2>4 DEF WellMarked, IsEnd, HitsMixer
  <2> HIDE DEF c
  <2>6. Confidence(c) = 0 /\ EvidenceTier(c) = 99 /\ Evidence(c) = {"mixer_stop"}
    <3>1. EvidenceTier(c) = 99
      BY <2>5 DEF EvidenceTier, IsLabelledVasp, HitsMixer
    <3>2. Confidence(c) = 0 /\ Evidence(c) = {"mixer_stop"}
      BY <2>5 DEF Confidence, Evidence
    <3> QED BY <3>1, <3>2
  <2>7. Band(0) = "low"
    BY DEF Band
  <2>8. /\ s.confidence = Confidence(c) /\ s.band = Band(Confidence(c))
        /\ s.tier = EvidenceTier(c) /\ s.evidence = Evidence(c)
    BY <2>1 DEF Score
  <2> QED BY <2>3, <2>6, <2>7, <2>8 DEF c
<1> QED BY <1>1, EngineInvHolds, PTL

\* Of two reports of one role, the nearer one has no worse a tier, when it has
\* a label or the farther one has none.
LEMMA NearerTier ==
  ASSUME NEW c, NEW d, c.role = d.role, c.bridged = d.bridged,
         c.hops \in Nat, d.hops \in Nat, c.hops >= 1, c.hops < d.hops, d.label => c.label
  PROVE  /\ EvidenceTier(c) <= EvidenceTier(d)
         /\ EvidenceTier(c) \in Int /\ EvidenceTier(d) \in Int
<1>1. CASE HitsMixer(c)
  <2>1. HitsMixer(d) /\ ~IsLabelledVasp(c) /\ ~IsLabelledVasp(d)
    BY <1>1 DEF HitsMixer, IsLabelledVasp
  <2>2. EvidenceTier(c) = 99 /\ EvidenceTier(d) = 99
    BY <1>1, <2>1 DEF EvidenceTier
  <2> QED BY <2>2
<1>2. CASE ~HitsMixer(c) /\ IsLabelledVasp(d)
  <2>1. ~HitsMixer(d) /\ IsLabelledVasp(c)
    BY <1>2 DEF HitsMixer, IsLabelledVasp
  <2> QED BY <1>2, <2>1 DEF EvidenceTier
<1>3. CASE ~HitsMixer(c) /\ ~IsLabelledVasp(d)
  <2>1. EvidenceTier(d) = 4
    BY <1>3 DEF EvidenceTier, HitsMixer
  <2>2. EvidenceTier(c) \in {1, 2, 3, 4}
    BY <1>3 DEF EvidenceTier
  <2> QED BY <2>1, <2>2
<1> QED BY <1>1, <1>2, <1>3

\* Age never costs a candidate more than two hops, and a tie at two hops goes to
\* the nearer one.
THEOREM AgeIsBounded == EngineSpec => []AgeCostsTwoHops
<1>1. EngineInv => AgeCostsTwoHops
  <2> SUFFICES ASSUME EngineInv, Ranked, NEW i \in DOMAIN scored, NEW j \in DOMAIN scored,
                      scored[i].cand.role = scored[j].cand.role,
                      scored[i].cand.bridged = scored[j].cand.bridged,
                      \/ scored[i].cand.hops + 2 < scored[j].cand.hops
                      \/ /\ scored[i].cand.hops + 2 = scored[j].cand.hops
                         /\ scored[j].cand.label => scored[i].cand.label
               PROVE  i < j
    BY DEF AgeCostsTwoHops
  <2> DEFINE c == scored[i].cand
             d == scored[j].cand
             fixed(x) == OrZero(HitsMixer(x), 180) + OrZero(x.bridged, 90)
  <2>1. /\ scored[i] = Score(c) /\ Derived(c) /\ c.hops \in Nat /\ c.hops >= 1
        /\ scored[j] = Score(d) /\ Derived(d) /\ d.hops \in Nat
    BY ResultIsScored DEF Result
  <2>2. /\ scored[i].proximity = Proximity(c) /\ scored[j].proximity = Proximity(d)
        /\ scored[i].tier = EvidenceTier(c) /\ scored[j].tier = EvidenceTier(d)
    BY <2>1 DEF Score
  <2>3. Decay(c) \in 0 .. 180 /\ Decay(d) \in 0 .. 180
    BY <2>1, DecayBounds DEF EngineInv
  <2>4. fixed(c) = fixed(d) /\ fixed(c) \in Int
    <3>1. /\ OrZero(HitsMixer(c), 180) \in {0, 180} /\ OrZero(c.bridged, 90) \in {0, 90}
      BY DEF OrZero
    <3>2. /\ OrZero(HitsMixer(c), 180) = OrZero(HitsMixer(d), 180)
          /\ OrZero(c.bridged, 90) = OrZero(d.bridged, 90)
      BY DEF HitsMixer, OrZero
    <3> QED BY <3>1, <3>2
  <2>5. /\ i \in Int /\ j \in Int /\ c.role = d.role /\ c.bridged = d.bridged
        /\ \/ c.hops + 2 < d.hops
           \/ c.hops + 2 = d.hops /\ (d.label => c.label)
    BY DEF EngineInv, Ranked, ScoredOK
  <2>10. j < i => InOrder(scored[j], scored[i])
    BY DEF EngineInv
  <2>11. scored[i].cand = c /\ scored[j].cand = d
    OBVIOUS
  <2>6. ASSUME NEW x \in {c, d}
        PROVE  Proximity(x) = 90 * x.hops + fixed(x) + Decay(x)
    <3>1. /\ OrZero(HitsMixer(x), 180) \in {0, 180} /\ OrZero(x.bridged, 90) \in {0, 90}
      BY DEF OrZero
    <3>2. x.hops \in Nat /\ Decay(x) \in 0 .. 180
      BY <2>1, <2>3
    <3> QED BY <3>1, <3>2 DEF Proximity
  <2> HIDE DEF c, d, fixed
  <2> DEFINE p == 90 * c.hops
             q == 90 * d.hops
  <2>7. /\ p + 180 < q \/ (p + 180 = q /\ c.hops + 2 = d.hops)
        /\ p \in Int /\ q \in Int
    BY <2>1, <2>5
  <2>8. /\ Proximity(c) \in Int /\ Proximity(d) \in Int
        /\ \/ Proximity(c) < Proximity(d)
           \/ Proximity(c) = Proximity(d) /\ c.hops + 2 = d.hops
    <3>1. Proximity(c) = p + fixed(c) + Decay(c) /\ Proximity(d) = q + fixed(c) + Decay(d)
      BY <2>4, <2>6
    <3> HIDE DEF p, q
    <3> QED BY <2>3, <2>4, <2>7, <3>1
  <2>9. ~(j < i) /\ i # j
    <3>1. CASE Proximity(c) < Proximity(d)
      BY <2>2, <2>8, <2>10, <3>1 DEF InOrder
    <3>2. CASE Proximity(c) = Proximity(d) /\ c.hops + 2 = d.hops
      <4>1. c.hops < d.hops /\ (d.label => c.label)
        BY <2>1, <2>5, <3>2
      <4>2. /\ EvidenceTier(c) <= EvidenceTier(d)
            /\ EvidenceTier(c) \in Int /\ EvidenceTier(d) \in Int
        BY <2>1, <2>5, <4>1, NearerTier
      <4>3. i # j
        BY <2>1, <2>11, <4>1
      <4>4. ~InOrder(scored[j], scored[i])
        BY <2>1, <2>2, <2>8, <2>11, <3>2, <4>1, <4>2 DEF InOrder
      <4> QED BY <2>10, <4>3, <4>4
    <3> QED BY <2>8, <3>1, <3>2
  <2> QED BY <2>5, <2>9
<1> QED BY <1>1, EngineInvHolds, PTL

\* Every result is a candidate of the search, relabelled at most from a dead
\* end to a hub, and no path is named twice.
THEOREM ResultsAreFound == EngineSpec => []ResultsComeFromSearch
<1>1. ASSUME EngineInv PROVE ResultsComeFromSearch
  <2> SUFFICES ASSUME Ranked
               PROVE  /\ \A s \in Result : \E c \in Range(candidates) :
                           /\ [c EXCEPT !.role = s.cand.role] = s.cand
                           /\ s.cand.role # c.role => c.role = "dead_end" /\ s.cand.role = "hub"
                      /\ \A i, j \in DOMAIN scored :
                           scored[i].cand.path = scored[j].cand.path => i = j
    BY DEF ResultsComeFromSearch
  <2>1. \A s \in Result : Derived(s.cand)
    BY <1>1, ResultIsScored
  <2>2. ScoredOK(scored)
    BY <1>1 DEF EngineInv, Ranked
  <2> QED BY <2>1, <2>2 DEF Derived, ScoredOK
<1> QED BY <1>1, EngineInvHolds, PTL

-----------------------------------------------------------------------------
(* The stages as functions of what the search reported. *)

Scores(cs) == [i \in DOMAIN cs |-> Score(cs[i])]

Filtered == ApplyFilters(candidates)

\* After the search, the list in hand is what the stages so far make of the
\* reports; a search without a budget reports nothing.
StagesInv ==
    /\ EngineInv
    /\ WalkInv
    /\ stage # "discovery" => pc = "done"
    /\ MaxHops < 1 => pc = "done" /\ candidates = <<>>
    /\ stage = "score" => scored = Filtered
    /\ stage = "rank" => scored = Scores(Filtered)
    /\ Ranked => scored = Rank(Scores(Filtered)) /\ outcome = ClassifyOutcome(scored)

LEMMA StagesInit == EngineInit => StagesInv
<1> SUFFICES ASSUME EngineInit PROVE StagesInv
  OBVIOUS
<1>1. EngineInv /\ SearchInv
  BY EngineInitInv DEF EngineInv
<1>2. WalkInv
  BY <1>1, InitNearest DEF EngineInit, WalkInv
<1>3. MaxHops < 1 => pc = "done" /\ candidates = <<>>
  BY DEF EngineInit, Init
<1> QED BY <1>1, <1>2, <1>3 DEF EngineInit, StagesInv, Ranked

\* While the ledger and the reports stay, so does what the stages make of them.
LEMMA StagesStay ==
  ASSUME UNCHANGED <<ledger, candidates>>
  PROVE  Filtered' = Filtered /\ Scores(Filtered)' = Scores(Filtered)
<1>1. \A c : HasDust(c) <=> HasDust(c)'
  BY DEF HasDust, IsDust
<1>2. \A c : Relabel(c) = Relabel(c)'
  BY DEF Relabel, IsHub, Degree
<1>3. Kept(candidates)' = Kept(candidates)
  BY <1>1 DEF Kept
<1>4. Filtered' = Filtered
  BY <1>2, <1>3 DEF Filtered, ApplyFilters
<1>5. \A c : Score(c)' = Score(c)
  BY DerivedStays
<1> QED BY <1>4, <1>5 DEF Scores

LEMMA StagesStep == StagesInv /\ [EngineNext]_<<vars, engineVars>> => StagesInv'
<1> SUFFICES ASSUME StagesInv, [EngineNext]_<<vars, engineVars>> PROVE StagesInv'
  OBVIOUS
<1>1. EngineInv'
  BY EngineStep DEF StagesInv
<1>2. [Next]_vars
  BY DEF EngineNext, Search, Filter, ScoreAll, RankAll, ExplainAll, Answered
<1>3. WalkInv'
  BY <1>2, WalkStep DEF StagesInv
<1>4. CASE Search
  <2>1. /\ stage = "discovery" /\ pc # "done" /\ stage' = stage
    BY <1>4 DEF Search, engineVars
  <2> QED BY <1>1, <1>3, <2>1 DEF StagesInv, Ranked
<1>5. CASE Filter \/ ScoreAll \/ RankAll \/ ExplainAll \/ Answered \/ UNCHANGED <<vars, engineVars>>
  <2>1. UNCHANGED <<ledger, candidates, pc>>
    BY <1>5 DEF Filter, ScoreAll, RankAll, ExplainAll, Answered, vars
  <2>2. Filtered' = Filtered /\ Scores(Filtered)' = Scores(Filtered)
    BY <2>1, StagesStay
  <2>3. MaxHops < 1 => pc' = "done" /\ candidates' = <<>>
    BY <2>1 DEF StagesInv
  <2>4. PICK f, ss : f = Filtered /\ ss = Scores(Filtered)
    OBVIOUS
  <2>5. f = Filtered' /\ ss = Scores(Filtered)'
    BY <2>2, <2>4
  <2>6. /\ stage' # "discovery" => pc' = "done"
        /\ stage' = "score" => scored' = f
        /\ stage' = "rank" => scored' = ss
        /\ Ranked' => scored' = Rank(ss) /\ outcome' = ClassifyOutcome(scored')
    <3>1. CASE Filter
      BY <2>1, <2>4, <3>1 DEF Filter, Filtered, Ranked
    <3>2. CASE ScoreAll
      BY <2>1, <2>4, <3>2 DEF ScoreAll, StagesInv, Scores, Ranked
    <3>3. CASE RankAll
      BY <2>1, <2>4, <3>3 DEF RankAll, StagesInv, Ranked
    <3>4. CASE ExplainAll \/ Answered \/ UNCHANGED <<vars, engineVars>>
      BY <2>1, <2>4, <3>4 DEF ExplainAll, Answered, StagesInv, Ranked, engineVars, vars
    <3> QED BY <1>5, <3>1, <3>2, <3>3, <3>4
  <2>7. Ranked' => /\ scored' = Rank(Scores(Filtered))'
                   /\ outcome' = ClassifyOutcome(scored)'
    BY <2>5, <2>6
  <2> QED BY <1>1, <1>3, <2>3, <2>5, <2>6, <2>7 DEF StagesInv
<1> QED BY <1>4, <1>5 DEF EngineNext

\* What every stage has in hand, for every dataset and every bound.
THEOREM StagesInvHolds == EngineSpec => []StagesInv
BY StagesInit, StagesStep, PTL DEF EngineSpec

-----------------------------------------------------------------------------
(* Nothing is lost between the filter and the answer. *)

\* The scored list that the ranking is given.
LEMMA ScoresOK ==
  ASSUME SearchInv, MarksOK
  PROVE  /\ ScoredOK(Scores(Filtered)) /\ DOMAIN Scores(Filtered) = DOMAIN Filtered
         /\ \A k \in DOMAIN Filtered : Scores(Filtered)[k].cand = Filtered[k]
<1> DEFINE ss == Scores(Filtered)
<1>1. /\ Filtered \in Seq(Candidate) /\ \A k \in DOMAIN Filtered : Derived(Filtered[k])
      /\ \A k, l \in DOMAIN Filtered : Filtered[k].path = Filtered[l].path => k = l
  BY FilterDerives DEF Filtered
<1>2. DOMAIN ss = DOMAIN Filtered
  BY DEF Scores
<1>3. \A k \in DOMAIN Filtered : ss[k] = Score(Filtered[k]) /\ ss[k].cand = Filtered[k]
  BY DEF Scores, Score
<1> HIDE DEF ss
<1>4. \E n \in Nat : DOMAIN ss = 1 .. n
  BY <1>1, <1>2, LenProperties
<1>5. ScoredOK(ss)
  BY <1>1, <1>2, <1>3, <1>4 DEF ScoredOK
<1> QED BY <1>2, <1>3, <1>5 DEF ss

\* The answer lists the reports the filter keeps, all of them and no other.
LEMMA ResultsAreKept ==
  ASSUME SearchInv, MarksOK, scored = Rank(Scores(Filtered))
  PROVE  /\ \A k \in DOMAIN scored : \E j \in Kept(candidates) :
              scored[k].cand = Relabel(candidates[j])
         /\ \A j \in Kept(candidates) : \E k \in DOMAIN scored :
              scored[k].cand = Relabel(candidates[j])
<1> DEFINE K  == Kept(candidates)
           R  == {p \in K \X K : p[1] < p[2]}
           o  == Ordering(K, R)
           n  == Cardinality(K)
           ss == Scores(Filtered)
           q  == Ordering(DOMAIN ss, RankBefore(ss))
<1>1. K \in SUBSET (1 .. Len(candidates)) /\ IsFiniteSet(K)
  <2>1. K \in SUBSET (1 .. Len(candidates)) /\ Len(candidates) \in Nat
    BY LenProperties DEF Kept, SearchInv, CandidatesOK
  <2>2. IsFiniteSet(1 .. Len(candidates))
    BY <2>1, FS_Interval
  <2> HIDE DEF K
  <2> QED BY <2>1, <2>2, FS_Subset
<1>2. IsStrictOrder(K, R)
  <2>1. Len(candidates) \in Nat
    BY LenProperties DEF SearchInv, CandidatesOK
  <2> QED BY <1>1, <2>1 DEF IsStrictOrder
<1>3. /\ n \in Nat /\ o \in [1 .. n -> K]
      /\ \A j \in K : \E k \in 1 .. n : o[k] = j
  <2> HIDE DEF K, R
  <2> QED BY <1>1, <1>2, OrderingSorts
<1>4. Filtered = [k \in 1 .. n |-> Relabel(candidates[o[k]])]
  BY <1>3 DEF Filtered, ApplyFilters
<1> HIDE DEF K, R, o, n
<1>5. /\ ScoredOK(ss) /\ DOMAIN ss = 1 .. n
      /\ \A k \in 1 .. n : ss[k].cand = Relabel(candidates[o[k]])
  BY <1>4, ScoresOK
<1> HIDE DEF ss
<1>6. /\ q \in [1 .. n -> 1 .. n]
      /\ \A i \in 1 .. n : \E k \in 1 .. n : q[k] = i
  <2>1. IsFiniteSet(1 .. n) /\ Cardinality(1 .. n) = n
    BY <1>3, FS_Interval
  <2>2. IsStrictOrder(1 .. n, RankBefore(ss))
    BY <1>5, RankIsOrder
  <2> QED BY <1>5, <2>1, <2>2, OrderingSorts
<1>7. scored = [k \in 1 .. n |-> ss[q[k]]]
  BY <1>5 DEF Rank, ss
<1> HIDE DEF q
<1>8. ASSUME NEW k \in DOMAIN scored
      PROVE  \E j \in K : scored[k].cand = Relabel(candidates[j])
  <2>1. k \in 1 .. n /\ q[k] \in 1 .. n /\ o[q[k]] \in K
    BY <1>3, <1>6, <1>7
  <2> QED BY <1>5, <1>7, <2>1
<1>9. ASSUME NEW j \in K
      PROVE  \E k \in DOMAIN scored : scored[k].cand = Relabel(candidates[j])
  <2>1. PICK i \in 1 .. n : o[i] = j
    BY <1>3
  <2>2. PICK k \in 1 .. n : q[k] = i
    BY <1>6
  <2> QED BY <1>5, <1>7, <2>1, <2>2
<1> QED BY <1>8, <1>9 DEF K

\* No transfer of the ledger is dust.
NoDust == \A i \in DOMAIN ledger : ~IsDust(i)

\* Without dust the filter keeps the first report of every path.
LEMMA PathsAreKept ==
  ASSUME SearchInv, NoDust, NEW i \in 1 .. Len(candidates), candidates[i].hops >= 1
  PROVE  \E j \in Kept(candidates) : candidates[j].path = candidates[i].path
<1>1. /\ candidates \in Seq(Candidate) /\ Len(candidates) \in Nat
      /\ DOMAIN candidates = 1 .. Len(candidates)
  BY LenProperties DEF SearchInv, CandidatesOK
<1>2. ASSUME NEW j \in 1 .. Len(candidates)
      PROVE  /\ ~HasDust(candidates[j]) /\ candidates[j].hops \in Nat
             /\ candidates[j].hops # 0 => IsBacked(candidates[j])
  <2> DEFINE c == candidates[j]
  <2>1. c \in Candidate /\ Clean(c)
    BY <1>1, ElementOfSeq DEF SearchInv, CandidatesOK
  <2> HIDE DEF c
  <2>2. c.edges \in Seq(Nat) /\ c.hops \in Nat
    BY <2>1 DEF Candidate
  <2>3. DOMAIN c.edges = 1 .. c.hops /\ \A k \in 1 .. c.hops : c.edges[k] \in DOMAIN ledger
    <3>1. Len(c.edges) = c.hops
      BY <2>1 DEF Clean, IsTrail
    <3> QED BY <2>1, <2>2, <3>1, LenProperties DEF Clean, IsTrail
  <2>4. ~HasDust(c)
    BY <2>3 DEF HasDust, NoDust
  <2>5. c.hops # 0 => IsBacked(c)
    <3>1. c.hops # 0 => 1 \in DOMAIN c.edges
      BY <2>2, <2>3
    <3>2. DOMAIN <<>> = {}
      OBVIOUS
    <3> QED BY <3>1, <3>2 DEF IsBacked
  <2> QED BY <2>2, <2>4, <2>5 DEF c
<1> DEFINE X == {j \in 1 .. Len(candidates) :
                   IsBacked(candidates[j]) /\ candidates[j].path = candidates[i].path}
<1>3. X \in SUBSET Nat /\ i \in X
  <2>1. candidates[i].hops # 0
    BY <1>2
  <2> QED BY <1>2, <2>1
<1>4. PICK j \in X : \A m \in X : j <= m
  BY <1>3, LeastNat
<1>5. j \in 1 .. Len(candidates) /\ IsBacked(candidates[j]) /\ candidates[j].path = candidates[i].path
  BY <1>4
<1>6. ~\E m \in 1 .. j - 1 : IsBacked(candidates[m]) /\ candidates[m].path = candidates[j].path
  <2> SUFFICES ASSUME NEW m \in 1 .. j - 1, IsBacked(candidates[m]),
                      candidates[m].path = candidates[j].path
               PROVE  FALSE
    OBVIOUS
  <2>1. m \in 1 .. Len(candidates) /\ ~(j <= m)
    BY <1>1, <1>5
  <2> QED BY <1>4, <1>5, <2>1
<1>7. j \in Kept(candidates)
  BY <1>1, <1>2, <1>5, <1>6 DEF Kept
<1> QED BY <1>5, <1>7

-----------------------------------------------------------------------------
(* On one chain, without dust, the answer holds what the search reported. *)

\* Reports with one path are reports of one wallet.
LEMMA PathNamesWallet ==
  ASSUME SearchInv, NEW i \in 1 .. Len(candidates), NEW j \in 1 .. Len(candidates),
         candidates[i].path = candidates[j].path
  PROVE  candidates[i].addr = candidates[j].addr
<1>1. /\ candidates[i] \in Candidate /\ candidates[j] \in Candidate
      /\ Clean(candidates[i]) /\ Clean(candidates[j])
  BY ElementOfSeq DEF SearchInv, CandidatesOK
<1>2. candidates[i].hops \in Nat /\ candidates[j].hops \in Nat
  BY <1>1 DEF Candidate
<1>3. \A k \in {i, j} : /\ Len(candidates[k].path) = candidates[k].hops + 1
                        /\ candidates[k].path[candidates[k].hops + 1] = candidates[k].addr
  BY <1>1 DEF Clean, IsTrail
<1>4. candidates[i].hops = candidates[j].hops
  BY <1>2, <1>3
<1> QED BY <1>3, <1>4

\* On one chain a report's role is that of its wallet, and no relabelling
\* changes it.
LEMMA PlainReports ==
  ASSUME SearchInv, NEW L, NearestInv(L), NEW j \in 1 .. Len(candidates)
  PROVE  /\ candidates[j].role \in Roles /\ RoleFits(candidates[j])
         /\ candidates[j].chain = SourceChain /\ candidates[j].hops >= 1
         /\ Relabel(candidates[j]).addr = candidates[j].addr
         /\ Relabel(candidates[j]).role = candidates[j].role
         /\ Relabel(candidates[j]).path = candidates[j].path
<1> DEFINE c == candidates[j]
<1>1. /\ c \in Candidate /\ RoleFits(c) /\ IsPlaced(L, c) /\ 1 <= c.hops
  BY ElementOfSeq DEF SearchInv, CandidatesOK, NearestInv, ReportsPlaced
<1> HIDE DEF c
<1>2. c.role \in Roles /\ c.hops \in Nat
  BY <1>1 DEF Candidate, Roles
<1>3. CASE IsHub(c.addr) /\ c.role \notin {"vasp", "mixer"}
  <2>1. c.role = "hub"
    BY <1>1, <1>2, <1>3 DEF RoleFits, Roles, IsOrdinary
  <2>2. Relabel(c) = [c EXCEPT !.role = "hub"]
    BY <1>3 DEF Relabel
  <2>3. Relabel(c).addr = c.addr /\ Relabel(c).role = "hub" /\ Relabel(c).path = c.path
    BY <1>1, <2>2 DEF Candidate
  <2> QED BY <1>1, <1>2, <2>1, <2>3 DEF c, IsPlaced
<1>4. CASE ~(IsHub(c.addr) /\ c.role \notin {"vasp", "mixer"})
  <2>1. Relabel(c) = c
    BY <1>4 DEF Relabel
  <2> QED BY <1>1, <1>2, <2>1 DEF c, IsPlaced
<1> QED BY <1>3, <1>4

\* A wallet is in the answer under a role just when the search reported it so.
LEMMA ResultsAreReports ==
  ASSUME StagesInv, Ranked, NoDust, NEW L, NearestInv(L), NEW role, NEW a
  PROVE  (\E k \in DOMAIN scored : scored[k].cand.addr = a /\ scored[k].cand.role = role)
         <=> \E j \in 1 .. Len(candidates) :
               candidates[j].addr = a /\ candidates[j].role = role
<1>1. /\ SearchInv /\ MarksOK /\ scored = Rank(Scores(Filtered))
      /\ DOMAIN candidates = 1 .. Len(candidates)
  BY LenProperties DEF StagesInv, EngineInv, SearchInv, CandidatesOK
<1>2. ASSUME NEW k \in DOMAIN scored,
             scored[k].cand.addr = a, scored[k].cand.role = role
      PROVE  \E j \in 1 .. Len(candidates) :
               candidates[j].addr = a /\ candidates[j].role = role
  <2>1. PICK j \in Kept(candidates) : scored[k].cand = Relabel(candidates[j])
    BY <1>1, ResultsAreKept
  <2>2. j \in 1 .. Len(candidates)
    BY <1>1 DEF Kept
  <2>3. candidates[j].addr = a /\ candidates[j].role = role
    BY <1>1, <1>2, <2>1, <2>2, PlainReports
  <2> QED BY <2>2, <2>3
<1>3. ASSUME NEW j \in 1 .. Len(candidates),
             candidates[j].addr = a, candidates[j].role = role
      PROVE  \E k \in DOMAIN scored : scored[k].cand.addr = a /\ scored[k].cand.role = role
  <2>1. candidates[j].hops >= 1
    BY <1>1, PlainReports
  <2>2. PICK i \in Kept(candidates) : candidates[i].path = candidates[j].path
    BY <1>1, <2>1, PathsAreKept
  <2>3. i \in 1 .. Len(candidates)
    BY <1>1 DEF Kept
  <2>4. candidates[i].addr = a
    BY <1>1, <1>3, <2>2, <2>3, PathNamesWallet
  <2>5. candidates[i].role = role
    <3>1. /\ candidates[i].role \in Roles /\ RoleFits(candidates[i])
          /\ candidates[j].role \in Roles /\ RoleFits(candidates[j])
      BY <1>1, <2>3, PlainReports
    <3> QED BY <1>3, <2>4, <3>1 DEF RoleFits, Roles, IsOrdinary
  <2>6. PICK k \in DOMAIN scored : scored[k].cand = Relabel(candidates[i])
    BY <1>1, ResultsAreKept
  <2>7. scored[k].cand.addr = a /\ scored[k].cand.role = role
    BY <1>1, <2>3, <2>4, <2>5, <2>6, PlainReports
  <2> QED BY <2>7
<1> QED BY <1>2, <1>3

\* An exchange is in the answer once.
LEMMA ExchangesOnce ==
  ASSUME StagesInv, Ranked, NEW L, NearestInv(L),
         NEW k \in WithRole(scored, "vasp"), NEW l \in WithRole(scored, "vasp"),
         scored[k].cand.addr = scored[l].cand.addr
  PROVE  k = l
<1>1. /\ SearchInv /\ MarksOK /\ scored = Rank(Scores(Filtered)) /\ ScoredOK(scored)
      /\ DOMAIN candidates = 1 .. Len(candidates)
      /\ k \in DOMAIN scored /\ l \in DOMAIN scored
      /\ scored[k].cand.role = "vasp" /\ scored[l].cand.role = "vasp"
  BY LenProperties DEF StagesInv, EngineInv, SearchInv, CandidatesOK, WithRole, Ranked
<1>2. PICK i \in Kept(candidates) : scored[k].cand = Relabel(candidates[i])
  BY <1>1, ResultsAreKept
<1>3. PICK j \in Kept(candidates) : scored[l].cand = Relabel(candidates[j])
  BY <1>1, ResultsAreKept
<1>4. i \in 1 .. Len(candidates) /\ j \in 1 .. Len(candidates)
  BY <1>1 DEF Kept
<1>5. /\ candidates[i].addr = candidates[j].addr /\ candidates[i].chain = candidates[j].chain
      /\ candidates[i].role = "vasp" /\ candidates[j].role = "vasp"
  BY <1>1, <1>2, <1>3, <1>4, PlainReports
<1>6. i = j
  BY <1>1, <1>4, <1>5 DEF SearchInv, CandidatesOK, KeyOf
<1> QED BY <1>1, <1>2, <1>3, <1>6 DEF ScoredOK

-----------------------------------------------------------------------------
(* The answer and the ledger. *)

\* A wallet is in the answer under a role just when a walk through ordinary
\* wallets reaches it and it has that role.
LEMMA ResultsAreReached ==
  ASSUME StagesInv, Ranked, StaysOnChain, Uncut, NoDust, Len(candidates) < MaxCandidates,
         NEW role \in Roles, NEW a
  PROVE  (\E k \in DOMAIN scored : scored[k].cand.addr = a /\ scored[k].cand.role = role)
         <=> a \in Reached(role)
<1> USE ConstantsOK
<1>1. SearchInv /\ WalkInv /\ pc = "done" /\ Len(candidates) \in Nat
  BY LenProperties DEF StagesInv, Ranked, EngineInv, SearchInv, CandidatesOK
<1>2. a \in Reached(role) <=> \E k \in 1 .. MaxHops : a \in Found(k)[role]
  BY DEF Reached
<1>3. CASE MaxHops < 1
  <2>1. a \notin Reached(role)
    BY <1>2, <1>3
  <2>2. DOMAIN scored = {}
    <3>1. Kept(candidates) = {}
      BY <1>3 DEF Kept, StagesInv
    <3> QED BY <3>1, ResultsAreKept DEF StagesInv, EngineInv
  <2> QED BY <2>1, <2>2
<1>4. CASE ~(MaxHops < 1)
  <2>1. IsPlain
    BY <1>4 DEF IsPlain
  <2>2. PICK L : L = Layer
    OBVIOUS
  <2>3. AreLayers(L)
    BY <2>2, LayersAre
  <2>4. NearestInv(L)
    BY <1>1, <2>1, <2>3 DEF WalkInv
  <2>5. frontier = <<>>
    <3>1. ~(Len(candidates) >= MaxCandidates)
      BY <1>1
    <3> QED BY <1>1, <2>4, <3>1 DEF NearestInv
  <2>6. \A k \in 1 .. MaxHops :
          a \in Found(k)[role] <=>
            \E j \in 1 .. Len(candidates) :
              candidates[j].addr = a /\ candidates[j].role = role /\ candidates[j].hops = k
    <3> SUFFICES ASSUME NEW k \in 1 .. MaxHops
                 PROVE  a \in Found(k)[role] <=>
                          \E j \in 1 .. Len(candidates) :
                            /\ candidates[j].addr = a /\ candidates[j].role = role
                            /\ candidates[j].hops = k
      OBVIOUS
    <3>1. a \in Found(k)[role] <=>
            a \in L[k] \ L[k - 1] /\ RoleFits([addr |-> a, role |-> role, hops |-> k])
      BY <2>2, FoundFits
    <3> QED BY <1>1, <2>1, <2>3, <2>4, <2>5, <3>1, ReportsAreFound
  <2>7. \A j \in 1 .. Len(candidates) : candidates[j].hops \in 1 .. MaxHops
    <3> SUFFICES ASSUME NEW j \in 1 .. Len(candidates) PROVE candidates[j].hops \in 1 .. MaxHops
      OBVIOUS
    <3>1. candidates[j] \in Candidate
      BY <1>1, ElementOfSeq DEF SearchInv, CandidatesOK
    <3>2. 1 <= candidates[j].hops /\ candidates[j].hops <= MaxHops
      BY <2>4 DEF NearestInv, ReportsPlaced
    <3> QED BY <3>1, <3>2 DEF Candidate
  <2>8. a \in Reached(role) <=>
          \E j \in 1 .. Len(candidates) : candidates[j].addr = a /\ candidates[j].role = role
    BY <1>2, <2>6, <2>7
  <2> QED BY <2>4, <2>8, ResultsAreReports
<1> QED BY <1>3, <1>4

\* There are as many exchanges in the answer as the ledger calls for.
LEMMA ExchangesCounted ==
  ASSUME StagesInv, Ranked, StaysOnChain, Uncut, NoDust, Len(candidates) < MaxCandidates
  PROVE  /\ IsFiniteSet(WithRole(scored, "vasp"))
         /\ Cardinality(Reached("vasp")) = Cardinality(WithRole(scored, "vasp"))
<1> USE ConstantsOK
<1> DEFINE W == WithRole(scored, "vasp")
           V == Reached("vasp")
           f == [k \in W |-> scored[k].cand.addr]
<1>1. IsFiniteSet(W)
  <2>1. PICK n \in Nat : DOMAIN scored = 1 .. n
    BY DEF StagesInv, EngineInv, ScoredOK, Ranked
  <2>2. IsFiniteSet(1 .. n) /\ W \in SUBSET (1 .. n)
    BY <2>1, FS_Interval DEF WithRole
  <2> HIDE DEF W
  <2> QED BY <2>2, FS_Subset
<1>2. \A a : (\E k \in W : scored[k].cand.addr = a) <=> a \in V
  <2>1. \A a : (\E k \in DOMAIN scored : scored[k].cand.addr = a /\ scored[k].cand.role = "vasp")
               <=> a \in V
    BY ResultsAreReached DEF Roles
  <2> QED BY <2>1 DEF WithRole
<1>3. \A k, l \in W : scored[k].cand.addr = scored[l].cand.addr => k = l
  <2>1. CASE W = {}
    BY <2>1
  <2>2. CASE W # {}
    <3>1. MaxHops >= 1
      <4>1. V # {}
        BY <1>2, <2>2
      <4> QED BY <4>1 DEF Reached
    <3>2. PICK L : L = Layer
      OBVIOUS
    <3>3. AreLayers(L) /\ IsPlain /\ WalkInv
      BY <3>1, <3>2, LayersAre DEF IsPlain, StagesInv
    <3>4. NearestInv(L)
      BY <3>3 DEF WalkInv
    <3> QED BY <3>4, ExchangesOnce
  <2> QED BY <2>1, <2>2
<1> HIDE DEF W, V
<1>4. f \in Bijection(W, V)
  BY <1>2, <1>3 DEF Bijection, Injection, Surjection, IsInjective
<1>5. Cardinality(V) = Cardinality(W)
  BY <1>1, <1>4, FS_Bijection DEF ExistsBijection
<1> QED BY <1>1, <1>5 DEF W, V

\* On one chain, without dust, when the search was not cut short, the outcome
\* is decided by what a walk through ordinary wallets can reach.
THEOREM OutcomeFits == EngineSpec => []OutcomeFitsLedger
<1>1. StagesInv => OutcomeFitsLedger
  <2> SUFFICES ASSUME StagesInv, Ranked, StaysOnChain, Uncut, NoDust,
                      Len(candidates) < MaxCandidates
               PROVE  outcome.kind =
                        CASE Cardinality(Reached("vasp")) > 1 -> "ranked_multi_candidate"
                          [] Cardinality(Reached("vasp")) = 1 -> "single_candidate"
                          [] Reached("vasp") \cup Reached("mixer") \cup Reached("dead_end") = {}
                             /\ Reached("hub") # {} -> "false_candidate_filtered"
                          [] OTHER -> "insufficient_evidence"
    BY DEF OutcomeFitsLedger, NoDust
  <2> DEFINE N == Cardinality(Reached("vasp"))
             W(role) == WithRole(scored, role)
  <2>1. N \in Nat /\ N = Cardinality(W("vasp")) /\ (N = 0 <=> W("vasp") = {})
    BY ExchangesCounted, FS_CardinalityType, FS_EmptySet
  <2>2. \A role \in Roles : W(role) = {} <=> Reached(role) = {}
    <3> SUFFICES ASSUME NEW role \in Roles PROVE W(role) = {} <=> Reached(role) = {}
      OBVIOUS
    <3>1. \A a : (\E k \in DOMAIN scored :
                    scored[k].cand.addr = a /\ scored[k].cand.role = role)
                 <=> a \in Reached(role)
      BY ResultsAreReached
    <3> QED BY <3>1 DEF WithRole
  <2>3. /\ W("vasp") = {} <=> Reached("vasp") = {}
        /\ W("mixer") = {} <=> Reached("mixer") = {}
        /\ W("dead_end") = {} <=> Reached("dead_end") = {}
        /\ W("hub") = {} <=> Reached("hub") = {}
    BY <2>2 DEF Roles
  <2>4. outcome.kind =
          CASE Cardinality(W("vasp")) = 1 -> "single_candidate"
            [] Cardinality(W("vasp")) > 1 -> "ranked_multi_candidate"
            [] /\ W("vasp") = {} /\ W("mixer") = {}
               /\ W("dead_end") = {} /\ W("hub") # {}
                 -> "false_candidate_filtered"
            [] OTHER -> "insufficient_evidence"
    BY DEF StagesInv, ClassifyOutcome
  <2> HIDE DEF N, W
  <2>5. CASE N > 1
    <3>1. /\ ~(N = 1) /\ Cardinality(W("vasp")) > 1 /\ ~(Cardinality(W("vasp")) = 1)
          /\ W("vasp") # {}
      BY <2>1, <2>5
    <3>2. outcome.kind = "ranked_multi_candidate"
      BY <2>4, <3>1
    <3>3. Reached("vasp") # {}
      BY <2>3, <3>1
    <3> QED BY <2>5, <3>1, <3>2, <3>3 DEF N
  <2>6. CASE N = 1
    <3>1. /\ ~(N > 1) /\ Cardinality(W("vasp")) = 1 /\ ~(Cardinality(W("vasp")) > 1)
          /\ W("vasp") # {}
      BY <2>1, <2>6
    <3>2. outcome.kind = "single_candidate"
      BY <2>4, <3>1
    <3>3. Reached("vasp") # {}
      BY <2>3, <3>1
    <3> QED BY <2>6, <3>1, <3>2, <3>3 DEF N
  <2>7. CASE N = 0
    <3>1. /\ ~(N > 1) /\ ~(N = 1) /\ W("vasp") = {}
          /\ ~(Cardinality(W("vasp")) > 1) /\ ~(Cardinality(W("vasp")) = 1)
      BY <2>1, <2>7
    <3>2. outcome.kind =
            IF W("mixer") = {} /\ W("dead_end") = {} /\ W("hub") # {}
              THEN "false_candidate_filtered" ELSE "insufficient_evidence"
      BY <2>4, <3>1
    <3>3. Reached("vasp") \cup Reached("mixer") \cup Reached("dead_end") = {}
          <=> W("mixer") = {} /\ W("dead_end") = {}
      BY <2>3, <3>1
    <3> QED BY <2>3, <3>1, <3>2, <3>3 DEF N
  <2> QED BY <2>1, <2>5, <2>6, <2>7
<1> QED BY <1>1, StagesInvHolds, PTL

=============================================================================
