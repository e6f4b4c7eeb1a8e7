---------------------------- MODULE CanonicalProofs ----------------------------
(***************************************************************************)
(* What the conversion of a row shows of it, for every row of a Bitcoin    *)
(* transaction, Tron transaction or block explorer and every address that  *)
(* is asked about.  The lemmas about rows are used for the search over     *)
(* live providers as well.                                                 *)
(***************************************************************************)
EXTENDS Canonical, SortingProofs

-----------------------------------------------------------------------------
(* Inputs and outputs. *)

LEMMA CoinsAreSeq ==
  ASSUME NEW coins \in SeqOf(Coin, Many)
  PROVE  /\ Len(coins) \in Nat /\ DOMAIN coins = 1 .. Len(coins)
         /\ \A i \in DOMAIN coins : coins[i] \in Coin
<1>1. PICK m \in 0 .. Many : coins \in [1 .. m -> Coin]
  BY DEF SeqOf
<1>2. m \in Nat
  BY CanonicalConstantsOK
<1>3. coins \in Seq(Coin) /\ Len(coins) = m
  BY <1>1, <1>2, FunctionIsSeq
<1> QED BY <1>1, <1>2, <1>3

\* An address that has a share in the coins is the address of one of them.
LEMMA ValueHasCoin ==
  ASSUME NEW coins \in SeqOf(Coin, Many), NEW a, ValueOf(coins, a) # 0
  PROVE  \E i \in DOMAIN coins : coins[i].addr = a
<1> DEFINE Sum(f) == [n \in 0 .. Len(coins) |->
                        IF n = 0 THEN 0
                        ELSE f[n - 1] + IF coins[n].addr = a THEN coins[n].value ELSE 0]
           upTo == CHOOSE f : f = Sum(f)
           X == {n \in 0 .. Len(coins) : upTo[n] # 0}
<1> SUFFICES ASSUME \A i \in DOMAIN coins : coins[i].addr # a PROVE FALSE
  OBVIOUS
<1>1. Len(coins) \in Nat /\ DOMAIN coins = 1 .. Len(coins)
  BY CoinsAreSeq
<1>2. ValueOf(coins, a) = upTo[Len(coins)]
  BY DEF ValueOf
<1>3. \A n \in 0 .. Len(coins) : n # 0 => n - 1 \in 0 .. Len(coins) /\ coins[n].addr # a
  BY <1>1
<1>4. [n \in 0 .. Len(coins) |-> 0] = Sum([n \in 0 .. Len(coins) |-> 0])
  BY <1>3
<1>5. upTo = Sum(upTo)
  <2> HIDE DEF Sum
  <2> QED BY <1>4
<1> HIDE DEF upTo
<1>6. \A n \in 0 .. Len(coins) : upTo[n] = IF n = 0 THEN 0 ELSE upTo[n - 1] + 0
  BY <1>3, <1>5
<1>7. X \in SUBSET Nat /\ X # {}
  BY <1>1, <1>2
<1>8. PICK n \in X : \A m \in X : n <= m
  <2> HIDE DEF X
  <2> QED BY <1>7, LeastNat
<1>9. n \in 1 .. Len(coins) /\ upTo[n - 1] # 0
  BY <1>1, <1>6, <1>8
<1>10. n - 1 \in X
  BY <1>1, <1>9
<1> QED BY <1>7, <1>8, <1>10

\* The first of the wanted addresses is one of them and one of the coins'.
LEMMA FirstIsWanted ==
  ASSUME NEW coins \in SeqOf(Coin, Many), NEW wanted
  PROVE  \/ FirstAddr(coins, wanted) = Nobody
         \/ /\ FirstAddr(coins, wanted) \in wanted
            /\ \E i \in DOMAIN coins : coins[i].addr = FirstAddr(coins, wanted)
<1> DEFINE hits == {i \in DOMAIN coins : coins[i].addr \in wanted}
<1>1. CASE hits = {}
  BY <1>1 DEF FirstAddr
<1>2. CASE hits # {}
  <2>1. FirstAddr(coins, wanted) = coins[Min(hits)].addr
    BY <1>2 DEF FirstAddr
  <2>2. hits \in SUBSET Nat
    BY CoinsAreSeq
  <2>3. PICK n \in hits : \A m \in hits : n <= m
    <3> HIDE DEF hits
    <3> QED BY <1>2, <2>2, LeastNat
  <2>4. Min(hits) \in hits
    <3> HIDE DEF hits
    <3> QED BY <2>3 DEF Min
  <2> QED BY <2>1, <2>4
<1> QED BY <1>1, <1>2

-----------------------------------------------------------------------------
(* Rows. *)

LEMMA PartiesOfRow ==
  ASSUME NEW r \in Row
  PROVE  Payees(r) \subseteq Party \cup {Nobody}
<1>1. CASE r \in BitcoinRow
  <2>1. r.chain = "bitcoin" /\ r.outs \in SeqOf(Coin, Many)
    BY <1>1 DEF BitcoinRow
  <2>2. \A i \in DOMAIN r.outs : r.outs[i].addr \in Party \cup {Nobody}
    BY <2>1, CoinsAreSeq DEF Coin
  <2> QED BY <2>1, <2>2 DEF Payees
<1>2. CASE r \in TronRow
  <2>1. r.chain = "tron"
    BY <1>2 DEF TronRow
  <2>2. PICK m \in 0 .. Many :
          r.contracts \in [1 .. m -> [kind : {"transfer", "trigger"}, from : Party,
                                      to : Party, value : Sats]]
    BY <1>2 DEF TronRow, SeqOf
  <2>3. \A i \in DOMAIN r.contracts : r.contracts[i].to \in Party
    BY <2>2
  <2> QED BY <2>1, <2>3 DEF Payees
<1>3. CASE r \in ExplorerRow
  BY <1>3 DEF ExplorerRow, Payees
<1> QED BY <1>1, <1>2, <1>3 DEF Row

\* A Bitcoin transaction that is shown as a hop is one.
LEMMA BitcoinHop ==
  ASSUME NEW r \in BitcoinRow, NEW a \in Party, IsHop(FromBitcoin(r, a), a)
  PROVE  FromBitcoin(r, a).from \in Payers(r) /\ FromBitcoin(r, a).to \in Payees(r)
<1> DEFINE recv == ValueOf(r.outs, a)
           sent == ValueOf(r.ins, a)
<1>1. /\ r.chain = "bitcoin"
      /\ r.ins \in SeqOf(Coin, Many) /\ r.outs \in SeqOf(Coin, Many)
  BY DEF BitcoinRow
<1>2. a # Nobody
  BY CanonicalConstantsOK
<1>3. /\ Payers(r) = {r.ins[i].addr : i \in DOMAIN r.ins}
      /\ Payees(r) = {r.outs[i].addr : i \in DOMAIN r.outs}
  BY <1>1 DEF Payers, Payees
<1>4. CASE recv > 0 /\ sent = 0
  <2>1. FromBitcoin(r, a) = Hop("bitcoin", FirstAddr(r.ins, Party), a, recv, TRUE)
    BY <1>4 DEF FromBitcoin
  <2>2. FirstAddr(r.ins, Party) = a
    BY <2>1 DEF IsHop, Leaves, Hop
  <2>3. a \in Payers(r)
    BY <1>1, <1>2, <1>3, <2>2, FirstIsWanted
  <2>4. a \in Payees(r)
    BY <1>1, <1>3, <1>4, ValueHasCoin
  <2> QED BY <2>1, <2>2, <2>3, <2>4 DEF Hop
<1>5. CASE sent > 0
  <2>1. FromBitcoin(r, a) =
          Hop("bitcoin", a, FirstAddr(r.outs, NotQueried(a)), sent, TRUE)
    BY <1>5 DEF FromBitcoin
  <2>2. FirstAddr(r.outs, NotQueried(a)) # Nobody
    BY <2>1 DEF IsHop, Hop
  <2>3. FirstAddr(r.outs, NotQueried(a)) \in Payees(r)
    BY <1>1, <1>3, <2>2, FirstIsWanted
  <2>4. a \in Payers(r)
    BY <1>1, <1>3, <1>5, ValueHasCoin
  <2> QED BY <2>1, <2>3, <2>4 DEF Hop
<1>6. CASE ~(recv > 0 /\ sent = 0) /\ ~(sent > 0)
  <2>1. FromBitcoin(r, a) = Hop("bitcoin", Nobody, a, 0, TRUE)
    BY <1>6 DEF FromBitcoin
  <2> QED BY <1>2, <2>1 DEF IsHop, Leaves, Hop
<1> QED BY <1>4, <1>5, <1>6

\* Whatever the chain, the search follows no transfer that nobody made.
LEMMA HopIsReal ==
  ASSUME NEW r \in Row, NEW a \in Party, IsHop(ToCanonical(r, a), a)
  PROVE  /\ ToCanonical(r, a).from = a /\ a \in Payers(r)
         /\ ToCanonical(r, a).to \in Payees(r) \cap Party
<1> DEFINE shown == ToCanonical(r, a)
<1>1. shown.from = a /\ shown.to # Nobody
  BY DEF IsHop, Leaves
<1>2. shown.from \in Payers(r) /\ shown.to \in Payees(r)
  <2>1. CASE r \in BitcoinRow
    <3>1. ToCanonical(r, a) = FromBitcoin(r, a)
      BY <2>1 DEF ToCanonical, BitcoinRow
    <3> QED BY <2>1, <3>1, BitcoinHop
  <2>2. CASE r \in TronRow
    <3>1. r.chain = "tron"
      BY <2>2 DEF TronRow
    <3>2. ToCanonical(r, a) = FromTron(r)
      BY <3>1 DEF ToCanonical
    <3>3. r.contracts # <<>>
      BY <1>1, <3>2 DEF FromTron, Hop
    <3>4. PICK m \in 0 .. Many :
            r.contracts \in [1 .. m -> [kind : {"transfer", "trigger"}, from : Party,
                                        to : Party, value : Sats]]
      BY <2>2 DEF TronRow, SeqOf
    <3>5. m \in Nat /\ 1 \in DOMAIN r.contracts
      <4>1. m \in Nat
        BY CanonicalConstantsOK
      <4>2. Len(r.contracts) = m
        BY <3>4, <4>1, FunctionIsSeq
      <4>3. m # 0
        BY <3>3, <3>4
      <4> QED BY <3>4, <4>1, <4>3
    <3> DEFINE c == r.contracts[1]
    <3>6. Head(r.contracts) = c
      <4>1. r.contracts \in Seq([kind : {"transfer", "trigger"}, from : Party,
                                 to : Party, value : Sats])
        BY <3>4, <3>5, FunctionIsSeq
      <4> QED BY <4>1, <3>3
    <3>7. FromTron(r) = Hop("tron", c.from, IF c.kind = "transfer" THEN c.to ELSE Nobody,
                            IF c.kind = "transfer" THEN c.value ELSE 0, r.ok)
      BY <3>3, <3>6 DEF FromTron
    <3>8. shown.from = c.from /\ shown.to = c.to
      BY <1>1, <3>2, <3>7 DEF Hop
    <3> QED BY <3>1, <3>5, <3>8 DEF Payers, Payees
  <2>3. CASE r \in ExplorerRow
    <3>1. r.chain # "bitcoin" /\ r.chain # "tron"
      BY <2>3 DEF ExplorerRow
    <3>2. ToCanonical(r, a) = FromExplorer(r)
      BY <3>1 DEF ToCanonical
    <3> QED BY <3>1, <3>2 DEF FromExplorer, Hop, Payers, Payees
  <2> QED BY <2>1, <2>2, <2>3 DEF Row
<1>3. shown.to \in Party
  BY <1>1, <1>2, PartiesOfRow
<1> QED BY <1>1, <1>2, <1>3

-----------------------------------------------------------------------------
(* The conversion. *)

ConversionInv ==
    /\ row \in Row
    /\ tx = <<>> \/ tx = ToCanonical(row, Queried)

LEMMA ConversionInvHolds == Spec => []ConversionInv
<1>1. Init => ConversionInv
  BY DEF Init, ConversionInv
<1>2. ConversionInv /\ [Next]_vars => ConversionInv'
  <2> SUFFICES ASSUME ConversionInv, [Next]_vars PROVE ConversionInv'
    OBVIOUS
  <2>1. row' = row /\ (tx' = tx \/ tx' = ToCanonical(row, Queried))
    BY DEF Next, Convert, vars
  <2> QED BY <2>1 DEF ConversionInv
<1> QED BY <1>1, <1>2, PTL DEF Spec

\* A hop that the search follows joins an address that paid to one that was paid,
\* for every transaction of an upstream.
THEOREM ShownHopsAreReal == Spec => []HopsAreReal
<1>1. ConversionInv => HopsAreReal
  <2> SUFFICES ASSUME ConversionInv, Converted, IsHop(tx, Queried)
               PROVE  tx.from \in Payers(row) /\ tx.to \in Payees(row)
    BY DEF HopsAreReal
  <2>1. row \in Row /\ tx = ToCanonical(row, Queried)
    BY DEF ConversionInv, Converted
  <2>2. IsHop(ToCanonical(row, Queried), Queried)
    BY <2>1
  <2> QED BY <2>1, <2>2, HopIsReal, CanonicalConstantsOK
<1> QED BY <1>1, ConversionInvHolds, PTL

\* A Bitcoin transaction that the queried address paid for leaves it, to another
\* address if it has one, whatever comes back as change.
THEOREM SpendingIsShown == Spec => []SpendingIsNotIncome
<1>1. ConversionInv => SpendingIsNotIncome
  <2> SUFFICES ASSUME ConversionInv, Converted, row.chain = "bitcoin",
                      ValueOf(row.ins, Queried) > 0
               PROVE  tx.from = Queried /\ tx.to # Queried
    BY DEF SpendingIsNotIncome
  <2> DEFINE payee == FirstAddr(row.outs, NotQueried(Queried))
  <2>1. tx = FromBitcoin(row, Queried)
    BY DEF ConversionInv, Converted, ToCanonical
  <2>2. tx = Hop("bitcoin", Queried, payee, ValueOf(row.ins, Queried), TRUE)
    BY <2>1 DEF FromBitcoin
  <2>3. row \in BitcoinRow
    BY DEF ConversionInv, Row, TronRow, ExplorerRow
  <2>4. row.outs \in SeqOf(Coin, Many)
    BY <2>3 DEF BitcoinRow
  <2>5. payee = Nobody \/ payee \in NotQueried(Queried)
    BY <2>4, FirstIsWanted
  <2> HIDE DEF payee
  <2>6. payee # Queried
    BY <2>5, CanonicalConstantsOK DEF NotQueried
  <2> QED BY <2>2, <2>6 DEF Hop
<1> QED BY <1>1, ConversionInvHolds, PTL

================================================================================
