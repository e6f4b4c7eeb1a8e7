---------------------------------- MODULE Rows ----------------------------------
(***************************************************************************)
(* What the live providers make of a row of their upstream (_to_canonical) *)
(* when the transactions of an address, asked, are queried.  A row is a    *)
(* Bitcoin transaction with its inputs and outputs, a Tron transaction     *)
(* with its contracts, or a row of a block explorer.                       *)
(***************************************************************************)
EXTENDS Integers, SequencesExt

CONSTANTS
    Party,          \* addresses
    Nobody,         \* no address: OP_RETURN, coinbase, contract creation
    Sats,           \* base units of one input or output
    Many            \* bound: inputs or outputs of a transaction

Coin == [addr : Party \cup {Nobody}, value : Sats]

BitcoinRow == [chain : {"bitcoin"}, ins : SeqOf(Coin, Many), outs : SeqOf(Coin, Many)]

\* kind of a contract: a transfer of TRX, or a call whose recipient is in its data.
TronRow ==
    [chain : {"tron"}, ok : BOOLEAN,
     contracts : SeqOf([kind : {"transfer", "trigger"}, from : Party, to : Party,
                        value : Sats], Many)]

ExplorerRow ==
    [chain : {"ethereum", "bnb"}, list : {"normal", "token", "internal"},
     from : Party, to : Party \cup {Nobody}, value : Sats,
     isError : BOOLEAN, status : {"", "0", "1"}]

Row == BitcoinRow \cup TronRow \cup ExplorerRow

Hop(chain, from, to, amount, success) ==
    [chain |-> chain, from |-> from, to |-> to, amount |-> amount, success |-> success]

-----------------------------------------------------------------------------
(* Bitcoin. *)

ValueOf(coins, a) ==
    LET upTo[n \in 0 .. Len(coins)] ==
          IF n = 0 THEN 0
          ELSE upTo[n - 1] + IF coins[n].addr = a THEN coins[n].value ELSE 0
    IN  upTo[Len(coins)]

\* next(c.addr for c in coins if c.addr is one of those wanted, else None)
FirstAddr(coins, wanted) ==
    LET hits == {i \in DOMAIN coins : coins[i].addr \in wanted}
    IN  IF hits = {} THEN Nobody ELSE coins[Min(hits)].addr

NotQueried(asked) == (Party \cup {Nobody}) \ {asked}

\* Mutant: a transaction that returns change counts as received.
FromBitcoinByReceipt(r, asked) ==
    LET recv == ValueOf(r.outs, asked)
        sent == ValueOf(r.ins, asked)
    IN  IF recv > 0
        THEN Hop("bitcoin", FirstAddr(r.ins, Party), asked, recv, TRUE)
        ELSE IF sent > 0
        THEN Hop("bitcoin", asked, FirstAddr(r.outs, NotQueried(asked)), sent, TRUE)
        ELSE Hop("bitcoin", Nobody, asked, 0, TRUE)

\* Mutant: what is not received is spent.
FromBitcoinOrSpent(r, asked) ==
    LET recv == ValueOf(r.outs, asked)
        sent == ValueOf(r.ins, asked)
    IN  IF recv > 0 /\ sent = 0
        THEN Hop("bitcoin", FirstAddr(r.ins, Party), asked, recv, TRUE)
        ELSE Hop("bitcoin", asked, FirstAddr(r.outs, NotQueried(asked)), sent, TRUE)

\* Received if nothing was spent; else spent, to the first output that is not the
\* queried address and with all that was spent, change and fee included.
FromBitcoin(r, asked) ==
    LET recv == ValueOf(r.outs, asked)
        sent == ValueOf(r.ins, asked)
    IN  CASE recv > 0 /\ sent = 0 ->
               Hop("bitcoin", FirstAddr(r.ins, Party), asked, recv, TRUE)
          [] sent > 0 ->
               Hop("bitcoin", asked, FirstAddr(r.outs, NotQueried(asked)), sent, TRUE)
          [] OTHER -> Hop("bitcoin", Nobody, asked, 0, TRUE)

-----------------------------------------------------------------------------
(* Tron and the explorers. *)

\* The first contract only; the recipient of a call is not among its values.
FromTron(r) ==
    IF r.contracts = <<>> THEN Hop("tron", Nobody, Nobody, 0, r.ok)
    ELSE LET c == Head(r.contracts)
         IN  Hop("tron", c.from, IF c.kind = "transfer" THEN c.to ELSE Nobody,
                 IF c.kind = "transfer" THEN c.value ELSE 0, r.ok)

Ok(r) == ~r.isError /\ r.status \in {"", "1"}

FromExplorer(r) == Hop(r.chain, r.from, r.to, r.value, Ok(r))

ToCanonical(r, asked) ==
    CASE r.chain = "bitcoin" -> FromBitcoin(r, asked)
      [] r.chain = "tron" -> FromTron(r)
      [] OTHER -> FromExplorer(r)

-----------------------------------------------------------------------------
(* What discovery sees: t.from_address == node.addr and a recipient. *)

Leaves(tx, asked) == tx.from = asked

IsHop(tx, asked) == Leaves(tx, asked) /\ tx.to # Nobody

\* The addresses that gave and that got funds in a row, if it succeeded.
Payers(r) ==
    CASE r.chain = "bitcoin" -> {r.ins[i].addr : i \in DOMAIN r.ins}
      [] r.chain = "tron" -> {r.contracts[i].from : i \in DOMAIN r.contracts}
      [] OTHER -> {r.from}

Payees(r) ==
    CASE r.chain = "bitcoin" -> {r.outs[i].addr : i \in DOMAIN r.outs}
      [] r.chain = "tron" -> {r.contracts[i].to : i \in DOMAIN r.contracts}
      [] OTHER -> {r.to}

================================================================================
