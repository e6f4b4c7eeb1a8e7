----------------------------- MODULE MCDiscovery -----------------------------
(* Instances of Discovery for TLC: the ledgers of one chain, and ledgers with *)
(* bridges between two chains.                                                *)
EXTENDS Discovery

CONSTANTS MaxOneChain, MaxTwoChains   \* bounds on the length of a ledger

\* s is the suspect, p, q, r are wallets, v and w exchanges, m a mixer, x a bridge.
MCRole == [a \in Addr |-> CASE a \in {"v", "w"} -> "vasp"
                            [] a = "m" -> "mixer"
                            [] a = "x" -> "bridge"
                            [] OTHER -> "intermediary"]

Transfer(f, t, c, d) ==
    [from |-> f, to |-> t, chain |-> c, target |-> d, amount |-> 1, age |-> 0]

On(f, t) == Transfer(f, t, "eth", NoChain)

\* One chain: a cycle, ways of two lengths to the same exchange, money leaving the
\* exchange and a mixer, a contract creation, a self-transfer.
OneChain ==
    {On("s", "p"), On("s", "q"), On("q", "s"), On("q", "v"),
     On("p", "r"), On("r", "v"), On("p", "m"), On("m", "v"), On("v", "r"),
     On("s", NoAddr), On("r", "r")}

\* Two chains: bridge x reached from eth, what follows it on bnb, traffic of
\* the same addresses on eth, and a bridge transfer towards an unserved chain.
TwoChains ==
    {Transfer("s", "x", "eth", "bnb"), Transfer("p", "x", "eth", "sol"),
     Transfer("x", "p", "bnb", NoChain), Transfer("x", "v", "bnb", NoChain),
     Transfer("x", "m", "bnb", NoChain), Transfer("p", "w", "bnb", NoChain),
     Transfer("s", "q", "eth", NoChain), Transfer("q", "x", "eth", "bnb"),
     Transfer("p", "v", "eth", NoChain), Transfer("s", "p", "eth", NoChain)}

\* Every ledger of at most max distinct transfers, in any order of time.
LedgersOf(transfers, max) ==
    UNION {{l \in [1 .. n -> transfers] : \A i, j \in 1 .. n : l[i] = l[j] => i = j} :
             n \in 0 .. max}

MCLedgers == LedgersOf(OneChain, MaxOneChain) \cup LedgersOf(TwoChains, MaxTwoChains)

=============================================================================
