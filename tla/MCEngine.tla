------------------------------ MODULE MCEngine ------------------------------
(* Instances of Engine for TLC. *)
EXTENDS Engine

CONSTANTS MaxOneChain, MaxDecaying, MaxTwoChains  \* bounds on the length of a ledger

\* s is the suspect, p and q are wallets, v and w exchanges (w has no label), m
\* a mixer, x a bridge.
MCRole == [a \in Addr |-> CASE a \in {"v", "w"} -> "vasp"
                            [] a = "m" -> "mixer"
                            [] a = "x" -> "bridge"
                            [] OTHER -> "intermediary"]

MCOrder == [a \in Addr |->
    CHOOSE i \in 1 .. 8 : <<"m", "p", "q", "r", "s", "v", "w", "x">>[i] = a]

T(f, t, c, d, n, days) ==
    [from |-> f, to |-> t, chain |-> c, target |-> d, amount |-> n, age |-> days]

On(f, t, n, days) == T(f, t, "eth", NoChain, n, days)

\* One chain, with dust (4) and real amounts (5 and more), and undated, old, stale
\* and fresh transfers on both sides of the 90 and 365 day limits.
OneChain ==
    {On("s", "v", 4, 91), On("s", "v", 5, NoAge), On("s", "p", 9, 400),
     On("p", "v", 5, 90), On("p", "q", 9, 365), On("q", "w", 7, 0),
     On("s", "m", 9, 366), On("m", "w", 9, 0), On("q", "m", 9, 0),
     On("s", "q", 4, 0), On("q", "r", 5, 0)}

\* Stale transfers to near exchanges, fresh ones to far exchanges.
Decaying ==
    {On("s", "v", 9, 700), On("s", "p", 9, 700), On("p", "v", 9, 100),
     On("p", "q", 9, NoAge), On("q", "r", 9, NoAge), On("r", "w", 9, 0), On("q", "w", 9, 1),
     On("p", "m", 9, 200), On("s", "m", 9, 0)}

\* Two chains joined by bridge x.
TwoChains ==
    {T("s", "x", "eth", "bnb", 9, 50), T("x", "p", "bnb", NoChain, 9, 40),
     T("x", "v", "bnb", NoChain, 9, 30), T("x", "m", "bnb", NoChain, 9, 30),
     T("p", "v", "eth", NoChain, 9, 20), T("p", "w", "bnb", NoChain, 9, 20),
     T("s", "q", "eth", NoChain, 9, 60), T("q", "x", "eth", "bnb", 4, 55),
     T("q", "v", "eth", NoChain, 9, 10)}

\* Rows without a timestamp come first.
NotAfter(x, y) == x.age = NoAge \/ (y.age # NoAge /\ x.age >= y.age)

\* Ledgers of at most max distinct transfers, oldest first.
LedgersOf(transfers, max) ==
    UNION {{l \in [1 .. n -> transfers] :
              \A i, j \in 1 .. n : i < j => l[i] # l[j] /\ NotAfter(l[i], l[j])} :
             n \in 0 .. max}

MCLedgers ==
    LedgersOf(OneChain, MaxOneChain) \cup LedgersOf(Decaying, MaxDecaying)
      \cup LedgersOf(TwoChains, MaxTwoChains)

=============================================================================
