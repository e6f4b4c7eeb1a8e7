----------------------------- MODULE MCLiveSearch -----------------------------
(* An instance of LiveSearch for TLC. *)
EXTENDS LiveSearch, TLC

MCAllLive ==
    [demo |-> FALSE, enabled |-> {"bitcoin", "ethereum"}, urls |-> Explored, key |-> TRUE]

\* Demo mode with everything enabled; everything live; only the key; only a URL.
MCConfigured ==
    {[MCAllLive EXCEPT !.demo = TRUE], MCAllLive,
     [MCAllLive EXCEPT !.urls = {}], [MCAllLive EXCEPT !.urls = {"ethereum"}, !.key = FALSE]}

-----------------------------------------------------------------------------
LOCAL C(a, v) == [addr |-> a, value |-> v]
LOCAL Btc(ins, outs) == [chain |-> "bitcoin", ins |-> ins, outs |-> outs]
LOCAL Eth(list, from, to) ==
    [chain |-> "ethereum", list |-> list, from |-> from, to |-> to, value |-> 1,
     isError |-> FALSE, status |-> ""]
LOCAL Trx(kind, from, to) ==
    [chain |-> "tron", ok |-> TRUE,
     contracts |-> <<[kind |-> kind, from |-> from, to |-> to, value |-> 1]>>]

CONSTANTS s, t, u, v, w

\* Change; a joint input; an output without an address before the payee.
MCBitcoin ==
    <<Btc(<<C(s, 2)>>, <<C(s, 1), C(t, 1)>>),
      Btc(<<C(t, 1), C(s, 1)>>, <<C(u, 2)>>),
      Btc(<<C(u, 2)>>, <<C(Nobody, 0), C(v, 1)>>),
      Btc(<<C(u, 1)>>, <<C(v, 1), C(s, 0)>>)>>

\* Two ways to u, of which the late one is shorter, a cycle, a contract creation.
MCEthereum ==
    <<Eth("normal", s, t), Eth("token", t, u), Eth("internal", u, s), Eth("normal", s, w),
      Eth("normal", u, v), Eth("normal", v, Nobody), Eth("normal", s, u)>>

\* Two ways to w, of two and of three hops; a call whose recipient is not in its
\* values.
MCTron ==
    <<Trx("transfer", s, t), Trx("transfer", s, u), Trx("trigger", t, v),
      Trx("transfer", u, v), Trx("transfer", t, w), Trx("transfer", v, w)>>

MCLedger == "bitcoin" :> MCBitcoin @@ "ethereum" :> MCEthereum @@ "tron" :> MCTron

\* Blocks of two and three rows, of which the second is dated before the first.
MCTime == <<2, 2, 1, 1, 3, 3, 3>>

-----------------------------------------------------------------------------
LOCAL D(chain, from, to, time) == [chain |-> chain, from |-> from, to |-> to, time |-> time]

LOCAL Files ==
    {D("ethereum", s, t, 2), D("ethereum", t, t, 1), D("ethereum", t, s, 0),
     D("bitcoin", s, t, 1)}

\* The rows of the files in every order, and empty files.
MCDatasets == {<<>>} \cup SetToSeqs(Files)

================================================================================
