------------------------------ MODULE Providers ------------------------------
(***************************************************************************)
(* Which provider serves a chain (providers/factory.py, built once by the  *)
(* lifespan of main.py), and the calls they all have: get_block_height,    *)
(* with healthcheck on top of it.  Bitcoin and Tron ask the Tatum gateway  *)
(* and retry once after HTTP 429; Ethereum and BNB Chain ask the explorer  *)
(* once; Solana and Polygon are stubs; the demo provider reads its         *)
(* dataset, and its get_transactions is here too.                          *)
(***************************************************************************)
EXTENDS Demo

CONSTANTS
    NoChain,
    Configured,     \* the settings the application may be started with
    Datasets,       \* the datasets it may find, in the order of the files
    Times, Limits   \* windows and limits of queries; a time of 0 is none

Tatum == {"bitcoin", "tron"}
Explored == {"ethereum", "bnb"}
Chains == Tatum \cup Explored \cup {"solana", "polygon"}

\* What an upstream may answer: the height, HTTP 429, another HTTP error or none,
\* an error member that is an object or a text, a JSON list, an explorer's error
\* message, anything else.
Replies == {"height", "limited", "refused", "errorObject", "errorText", "list", "odd"}

VARIABLES
    settings,   \* Settings: demo mode, enabled chains, explorer URLs, API key
    registry,   \* chain -> "demo", "live" or "stub"; empty before startup
    call,       \* the chain asked, for "height" or "health", and the attempts made
    result,     \* of the last call
    sent,       \* history: has the call, or the search, sent a request
    dataset,    \* the shared dataset of the demo providers
    page        \* the last query of it and its answer

given == <<settings, dataset>>
calling == <<call, result, sent>>

NoCall == [chain |-> NoChain, want |-> "height", attempt |-> 0]
NoPage == [addr |-> NoAddress]

AllSettings ==
    [demo : BOOLEAN, enabled : SUBSET (Tatum \cup Explored), urls : SUBSET Explored,
     key : BOOLEAN]

ASSUME ProvidersConstantsOK ==
    /\ Configured \subseteq AllSettings
    /\ \A d \in Datasets : d \in Seq(DemoRow)
    /\ Times \subseteq Nat /\ Limits \subseteq Nat

StartUp ==
    /\ settings \in Configured
    /\ dataset \in (IF settings.demo THEN Datasets ELSE {<<>>})
    /\ registry = <<>> /\ call = NoCall /\ result = "none" /\ sent = FALSE
    /\ page = NoPage

-----------------------------------------------------------------------------
\* Mutant: an enabled chain is served live in demo mode too.
KindLive(chain) ==
    IF chain \in settings.enabled THEN "live"
    ELSE IF settings.demo THEN "demo" ELSE "live"

\* A chain that is not enabled gets its class all the same, built without the
\* settings at hand; it then reads the same ones from the environment.
Kind(chain) ==
    IF settings.demo THEN "demo"
    ELSE IF chain \in Tatum \cup Explored THEN "live" ELSE "stub"

Build ==
    /\ registry = <<>>
    /\ registry' = [chain \in Chains |-> Kind(chain)]
    /\ UNCHANGED <<given, calling, page>>

Ask(chain, want) ==
    /\ registry # <<>> /\ call = NoCall
    /\ call' = [chain |-> chain, want |-> want, attempt |-> 0]
    /\ result' = "none" /\ sent' = FALSE /\ page' = NoPage
    /\ UNCHANGED <<given, registry>>

-----------------------------------------------------------------------------
\* healthcheck: True for a height, False for a ProviderError; nothing else is caught.
Health(height) ==
    CASE height = "height" -> "healthy"
      [] height = "ProviderError" -> "unhealthy"
      [] OTHER -> height

Return(height) ==
    /\ result' = IF call.want = "health" THEN Health(height) ELSE height
    /\ call' = NoCall
    /\ UNCHANGED <<given, registry, page>>

Served(kind) == call # NoCall /\ registry[call.chain] = kind

\* The demo provider has a healthcheck of its own.
FromDataset ==
    /\ Served("demo")
    /\ Return(IF call.want = "health" /\ ~Loaded(dataset) THEN "ProviderError" ELSE "height")
    /\ UNCHANGED sent

FromStub == Served("stub") /\ Return("ProviderError") /\ UNCHANGED sent

\* Without a URL, or without the key, no request is sent.
Ready(chain) == IF chain \in Tatum THEN settings.key ELSE chain \in settings.urls

Unconfigured ==
    Served("live") /\ ~Ready(call.chain) /\ Return("ProviderError") /\ UNCHANGED sent

Receive ==
    /\ Served("live") /\ Ready(call.chain)
    /\ sent' = TRUE

\* What get_block_height makes of a reply.  The explorers' providers take
\* payload.get for granted, Bitcoin's the error's .get.
Outcome(reply) ==
    CASE reply = "height" -> "height"
      [] reply = "list" /\ call.chain \in Explored -> "AttributeError"
      [] reply = "errorText" /\ call.chain = "bitcoin" -> "AttributeError"
      [] OTHER -> "ProviderError"

\* Mutant: the second attempt may be retried too.
RetriesTwice(reply) == reply = "limited" /\ call.chain \in Tatum /\ call.attempt <= 1

Retries(reply) == reply = "limited" /\ call.chain \in Tatum /\ call.attempt = 0

Retry(reply) ==
    /\ Receive /\ Retries(reply)
    /\ call' = [call EXCEPT !.attempt = @ + 1]
    /\ UNCHANGED <<given, registry, result, page>>

Answer(reply) == Receive /\ ~Retries(reply) /\ Return(Outcome(reply))

Serve ==
    \/ FromDataset \/ FromStub \/ Unconfigured
    \/ \E reply \in Replies : Retry(reply) \/ Answer(reply)

-----------------------------------------------------------------------------
(* get_transactions of a demo provider; nothing in it awaits. *)

QueryDataset(a, c, from, till, limit) ==
    /\ registry # <<>> /\ call = NoCall
    /\ registry[c] = "demo"
    /\ page' = [addr |-> a, chain |-> c, from |-> from, till |-> till, limit |-> limit,
                rows |-> Query(dataset, a, c, from, till, limit)]
    /\ result' = "none" /\ sent' = FALSE
    /\ UNCHANGED <<given, registry, call>>

ProviderCall ==
    \/ Build
    \/ \E chain \in Chains, want \in {"height", "health"} : Ask(chain, want)
    \/ \E a \in DemoAddress, c \in DemoChain, from, till \in Times, limit \in Limits :
         QueryDataset(a, c, from, till, limit)
    \/ Serve

-----------------------------------------------------------------------------
(* Properties. *)

ProvidersTyped ==
    /\ settings \in AllSettings
    /\ registry = <<>> \/ registry \in [Chains -> {"demo", "live", "stub"}]
    /\ call \in [chain : Chains \cup {NoChain}, want : {"height", "health"}, attempt : {0, 1}]
    /\ result \in {"none", "height", "healthy", "unhealthy", "ProviderError", "AttributeError"}
    /\ sent \in BOOLEAN

\* In demo mode nothing ever leaves the process, whatever else is enabled or set:
\* no height, no health check and no search.
DemoStaysOffline == settings.demo => ~sent

\* The rows of the dataset that a query asks for.
AskedFor ==
    {row \in ToSet(dataset) :
       /\ row.chain = page.chain /\ page.addr \in {row.from, row.to}
       /\ row.time \in {NoTime} \cup
                       (page.from .. (IF page.till = 0 THEN row.time ELSE page.till))}

DemoPromise == INSTANCE History WITH
                 Time    <- [row \in DemoRow |-> row.time],
                 limit   <- page.limit,
                 wanted  <- AskedFor,
                 owed    <- AskedFor,
                 oldest  <- TRUE,
                 listed  <- ToSet(dataset),
                 outcome <- "open",
                 answer  <- page.rows

\* The demo provider answers what the live ones promise, from files in any order:
\* rows in order of time and within the window, the oldest ones when the limit
\* cuts, and none of those that touch the address left out otherwise, whichever
\* end it is and whether or not they have a time.
DemoKeepsPromise ==
    page # NoPage => DemoPromise!Sound(page.rows) /\ DemoPromise!Complete(page.rows)

================================================================================
