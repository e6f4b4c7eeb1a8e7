# vasp-wallet-attribution: a formal model

TLA+ modules, TLC configurations and machine-checked proofs for the backend of
vasp-wallet-attribution: the service that follows funds from a suspect's wallet
to the exchange (VASP) that can identify its owner. `app/` below stands for
`api/app/` of this repository; a file named without a directory is in the directory
of its component.

- [The system](#the-system)
- [The modules and how they correspond to the code](#the-modules)
- [The runs, their bounds and what they show](#the-runs)
- [Fairness](#fairness)
- [What implements what](#what-implements-what)
- [What is proved](#what-is-proved)
- [Differences between the code and its documents](#differences)
- [What is not modelled](#what-is-not-modelled)
- [Plan](#plan)

## The system

| component | code | state | operations | model |
|---|---|---|---|---|
| attribution discovery | `app/attribution/discovery.py` | frontier queue, visited set, candidate list | one breadth-first search per request | `Discovery`, `LiveSearch` |
| attribution pipeline | `app/attribution/{engine,evidence,traversal,filtering,scoring,ranking,explainability}.py` | the candidate list, stage by stage | filter, score, rank, classify, explain | `Engine` |
| attribution service | `app/services/attribution_service.py`, `app/api/v1/attribution.py` | none of its own | one pipeline run per POST | in `Engine`, `LiveSearch` |
| demo provider | `app/providers/demo.py` | an index of a dataset by (address, chain) | transactions, height, health | `Demo`, in `Discovery`, `Providers` |
| block-explorer providers | `app/providers/{ethereum,bnb}.py` | none between calls | get_transactions, height, health, conversion of a row | `Explorer`, `Rows`, `Canonical`, `Providers` |
| Tatum providers | `app/providers/{bitcoin,tron}.py` | none between calls | the same, with paging | `Tatum`, `Rows`, `Canonical`, `Providers` |
| registry and stubs | `app/providers/{base,factory,solana,polygon}.py` | chain -> provider, built once | get, healthcheck | `Providers` |
| investigator accounts | `app/services/investigator_service.py`, `app/core/security.py`, `app/dependencies.py`, `app/db/session.py`, `app/api/v1/{auth,admin_investigators}.py` | rows of `investigators` and `password_reset_tokens`, bearer tokens | login, password change, reset issue and confirmation, administration, creation | `AtomicAccounts`, `Accounts` |
| transaction graph | `app/graph/{store,algorithms}.py` | a directed graph in the process | node and edge writes, searches, paths | `Graph` |
| application shell | `app/{main,config}.py`, `app/core/{exceptions,logging}.py` | settings, the registry | start-up, provider errors to responses | in `Providers`, `LiveSearch` |
| bridge registry, SAHYOG, risk and workers stubs, case, report and evidence services, other endpoints, schemas, other tables, scripts | see PROJECT.json | mostly none | | not modelled |

How they interact. A POST to the attribution endpoint makes the service run the
pipeline once: discovery awaits `get_transactions` of the provider that the
registry holds for the source chain, asks the address tags and the degree of
every recipient, and awaits a second provider when a bridge leads to another
chain. The stages after it are pure functions of the candidate list. Every
endpoint but login and reset confirmation first runs `get_current_investigator`,
which reads the investigator's row and compares `token_version`. A request has a
database session of its own: it reads rows, keeps the ORM copies while it awaits
(bcrypt in a thread, a second statement), assigns columns, and writes exactly
the assigned columns at `commit()`. Nothing else is shared between requests, and
there is no lock besides those PostgreSQL takes.

What is hard here, and where it is looked at:

- **interleaved sessions** (`Accounts`): reads before an await and writes after
  it, by two requests on one row or one reset token; the token issued from a copy
  that is not refreshed; check-then-insert of an address; row locks.
- **order of a search** (`Discovery`): a queue, a visited set keyed by address
  *and* chain, a limit on hops and one on candidates, and a bridge whose far side
  is scanned in the middle of a scan. What is found depends on the order.
- **a chain of small rules whose composition is the product** (`Engine`): path
  de-duplication before the dust rule, roles that are rewritten, a tier that
  depends on role, label, bridge and hops, a decay with a ceiling.
- **lists that grow while they are read** (`Explorer`, `Tatum`): three lists at
  three moments, pages by offset or cursor, truncation before or after sorting,
  one retry, answers of another shape.
- **algorithms that hide a special case** (`Graph`): a path search that is right
  for the cheapest path only if that path is in order of time; a search that may
  ignore direction but looks at one transfer of a pair; a fast path beside the
  general search.
- **settings times replies** (`Providers`).
- **a search that lasts** (`LiveSearch`): one awaited call per wallet while the chain
  goes on, any of which may fail; what was idle when it was asked about sends while
  the search is elsewhere.

For each hazard, at its line, PROJECT.json names the properties that cover it or
says why none does.

## The modules

Every definition that stands for code has an entry under `map` in PROJECT.json
with the lines it stands for. Names follow the source.

**`Discovery`** (`discovery.py`, and the parts of `demo.py` it calls). The dataset
is a constant of a behaviour, the variable `ledger`, a sequence in timestamp
order: the position of a transaction is its hash. `run_discovery` is cut into one
action per turn of a loop: `Finish` (the `while` condition), `DeadEnd` and
`Expand` (pop a node, ask the provider), `Scan(i)` (one transaction; its five
disjuncts are the branches of the loop body), `Cross(i)` (one transaction behind a
bridge), `EndScan` and `EndCross`. Visiting, reporting and queueing are part of
those actions. `Transactions` is `DemoBlockchainProvider.get_transactions` with
its limit: an address that sends to itself is indexed once for each end and takes
two places. `Role[a]` stands for the first tag `_classify` finds. A candidate carries
whether it has a label (`terminal_label`): a dead end has none, whatever the dataset
says of its address (`AsCandidate`).

**`Engine`** extends `Discovery`. `Search` takes the steps of the search; `Filter`,
`ScoreAll`, `RankAll` and `ExplainAll` are the stages of `engine.py`. Scores are
integers so that they are exact: proximity in 90ths of a hop, confidence in sixths
of a point. Evidence items are reduced to their codes. The age of a candidate is that of its
last edge with a timestamp (`Dated`, `Age`); a trail without any is scored as fresh.

**`Sorting`** is Python's `sorted` and the slice after it, written so that it can be
reasoned about: the places of a finite set under an order (`Ordering`), the order by a
key that leaves ties as they are (`ByKey`), and the first `n` by that (`Leading`).
`Engine`, `Explorer`, `Tatum` and `Demo` use it.

**`Accounts`**. `rows` and `resets` are the committed rows, `tokens` the bearer
tokens handed out, `req[r]` what request `r` holds between two awaits: the copy it
read (`seen`), the copy with its assignments (`new`) and the names of the assigned
columns (`cols`). A handler is one action up to each await at which another
request can change what it has read. `Written` is what an `UPDATE` of the assigned
columns leaves; `IssueMark` is the `UPDATE ... WHERE used_at IS NULL` of
`issue_password_reset`: a snapshot, a wait for locked rows, and the condition
evaluated again on them (READ COMMITTED). `Abandon` is every way a request ends
without a commit: a failed check, a lost connection, a crash of the process. Two
history values are not in the code: `Token.password` (the password a token was
given for) and `consumed` (how often a reset token has set a password). Logout is
not a step because it writes nothing. `Overlap = FALSE` is not in the code: it restricts the
*clients* (`Works`, `Alone`), nobody starts to write to an account while another request is
writing to it.

**`AtomicAccounts`** is what the accounts promise: every operation one step, no
versions but open sessions, and a change that closes the sessions of its account.
`Accounts!Atomic` is the refinement mapping.

**`Graph`**. `AddNode`, `AddEdge` and `Clear` are the writes of the store, the
queries are operators. A node is its id: no query reads its kind or attributes.
Of an edge the weight and the timestamp are kept, `NoTime` being an edge without
one and the open end of a window. `TimeWindowBfs` is the loop of `time_window_bfs`: a queue
and the set of visited nodes, one `Turn` for each node of the queue (`Passes` is the test of a
neighbour); `Bfs` is networkx's search, by levels. networkx is modelled by what
the code relies on: the endpoints `add_edge` creates, the attributes it merges, and
*some* cheapest path from `dijkstra_path`; an operator that may return one of
several paths is the set of them.

**`Explorer`**. One `get_transactions` of `ethereum.py` or `bnb.py`: the lists
normal, token and internal are asked for in turn (`Receive`, `ReceiveOdd`,
`Limited`, `Fail`), then merged, sorted, filtered and cut (`Finish`). `Grow` is the
chain: a row is added at any moment.

**`Tatum`**. One `get_transactions` of `bitcoin.py` or `tron.py`. `place` is the
offset of the next page or the number of rows before the cursor. Tron asks for the
oldest rows first; nothing in the code says in which order Bitcoin's are listed,
so both are modelled (`newestFirst`). A row without a timestamp (`Undated`) sorts first and
is in every window.

**`History`** is the contract of one `get_transactions` call, stated without pages,
lists or attempts; `Explorer`, `Tatum` and the demo provider keep it, `LiveSearch`
relies on it.

**`Rows`** has `_to_canonical` of the four live providers and the part of the result
the search looks at (`Leaves`, `IsHop`); **`Canonical`** is the check of it for every
row of at most `Many` inputs, outputs or contracts.

**`Demo`** has the rows of the dataset in the order of its files, the index
`tx_by_address` (`Indexed`: the places where rows are filed under an address, once for
each end) and `get_transactions` with window and limit. (`Discovery` uses the
short form for ledgers that are already in order of time.)

**`Providers`**. `Build` is `build_default_provider_registry` under the settings, as the
lifespan calls it; `Ask` and `Serve` are one `get_block_height` or `healthcheck` of
the class the registry holds, with every kind of reply an upstream may send;
`QueryDataset` is one `get_transactions` of a demo provider.

**`LiveSearch`** extends `Providers`: POST `/attribution/run` for a chain whose provider
is live. `Request` is the endpoint's look-up and the start of the search, `Pop` the
turn of the `while` loop up to the `await`; `HearsAll`, `HearsSome`, `Fails` and
`Refused` are what comes back from it, with the loop over the transactions, which
awaits nothing (`Expand`, `Follow`, `Enqueue`). `Grow` is the chain, at any time in
between. The answer is any sequence of rows that `History` allows, converted by
`Rows` for the address asked about. Heights, health checks and dataset queries take
turns with searches; they share the registry and nothing else.

`MCDiscovery`, `MCEngine`, `MCAccounts`, `MCGraph`, `MCExplorer`, `MCTatum`,
`MCCanonical` and `MCLiveSearch` hold the values of the constants for TLC.
`EngineProofs`, `AccountsProofs`, `ExplorerProofs`, `TatumProofs`, `CanonicalProofs`,
`LiveSearchProofs` and `GraphProofs` hold the theorems about the module they are named
after and their proofs, `EngineProofs` those about `Discovery` before those about the
pipeline around it; `SortingProofs` holds the lemmas they share, on sorting and on
induction.

## The runs

All passing runs finish in less than five minutes with two workers. The properties
are stated, with the code behaviour they are about, at the end of each module.

| run | instance | what it shows |
|---|---|---|
| `search` | every ledger of at most 5 of 11 transfers on one chain, in any order of time, and of at most 4 of 10 on two bridged chains; `MaxHops` 3, `MaxCandidates` 3, `HubThreshold` 2, `TxLimit` 3 | every walk is a real trail, stops at terminals, keeps the budget; nothing is reported twice; on one chain the search finds exactly what a reference definition finds, at the least distance; it returns |
| `pipeline` | ledgers of at most 6 transfers, oldest first and undated ones before them, of three kinds (dust and age limits; old near exchanges against fresh far ones; a bridge); `MaxHops` 4 | the outcome is the one the ledger calls for; an attributed exchange is backed by clean transfers; tier and mixer rules hold end to end; age costs at most two hops, and at exactly two decides nothing but a tie with a label on one side; a dead end has no label and little confidence; no stage invents a candidate |
| `accounts_apart` | an administrator, an investigator, two requests, two reset tokens, two bearer tokens, two passwords, two roles, `MaxVersion` 2, `Overlap` FALSE; the founders' rows are new or one change old; resets may expire | a change of role or password cuts off every earlier token; clients see what one-step operations would show them (`OneAtATime`), one live reset token for each account included |
| `accounts_overlap` | an administrator and room for two more accounts, two requests, three reset tokens, `Overlap` TRUE, fair; reset tokens are issued in one order, which stands for the others (`MCIssuedInOrder`) | addresses stay unique; never more live reset tokens for an account than requests; a token that has set a password is never found again; a change leaves the version above the one it read; a stale copy never undoes a column it was not asked to change; requests never wait for each other for ever |
| `graph` | four wallets, five links, two of them opposite, at most four edges, weights 1 and 3, times 1, 2 and none; depths 0 to 2, windows open or closed at either end; `Cutoff` 2 | windowed search is reachability, forward (`ForwardIsReach`) and both ways (`BothWaysIsReach`, of `neighbors_within`); the temporal search returns a path in order of time that none within its cutoff undercuts, and None only if there is none within it; no edge dangles |
| `explorer` | eight rows of three kinds, two of them in one block and one without a timestamp; page of 2; limits 2 and 4; with and without a window | a call ends, and its answer is the oldest part of the window: it implements `History` (`PromiseKept`) |
| `tatum` | seven rows, two of them without a timestamp, page of 2, limits 0, 1, 4 and 5, with and without a window, both orders | no gap between pages; a call implements `History`: it ends, a short answer holds every dated row it should, a full one is the oldest part when the service lists oldest first |
| `live` | four settings (demo mode with all else set, all live, only the key, only one URL), every chain and every reply of an upstream; ledgers of 4 to 7 rows on Bitcoin, Ethereum and Tron with five parties, any of them there when the search begins and the rest at any later moment; `MaxHops` 3, `MaxCandidates` 2, `TxLimit` 4; every order of a dataset of four rows, and an empty one | a live search follows payments, misses no wallet that was in reach when it began, reports as dead ends only wallets that were idle then, and ends; demo mode sends nothing; the demo provider keeps the contract of the live ones |
| `canonical` | every row of at most two inputs and outputs over three parties | the hop the search sees joins a payer and a payee; spending is never income |
| `v_bridge_walk` | ledgers on two chains | **violated**: a wallet queued behind a bridge is expanded with the source chain's provider |
| `v_sessions` | one account, `Overlap` TRUE | **violated**: two overlapping changes raise `token_version` once, and a token issued between them survives the second |
| `v_single_use` | one account, `Overlap` TRUE | **violated**: two overlapping confirmations of one reset token both set a password |

Why these bounds are enough. Constants of the code are scaled so that the case at
the limit happens: the page of 1000 rows (`Offset`) and of 50 rows (`PageSize`)
become 2, with limits below, at and above one page; `TxLimit` 100 becomes 3, so
that answers are cut in ledgers of four and more (a reference definition is
compared only when none is), and 4 in `live`, where two Ethereum wallets have that
many rows; `HubThreshold` 4 becomes 2, so that a wallet is a hub with
three transfers; `MaxHops` 3 lets a walk end by budget on a chain of four
transfers; `MaxCandidates` 3 stops a search with nodes still queued. Five transfers
are enough for two ways of different length to a wallet, a cycle, and a terminal
behind both. The ledgers of `live` are fixed, one for each kind of row, and hold two
ways to a wallet of which the shorter comes later, a cycle, change, a joint input, a
contract creation and a call without a recipient, in blocks of two and three rows of which
the second is dated before the first; what varies is when each row appears and what
each call answers. In `pipeline` ages lie on both sides of 90 and 365 days and amounts on
both sides of the dust limit. Two requests suffice to lose an update. A founder may
begin at `MaxVersion - 1`, so that a run also starts from a row that has a history;
`MaxVersion` and `MaxTokens` bound a counter and a set that only grow. Four edges on four
wallets are enough for a route of three transfers, the middle one perhaps without a
timestamp, beside a short cut of two that is cheaper or dearer, in order or not; and for
a pair of wallets with transfers both ways, one inside a window and one outside. The
cutoff of five edges becomes 2, so that paths of exactly two edges and of three occur, each as
Dijkstra's answer and as an alternative that is looked for or not.

Deadlock is checked except in `explorer`, `tatum` and `canonical`, where one call or
one conversion is the whole behaviour; `Returned`, `Answered` and `Quiet` are the
idle steps of `search`, `pipeline` and the accounts' runs.

## Fairness

- `Discovery!FairSpec`: weak fairness of `Next`. The search is one coroutine; the
  event loop resumes it after every await.
- `Accounts!FairSpec`: strong fairness of `Resume(r)` for every request. A handler
  whose await is over is resumed, and PostgreSQL grants a row lock to its waiters in
  turn. Nothing is assumed of clients (`Arrive`), of time (`Expire`) or of failure
  (`Abandon`).
- `Explorer` and `Tatum`: weak fairness of the steps of a call. httpx
  has a timeout of 10 seconds, so that a request that is never answered still ends.
  Nothing is assumed of `Grow`, the chain.
- `LiveSearch!Spec`: weak fairness of `Serving`, a call of a provider, and of `Step`, the
  search: the same timeout, and the event loop. Nothing is assumed of requests
  (`Request`, `Calling`) nor of the chain.

## What implements what

- **`Accounts` implements `AtomicAccounts`** (`OneAtATime`, in `accounts_apart`), as long as
  no two requests in flight write to one account. A request that has read its copy has
  not begun; it happens at its commit. `accounts` are the rows without versions, a
  session is a bearer token whose account is as the token says it was, `live` is the
  reset token that is unused. It includes that an account has one live reset
  token at most. It is not implied by the invariants: it also says that
  each commit is *one* whole operation, whoever else has committed since its request
  arrived, and that nothing opens a session that was closed. It is proved for every
  number of accounts, requests and tokens (`AccountsAreAtomic`).
- **`Explorer` and `Tatum` implement `History`** (`PromiseKept`), liveness included: what
  was listed when the call began is owed, in order, within the window, the oldest first when
  the answer is full. Pages, lists, attempts, cursors and offsets are hidden. An answer
  whose reading was ended by a reply of another shape is `garbled` and owes nothing but
  order and window. For a Tron call with a start nothing is owed, and a full Bitcoin answer
  need not be the oldest part when the service lists newest first: these are what the code
  does not promise. All of it but the end of a call is proved for every ledger, page size
  and question (`CallKeepsPromise`, `PagingKeepsPromise`).
- **The demo provider keeps the same contract** (`DemoKeepsPromise`), with the dataset for
  the chain.
- **`LiveSearch` relies on `History` alone.** The answers it takes are those `Sound` and
  `Complete` allow, so that what it shows holds over any provider that implements the
  contract. Rows of a block share a timestamp, and a block may be dated before the last.

## What is proved

By TLAPS, for every value of the constants that satisfies the assumptions named in the
modules (`ConstantsOK`, `EngineConstantsOK`, `AccountsConstantsOK`, `FoundersAreUnique`,
`AbsentIsNoAccount`, `ExplorerConstantsOK`, `TatumConstantsOK`, `CanonicalConstantsOK`,
`DemoConstantsOK`, `ProvidersConstantsOK`, `LiveConstantsOK`, `GraphConstantsOK`). They say
what kind of value a constant is; the three bounds of a live search that must not be 0 are `max_hops`, which the request schema
keeps between 1 and 10, and `max_candidates` (64) and the limit of an answer (100), which no
caller sets. TLC evaluates each of them on the instances of the runs.

| module | theorem | statement |
|---|---|---|
| `EngineProofs` | `TypeCorrect` | `Spec => []TypeOK` |
| | `TrailsHold` | `Spec => []TrailsAreReal` |
| | `MixerStop` | `Spec => []StopsAtTerminals` |
| | `BudgetHolds` | `Spec => []HopBudget` |
| | `NoDuplicates` | `Spec => []ReportedOnce` |
| | `NearestFound` | `Spec => []FindsNearest`, by the invariant `WalkInv` (`WalkInvHolds`) |
| | `PipelineTyped` | `EngineSpec => []EngineTypeOK`, by `EngineInv` (`EngineInvHolds`), as the next four |
| | `AttributionsBacked` | `EngineSpec => []AttributionIsBacked` |
| | `TiersHold` | `EngineSpec => []TierMeansEvidence` |
| | `MixerRule` | `EngineSpec => []MixerHardStop` |
| | `ResultsAreFound` | `EngineSpec => []ResultsComeFromSearch` |
| | `AgeIsBounded` | `EngineSpec => []AgeCostsTwoHops` |
| | `OutcomeFits` | `EngineSpec => []OutcomeFitsLedger` |
| `AccountsProofs` | `SessionsRevoked` | `~Overlap` and `Spec` give `[]TokensAreCurrent`, by `AccountsInv` (`InvHolds`) |
| | `AlwaysTyped` | `Spec => []TypeOK`, by `OverlapInv` (`OverlapInvHolds`), as the next five |
| | `EmailsStayUnique` | `Spec => []UniqueEmails` |
| | `CopiesDoNotUndo` | `Spec => StaleCopiesDoNotUndo` |
| | `UsedResetsAreRetired` | `Spec => UsedResetsRetire` |
| | `LiveResetsStayFew` | `Spec => []LiveResetsBounded` |
| | `ChangesRaiseVersions` | `Spec => VersionsGrow` |
| | `AccountsAreAtomic` | `~Overlap` and `Spec` give `OneAtATime`, the refinement of `AtomicAccounts` |
| `ExplorerProofs` | `CallIsTyped` | `Spec => []TypeOK`, by `ExplorerInv` (`ExplorerInvHolds`), as the next |
| | `CallKeepsPromise` | `Spec` gives `History`'s `Init /\ [][Next]_vars` under the mapping of `PromiseKept` |
| `TatumProofs` | `PagingIsTyped` | `Spec => []TypeOK`, by `TatumInv` (`TatumInvHolds`), as the next two |
| | `NoGapBetweenPages` | `Spec => []PagesLeaveNoGap` |
| | `PagingKeepsPromise` | as `CallKeepsPromise` |
| `CanonicalProofs` | `ShownHopsAreReal` | `Spec => []HopsAreReal` |
| | `SpendingIsShown` | `Spec => []SpendingIsNotIncome` |
| `LiveSearchProofs` | `DemoIsOffline` | `Spec => []DemoStaysOffline` |
| | `ReportedWereIdle` | `Spec => []DeadEndsWereIdle` |
| | `TypesHold` | `Spec => []TypeOK`, by `ProvidersTyped` and `SearchTyped` (`AlwaysTyped`), as the next |
| | `TrailsArePayments` | `Spec => []TrailsArePaid` |
| | `AllWithinReachIsSeen` | `Spec => []NothingMissed`, by `SearchInv` (`SearchInvHolds`) |
| | `DemoAnswersAreKept` | `Spec => []DemoKeepsPromise`, by `DemoInv` (`DemoInvHolds`) |
| `GraphProofs` | `GraphIsTyped` | `Spec => []TypeOK`, by `GraphInv` (`GraphInvHolds`), as the next two |
| | `WindowBfsIsReachability` | `Spec => []WindowBfsIsReach` |
| | `TemporalSearchIsCheapest` | `Spec => []TemporalIsCheapest` |

**The search.** The inductive invariant `SearchInv` adds to the properties what an
action must know about the loops it is in the middle of: every node held is a trail
in the ledger (`TrailsAreReal` by itself is inductive only together with the facts
that `outgoing` leaves `node` and `downstream` leaves `crossing`), the popped node
is inside the budget, and each key of a queued or reported wallet is in `visited`.
The last is why no wallet is queued twice: an action queues only a key that is not
in `visited`, and everything queued is. `HopBudget` is not inductive without the
bound on the hops of `node` and `crossing`, because a terminal behind a bridge is
reported from them two loops later. The proof goes action by action, with a lemma
for the sequences (`Append`, `Tail`) and one for `Extend`.

**What the search finds.** `FindsNearest` compares a finished search with layers computed
from the ledger alone. Its invariant `NearestInv` says, between any two steps: the queue is in order of hops
and spans two distances at most; a wallet that is queued or reported is exactly as far away as
its hops say; all that is as near as the node being scanned has been seen; and
whatever has been seen is reported, waiting, or as far away as the budget
reaches. That is a statement
about what has *not* been done yet, and none of its parts is inductive alone: that a
wallet is visited at its least distance needs the order of the queue, and the order of the queue
needs that a node's successors are appended while nodes of its own layer are still in
front. Induction over distances is by least counterexample (`LeastNat`, in `SortingProofs`): a
nonempty set of naturals has a least element, so that the first layer with an unvisited
wallet has one before it that was expanded. It holds where the property says so: one chain, no
answer cut, room for every candidate.

**The pipeline.** `EngineInv` says that what a stage holds derives from what the search
reported (`Derived`): each result is a candidate, relabelled at most as a hub, with the score
and evidence those of its relabelled form, none twice, in the order of the ranking. Two more facts
about the search are needed and carried by an invariant of their own (`MarksOK`): a
report's role tells what its wallet is tagged as, and a wallet one hop away that is still
to be expanded is no bridge, so that an exchange two hops away on one chain is not behind one.
`OutcomeFits` counts in both directions: every credible exchange within reach is among
the results, and every result among those within reach. It joins `NearestFound` with
`StagesInv`, which says that each later variable is the function of the earlier ones
that the code computes.

**Sorting.** Every ordering of the model is `Ordering` or `Leading`. An element is placed by how
many come before it; places are distinct and at most the size of the set, so that by the
pigeonhole principle each place is taken (`OrderingSorts`). `LeadingSorts` says what a
stable sort cut to `n` leaves, `LeadingIsFull` that `n` elements with a key of at most
`b` are enough for all that is left to have one.

**The accounts.** The properties hold of the rows, but a step writes from a copy, so
that `AccountsInv` relates what every request holds to the rows: with `Overlap`
FALSE, the row of an account somebody is about to save *is* the copy (`seen`), the
version to be written is one more (or nothing is written), a confirmed reset token is still unused and of that
account, the tokens marked by an issue are all the live ones of the account, and
the claims of every bearer token whose version equals the row's are the row's. A
login copy that has become stale has an older version than the row, and its token
is dead on arrival. Each of these is false when two requests may write to one
account at once; `v_sessions` and `v_single_use` are the counterexamples, which is
why `~Overlap` is an explicit hypothesis of the two theorems that need it
(`SessionsRevoked`, `AccountsAreAtomic`) and not a guard of the code. `AccountsAreAtomic` adds the shape of what may be committed (`CopyShape`: a
password and a version, or an administrator's columns) and shows, action by action,
that a commit is one operation of `AtomicAccounts` and everything else a stutter.

What holds *however* requests overlap has an invariant of its own, `OverlapInv`: the
types, the addresses, that a reset token has an owner, and that whatever a request
in flight refers to has been committed before (`Grounded`): rows are never deleted, so that
its account is still there when it writes, whatever else has changed. A stale copy is
harmless where only assigned columns are written, and a role or an activity is assigned
only when it gets another value (`Deliberate`); addresses stay unique by the constraint at the
insert and not by the check before it. Of the promises that overlap breaks, what is left is proved
here. A reset token that has set a password is used (`SpentIsUsed`), so that no request that
comes later finds it. Each live reset token can be assigned to the request that issued it, and no
request to two of them, because an issue that comes after another of the same request has seen and
marked its token (`HaveIssuers`): hence no more live tokens than requests. And a request that changes
a row writes a version above that of its copy.

**Calls of a provider.** `ExplorerInv` says that once a list was read, each row of it that was
indexed when the call began is *accounted for*: it was read too, or a whole page of
older rows was (`Accounted`, an injection of a page into the rows read). Rows that
come in later are newer than all of these, so that growth disturbs nothing. Then the merge, the
sort and the cut are `LeadingSorts`, and an owed row that was not read is behind
enough older rows of the window to fill the answer (`LeadingIsFull`). `TatumInv` says where a
fetched row stands: oldest first its position *is* its number; newest first it is at most
`listed + 1` less its position, since the list has only grown since, and every row
newer than a fetched one that was there at the beginning has been fetched. From these
follow that pages leave no gap, and that a loop that ends for want of rows has them all
(`EndsFull`). An answer whose reading a reply of another shape has ended is
excepted by the contract, not by the theorems.

**Live requests.** `OfflineInv` says that the registry is the one the settings build and
that whoever is about to ask a provider (a call, a search) asks one it holds; in demo
mode none of those is live. `IdleInv` adds to `DeadEndsWereIdle` that the search began
before the pending call, and the call before now: an answer that is neither full nor
cut holds every row owed to the call (`IdleAnswer`, from `History!Complete` and nothing
else), hence every row listed when the search began.

`SearchTyped` makes every walk that is queued, held or reported a trail of payments
(`Trail`), which is what `TrailsArePaid` says. A row is converted for one address, so that a
hop is a payment only by `HopIsReal` of `CanonicalProofs`, used through `Conversion`, an
instance of it for any address. `NothingMissed` compares what a search found
*at the end* with what was within reach *at the beginning*. Its invariant is `NearFirst`:
no walk that waits is longer than the distance its wallet had then, and a
wallet that was within the budget then and has been seen either waits or has been `Asked` about,
that is, what it led to then has been seen and it is reported unless it has sent something. Rows
that came in since may add wallets anywhere but take away none of this, because what is listed is
never removed (`AskedStays`). That a wallet is met at no more than its distance needs
again a queue in order of hops (`Queued`) and the least distance at which a wallet is
still unseen (`LevelSeen`); once nothing waits, all is asked (`NothingWaits`). Unlike in
`FindsNearest`, a walk may be *shorter* than the distance at the beginning: a nearer way may
appear while the search runs.

The loop over an answer is a function defined by recursion (`Followed`). No step of the
proofs can be an induction over it, but `RecursionExists` in `SortingProofs` shows, by least
counterexample, that such a function exists, and `LoopExists` that `Followed` is one; then
`FollowedDid` says by the same means what the loop has done after its k-th row. `Within` is
treated in the same way (`WithinIsLayers`).

**The demo provider.** A query gives rows through their places in the index (`PlacesOfRows`: a row that
touches the address is filed under it, at one end or the other), and `LeadingSorts` says what
sorting and cutting the places leaves.

**Conversion.** `CanonicalProofs` follows `_to_canonical` for each kind of row. The one delicate case
is Bitcoin: a received row names the first input with an address, a spent one the first output
that is not the queried address, and that an address with a positive sum is among the inputs
is again a fact about a sum defined by recursion.

**The graph.** `GraphInv` adds to the types that there are finitely many nodes, since they
come one by one. The rest holds of every graph of that kind. A search passes over pairs of
wallets (`Passable`), and what a *trek* through them leads to in at most k steps is
`Reached`. After each turn of a search, `QueueOK` holds: every wallet stands in the queue once, at
the depth of some trek to it, nearer ones first; the depths still to be looked at differ by one at
most; what has been looked at has queued all it passes on to (`TurnKeepsQueue`). No wallet
is queued twice, so that after as many turns as there are wallets the queue is done, and what has
been visited is `Reached` (`QueueIsComplete`, `SearchFindsReached`). A property speaks of simple paths, a search
of any: a shortest trek meets no wallet twice, because what lies between the two meetings can
be cut out (`TrekShortens`, `ShortestIsSimple`). `SimplePathsAre` says that the paths networkx
enumerates are the treks without repetition. When direction is ignored, `EdgeData` is the data of
an edge of the pair, hence soundness (`PassableIsLinked`); completeness needs that it is the
only one. The fast path of `neighbors_within` finds what the search forward finds (`FastFindsReached`),
no more than the search both ways. The temporal search compares each timestamp with the next one there is: two that are
out of order have, if any timestamp lies between them, a closer such pair, so that the closest
are neighbours (`OrderedThroughout`). A simple path has fewer edges than the graph has nodes,
by the pigeonhole principle (`WaysAreShort`), so that a bound of that many cuts nothing. A
cheapest path exists because costs are naturals (`CostIsNat`, a sum defined by recursion, and
`CheapestExists`). These properties hold for any depth, any cutoff and any graph.

**Only model-checked**: liveness (`Terminates`, `RequestsFinish`, `RequestsEnd`, the end of a
call in `PromiseKept`), which is out of reach of the prover, as are `ENABLED` and induction by
the library's theorems; where a proof needs an induction, `LeastNat` and `RecursionExists` take
its place. Every invariant and every safety property of a step that a passing run checks is
proved, those of the accounts that need it under `~Overlap`.

## Differences

Places where the code does something else than a document, a docstring or a
comment says. The first three are shown by runs; the others were met while reading,
and the models follow the code.

1. `app/attribution/discovery.py:57`: a wallet that was queued behind a
   bridge is expanded with the provider of the source chain, although the node
   carries the target chain (`v_bridge_walk`).
2. `docs/contracts.md`: role changes and password resets revoke earlier tokens
   immediately. Two overlapping changes read the same `token_version` and write the
   same successor (`v_sessions`).
3. `app/db/models/password_reset_token.py`: a single-use token. Two overlapping
   confirmations both find it unused (`v_single_use`).
4. `discovery.py:128`: a terminal behind a bridge is reported with up to
   `max_hops + 1` hops; line 4 says that the search stops at the maximum.
5. `discovery.py:162`: wallets behind a bridge are two hops farther but are queued at
   once, so that the queue is not in order of distance and a wallet may be reported
   by a path that is not the shortest.
6. `discovery.py:183`: a walk ended by the budget, or one whose recipients were all
   visited before, leaves no candidate; lines 43-44 name dead ends among the results.
7. `discovery.py:60`, `app/providers/demo.py:286`: when the limit cuts the answer, a
   wallet that has outgoing transfers can look like a dead end, which
   `explainability.py:44` explains as having none.
8. `ranking.py:30`: a near mixer ranks before a farther exchange;
   `filtering.py:73-75` says mixers do not outrank VASPs.
9. `discovery.py:97-106`, `scoring.py:47`: the bridge penalty is charged only to a
   terminal right behind the bridge. A further wallet on the way loses it
   (`docs/development.md:150`).
10. `filtering.py:56`: of two candidates with one path the first is kept and then
    tested for dust, and `discovery.py:70-72` follows only the first transfer to a
    wallet, so that a dust transfer hides a real one behind it
    (`filtering.py:7-8`).
11. `explainability.py:19`: narratives are keyed by address. Of two candidates with one
    address only the last is explained (line 3: every candidate).
12. `app/db/models/investigator.py:29`: `token_version` starts at 0;
    `docs/contracts.md:277` says 1.
13. `app/api/v1/auth.py:45`: logout writes nothing and the token stays good;
    `docs/contracts.md:292`.
14. `app/graph/store.py:97`: `neighbors_within` without a window follows edges forward
    only, with one it follows both directions (`docs/contracts.md:139`). `BothWaysIsReach` therefore claims
    completeness for a window only.
15. `app/graph/algorithms.py:77`: the windowed search compares each edge with the
    window, not with the edge before it (line 45: monotonic).
16. `algorithms.py:149`: a path in order of time with more than five edges is not
    found unless it is Dijkstra's own; None is returned (line 116), or a dearer one of up to five.
17. `ethereum.py:135`, `bnb.py`, `tron.py:96`, `bitcoin.py:80`: a caller cannot get past
    the first rows of a long history (`docs/contracts.md:46`).
18. `factory.py:71`: a chain that is not enabled still gets its live class (lines 39-40:
    a stub).
19. `bitcoin.py:124` and the explorers' `payload.get`: a reply of another shape makes
    `healthcheck` raise AttributeError; `base.py:64` and `docs/contracts.md:38` promise a
    bool. `Explorer` counts such a body among the failures of a call.
20. `attribution_service.py:89`: the response always says `demo_mode=True`.
21. `attribution_service.py:108`, `discovery.py:205-229`: tags and degrees come from the
    demo provider's helpers and dataset. Over live providers every wallet is an
    intermediary, so that a live search never names an exchange, a mixer or a hub
    (`LiveSearch` has dead ends only).
22. `discovery.py:58`: the address of a node is compared exactly with the sender of a row.
    An Ethereum address given in another case has no outgoing transfers.
23. `bitcoin.py:185`: a Bitcoin transaction becomes one hop, to the first output that is not
    the queried address; a search follows no other output.
24. `attribution_service.py:70`: one failing provider call loses what the search has found;
    the request ends with 502, or with 500 when the reply had another shape.
25. `demo.py`: `get_block_height` is the greatest block of the dataset, whatever the chain.
26. `algorithms.py:80`: a search that ignores direction looks at the forward edge of a pair;
    when that one is outside the window, a backward edge inside it is not tried. No document
    says what it should do.
27. `app/attribution/ranking.py:70`: a hub among the results gives `false_candidate_filtered` only
    if there is no dead end beside it; the module docstring (lines 11-13) reserves
    `insufficient_evidence` for leftovers that are dead ends only. `OutcomeFitsLedger` follows the code.
28. `investigator_service.py:118`: issuing a reset marks the earlier tokens of the account as used.
    Two issues that overlap do not see each other's token, and both stay live. No document
    says what should happen.

## What is not modelled

Reading and parsing the JSON dataset, demo blocks and heights (a number without a property),
token lists and balances; the stages of the pipeline over the candidates of a live search,
which are dead ends only and pass `Engine`'s stages as such; `PagerankLookup`, which no
caller passes; `pagerank_centrality`, `detect_clusters` and `get_subgraph`, which pass
on what networkx computes; `stream_transactions`, a loop over `get_transactions`;
hashing and the encoding of JWTs, which are their results (a match or none, claims
or a refusal), with the expiry of access tokens a reason for a refusal that needs no
state; wording of narratives and responses; request validation, whose bounds are in
the constants. The stubs (SAHYOG, risk, workers, cases, reports, evidence) keep no
state to have invariants about. PROJECT.json lists each with its reason.

## Plan

Done, in this order: `Discovery` (the product's core), its proofs, `Engine` on top of
it, `Accounts` and its proofs, `Graph`, `Explorer`, `Tatum`, `Providers`, `Canonical`;
then `AtomicAccounts` and its refinement, the contract `History` and the providers that
implement it, and the live providers composed with the search (`LiveSearch`), with its first proofs.

Then the proofs of `FindsNearest`, of the pipeline, of the accounts without a restriction on
overlaps, of `OneAtATime`, and of the safety part of `PromiseKept`.

Then the types and trails of `LiveSearch`, `NothingMissed`, `DemoKeepsPromise`, the
invariants of `Canonical`, and those of `Graph` with its searches in both directions: every
invariant that a passing run checks is proved.

What would come next:

1. That a call such as the search makes (no window, a limit within one page, every row
   stamped) is owed what `LiveSearch` assumes, as a corollary of `CallKeepsPromise` and
   `PagingKeepsPromise`.
2. `Reach`, an abstract specification of the search (a growing set of reachable
   wallets with no queue), implemented by `Discovery` and by `LiveSearch`.
3. The contract of the SAHYOG stub and the lookups of the bridge registry, if callers
   appear.
