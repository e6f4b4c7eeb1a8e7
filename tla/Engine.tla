------------------------------- MODULE Engine -------------------------------
(***************************************************************************)
(* The attribution pipeline (attribution/engine.py): the search of         *)
(* Discovery, then filtering, scoring, ranking with the outcome, and the   *)
(* explanations, one action per stage.  No stage awaits anything.          *)
(*                                                                         *)
(* Scores are integers: a proximity rank is in 90ths of a hop, a           *)
(* confidence score in sixths of a point, so that both are exact.          *)
(***************************************************************************)
EXTENDS Discovery, SequencesExt, Sorting

CONSTANT AddrOrder  \* AddrOrder[a]: the place of a in the order of strings

ASSUME EngineConstantsOK == AddrOrder \in [Addr -> Nat]

VARIABLES
    stage,          \* the next stage to run
    scored,         \* the ScoredCandidate list handed from stage to stage
    outcome,        \* outcome and insufficient flag, once classified
    explanations    \* terminal address -> the candidate its narrative is about

engineVars == <<stage, scored, outcome, explanations>>

MinHopAmount == 5   \* MIN_HOP_AMOUNT in thousandths of a unit

NoOutcome == [kind |-> "none", insufficient |-> FALSE]

-----------------------------------------------------------------------------
(* Stage C: filtering.apply_filters. *)

IsDust(i) == ledger[i].amount < MinHopAmount

HasDust(c) == \E k \in DOMAIN c.edges : IsDust(c.edges[k])

IsBacked(c) == c.hops # 0 /\ c.edges # <<>>

\* Mutant: dust is let through.
KeptWithDust(cs) ==
    {i \in DOMAIN cs :
        /\ IsBacked(cs[i])
        /\ ~\E j \in 1 .. i - 1 : IsBacked(cs[j]) /\ cs[j].path = cs[i].path}

\* Positions that survive.  A path counts as seen before its dust is looked at.
Kept(cs) ==
    {i \in DOMAIN cs :
        /\ IsBacked(cs[i])
        /\ ~\E j \in 1 .. i - 1 : IsBacked(cs[j]) /\ cs[j].path = cs[i].path
        /\ ~HasDust(cs[i])}

\* Mutant: exchanges and mixers are relabelled as well.
RelabelAll(c) == IF IsHub(c.addr) THEN [c EXCEPT !.role = "hub"] ELSE c

Relabel(c) ==
    IF IsHub(c.addr) /\ c.role \notin {"vasp", "mixer"}
      THEN [c EXCEPT !.role = "hub"] ELSE c

ApplyFilters(cs) ==
    LET kept  == Kept(cs)
        order == Ordering(kept, {p \in kept \X kept : p[1] < p[2]})
    IN  [k \in DOMAIN order |-> Relabel(cs[order[k]])]

-----------------------------------------------------------------------------
(* Stages E and F: scoring.py. *)

HitsMixer(c) == c.role = "mixer"

Dated(c) == {k \in DOMAIN c.edges : ledger[c.edges[k]].age # NoAge}

\* last_seen_at: the timestamp of the last edge that has one, in days of age.  A
\* trail without any is scored as one of today.
Age(c) == IF Dated(c) = {} THEN 0 ELSE ledger[c.edges[Max(Dated(c))]].age

OrZero(P, n) == IF P THEN n ELSE 0

\* Mutant: the penalty for age has no ceiling.
DecayUncapped(c) == OrZero(Age(c) > 90, Age(c))

\* time_decay_penalty: min(2.0, age / 90) past 90 days.
Decay(c) == OrZero(Age(c) > 90, Min({180, Age(c)}))

Proximity(c) ==
    90 * c.hops + OrZero(HitsMixer(c), 180) + OrZero(c.bridged, 90) + Decay(c)

IsLabelledVasp(c) == c.role = "vasp" /\ c.label

\* Mutant: the hop bounds are not looked at.
EvidenceTierAnyHops(c) ==
    CASE HitsMixer(c) -> 99
      [] IsLabelledVasp(c) /\ ~c.bridged -> 1
      [] IsLabelledVasp(c) /\ c.bridged -> 3
      [] OTHER -> 4

EvidenceTier(c) ==
    CASE HitsMixer(c) -> 99
      [] IsLabelledVasp(c) /\ ~c.bridged /\ c.hops = 1 -> 1
      [] IsLabelledVasp(c) /\ ~c.bridged /\ c.hops = 2 -> 2
      [] IsLabelledVasp(c) /\ (c.bridged \/ c.hops > 2) -> 3
      [] OTHER -> 4

TierScore ==
    [t \in {1, 2, 3, 4, 99} |->
       CASE t = 1 -> 100 [] t = 2 -> 80 [] t = 3 -> 55 [] t = 4 -> 30 [] OTHER -> 0]

Freshness(c) == CASE Age(c) > 365 -> 40 [] Age(c) \in 91 .. 365 -> 70 [] OTHER -> 100

\* Mutant: a mixer is scored like any other terminal.
ConfidenceOfAny(c) ==
    TierScore[EvidenceTier(c)] + OrZero(c.label, 100)
      + Min({100, 25 * c.hops}) + OrZero(c.role = "vasp", 100)
      + OrZero(c.hops = Len(c.edges), 100) + Freshness(c)

\* The six equally weighted components; 0 for a mixer.
Confidence(c) ==
    IF HitsMixer(c) THEN 0 ELSE
    TierScore[EvidenceTier(c)] + OrZero(c.label, 100)
      + Min({100, 25 * c.hops}) + OrZero(c.role = "vasp", 100)
      + OrZero(c.hops = Len(c.edges), 100) + Freshness(c)

Band(score) ==
    CASE score >= 6 * 70 -> "high"
      [] score >= 6 * 40 /\ score < 6 * 70 -> "medium"
      [] OTHER -> "low"

\* The codes of the evidence items that explain a candidate.
Evidence(c) ==
    IF HitsMixer(c) THEN {"mixer_stop"}
    ELSE {e \in {"vasp_label", "bridge_hop", "path_integrity", "stale_path"} :
            \/ e = "vasp_label" /\ c.role = "vasp"
            \/ e = "bridge_hop" /\ c.bridged
            \/ e = "path_integrity" /\ c.hops = Len(c.edges)
            \/ e = "stale_path" /\ Freshness(c) < 100}

Score(c) ==
    [cand |-> c, proximity |-> Proximity(c), tier |-> EvidenceTier(c),
     confidence |-> Confidence(c), band |-> Band(Confidence(c)),
     evidence |-> Evidence(c)]

-----------------------------------------------------------------------------
(* Stage G: ranking.py. *)

RankKey(s) == <<s.proximity, s.tier, s.cand.hops, AddrOrder[s.cand.addr]>>

LexLess(x, y) ==
    \E k \in DOMAIN x : x[k] < y[k] /\ \A j \in 1 .. k - 1 : x[j] = y[j]

\* sorted() is stable: ties keep their order.
RankBefore(ss) ==
    {p \in (DOMAIN ss) \X (DOMAIN ss) :
        \/ LexLess(RankKey(ss[p[1]]), RankKey(ss[p[2]]))
        \/ RankKey(ss[p[1]]) = RankKey(ss[p[2]]) /\ p[1] < p[2]}

Rank(ss) ==
    LET order == Ordering(DOMAIN ss, RankBefore(ss))
    IN  [k \in DOMAIN ss |-> ss[order[k]]]

WithRole(ss, role) == {i \in DOMAIN ss : ss[i].cand.role = role}

\* Mutant: one exchange is enough for a multi-candidate outcome.
ClassifyOutcomeMulti(ss) ==
    LET kind == IF WithRole(ss, "vasp") # {} THEN "ranked_multi_candidate"
                                             ELSE "insufficient_evidence"
    IN  [kind |-> kind, insufficient |-> kind = "insufficient_evidence"]

ClassifyOutcome(ss) ==
    LET vasps == WithRole(ss, "vasp")
        kind == CASE Cardinality(vasps) = 1 -> "single_candidate"
                  [] Cardinality(vasps) > 1 -> "ranked_multi_candidate"
                  [] /\ vasps = {} /\ WithRole(ss, "mixer") = {}
                     /\ WithRole(ss, "dead_end") = {} /\ WithRole(ss, "hub") # {}
                       -> "false_candidate_filtered"
                  [] OTHER -> "insufficient_evidence"
    IN  [kind |-> kind, insufficient |-> kind = "insufficient_evidence"]

\* Stage H: a dict keyed by terminal address, so the last candidate wins.
Explain(ss) ==
    [a \in {ss[i].cand.addr : i \in DOMAIN ss} |->
       ss[Max({i \in DOMAIN ss : ss[i].cand.addr = a})].cand]

-----------------------------------------------------------------------------
EngineInit ==
    /\ Init
    /\ stage = "discovery"
    /\ scored = <<>>
    /\ outcome = NoOutcome
    /\ explanations = <<>>

Search ==
    /\ stage = "discovery" /\ pc # "done"
    /\ Next
    /\ UNCHANGED engineVars

\* Stages B to D: wrap the candidates, filter them.  The evidence collected
\* here is replaced by the scoring stage.
Filter ==
    /\ stage = "discovery" /\ pc = "done"
    /\ scored' = ApplyFilters(candidates)
    /\ stage' = "score"
    /\ UNCHANGED <<vars, outcome, explanations>>

ScoreAll ==
    /\ stage = "score"
    /\ scored' = [i \in DOMAIN scored |-> Score(scored[i])]
    /\ stage' = "rank"
    /\ UNCHANGED <<vars, outcome, explanations>>

RankAll ==
    /\ stage = "rank"
    /\ scored' = Rank(scored)
    /\ outcome' = ClassifyOutcome(scored')
    /\ stage' = "explain"
    /\ UNCHANGED <<vars, explanations>>

ExplainAll ==
    /\ stage = "explain"
    /\ explanations' = Explain(scored)
    /\ stage' = "returned"
    /\ UNCHANGED <<vars, scored, outcome>>

Answered == stage = "returned" /\ UNCHANGED <<vars, engineVars>>

EngineNext == Search \/ Filter \/ ScoreAll \/ RankAll \/ ExplainAll \/ Answered

EngineSpec == EngineInit /\ [][EngineNext]_<<vars, engineVars>>

-----------------------------------------------------------------------------
(* Properties. *)

Ranked == stage \in {"explain", "returned"}

Result == {scored[i] : i \in DOMAIN scored}

\* Type invariant of the pipeline.  A dead end has no label and is no exchange,
\* whatever the dataset says of its address: it is never trusted above 55 of 100.
EngineTypeOK ==
    /\ TypeOK
    /\ stage \in {"discovery", "score", "rank", "explain", "returned"}
    /\ stage = "score" => Range(scored) \subseteq Candidate
    /\ stage \in {"rank", "explain", "returned"} =>
         \A s \in Result : /\ s.cand \in Candidate
                           /\ s.proximity \in 90 * s.cand.hops .. 90 * s.cand.hops + 450
                           /\ s.confidence \in 0 .. 600
                           /\ s.cand.role = "dead_end" => s.confidence <= 330
                           /\ s.tier \in DOMAIN TierScore
    /\ Ranked => outcome.insufficient = (outcome.kind = "insufficient_evidence")

\* An exchange named in the answer received a trail of real transfers from the
\* suspect, none of them dust, none of them past a mixer or another exchange.
AttributionIsBacked ==
    Ranked => \A s \in Result :
      s.cand.role = "vasp" =>
        /\ IsTrail(s.cand)
        /\ \A k \in DOMAIN s.cand.edges : ~IsDust(s.cand.edges[k])
        /\ \A k \in 2 .. s.cand.hops : Role[s.cand.path[k]] \notin {"vasp", "mixer"}

\* Tier 1 is claimed only for a transfer from the suspect itself, and a trail
\* across a followed bridge is never better than tier 3.
TierMeansEvidence ==
    Ranked => \A s \in Result :
      /\ s.tier = 1 => \E i \in DOMAIN ledger :
           ledger[i].from = Suspect /\ ledger[i].to = s.cand.addr /\ ~IsDust(i)
      /\ s.tier \in {1, 2} => \A k \in 2 .. s.cand.hops : Role[s.cand.path[k]] # "bridge"

\* The mixer rule, end to end: a trail that meets a mixer ends in it, carries no
\* confidence at all and is explained by nothing but the mixer stop.
MixerHardStop ==
    Ranked => \A s \in Result : \A k \in 2 .. s.cand.hops + 1 :
      Role[s.cand.path[k]] = "mixer" =>
        /\ k = s.cand.hops + 1
        /\ s.confidence = 0 /\ s.band = "low" /\ s.tier = 99
        /\ s.evidence = {"mixer_stop"}

Reached(role) == UNION {Found(k)[role] : k \in 1 .. MaxHops}

\* On one chain, without dust, when the search was not cut short, the outcome
\* is decided by what a walk through ordinary wallets can reach.  A hub beside a dead
\* end is insufficient evidence, as classify_outcome has it; the docstring of the
\* module (ranking.py, lines 11-13) calls it a filtered candidate.
OutcomeFitsLedger ==
    /\ Ranked /\ StaysOnChain /\ Uncut /\ Len(candidates) < MaxCandidates
    /\ \A i \in DOMAIN ledger : ~IsDust(i)
    =>
      outcome.kind =
        CASE Cardinality(Reached("vasp")) > 1 -> "ranked_multi_candidate"
          [] Cardinality(Reached("vasp")) = 1 -> "single_candidate"
          [] Reached("vasp") \cup Reached("mixer") \cup Reached("dead_end") = {}
             /\ Reached("hub") # {} -> "false_candidate_filtered"
          [] OTHER -> "insufficient_evidence"

\* Age can cost a candidate at most two hops: it is never ranked behind one of
\* its own role more than two hops farther from the suspect, on the same
\* number of bridges, nor behind one exactly two hops farther unless only the
\* farther one has a label: there the ranks may tie.
AgeCostsTwoHops ==
    Ranked => \A i, j \in DOMAIN scored :
      /\ scored[i].cand.role = scored[j].cand.role
      /\ scored[i].cand.bridged = scored[j].cand.bridged
      /\ \/ scored[i].cand.hops + 2 < scored[j].cand.hops
         \/ /\ scored[i].cand.hops + 2 = scored[j].cand.hops
            /\ scored[j].cand.label => scored[i].cand.label
      => i < j

\* Filtering, scoring and ranking drop and reorder candidates but never change
\* what was found: every result is a reported candidate, relabelled at most as
\* a hub, and no candidate appears twice.
ResultsComeFromSearch ==
    Ranked =>
      /\ \A s \in Result : \E c \in Range(candidates) :
           /\ [c EXCEPT !.role = s.cand.role] = s.cand
           /\ s.cand.role # c.role => c.role = "dead_end" /\ s.cand.role = "hub"
      /\ \A i, j \in DOMAIN scored :
           scored[i].cand.path = scored[j].cand.path => i = j

=============================================================================
