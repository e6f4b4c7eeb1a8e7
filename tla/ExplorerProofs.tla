----------------------------- MODULE ExplorerProofs -----------------------------
(***************************************************************************)
(* A call of the block-explorer providers keeps the contract History, for  *)
(* every ledger, page size and question: what its answer holds and leaves  *)
(* out, and that every step of it is a step of the contract.  (That a call *)
(* ends is left to TLC.)                                                   *)
(***************************************************************************)
EXTENDS Explorer, SortingProofs

\* Row r was read, or else its list had a page of earlier rows.
Accounted(r) ==
    \/ \E i \in DOMAIN got : got[i] = r
    \/ /\ ~OnFirstPage(r)
       /\ \E f \in Injection(1 .. Offset, DOMAIN got) :
            \A k \in 1 .. Offset : got[f[k]] <= r

ExplorerInv ==
    /\ ask \in Asked
    /\ began \in 0 .. listed /\ listed \in 0 .. Len(Ledger)
    /\ turn \in 1 .. 4 /\ attempt \in {0, 1}
    /\ got \in Seq(1 .. listed)
    /\ outcome \in {"open", "failed", "answered"} /\ odd \in BOOLEAN
    /\ answer \in Seq(1 .. listed)
    /\ \A i \in DOMAIN answer : \E j \in DOMAIN got : answer[i] = got[j]
    /\ ~odd => \A r \in 1 .. began :
         (\E t \in 1 .. turn - 1 : Kinds[t] = Ledger[r].kind) => Accounted(r)

LEMMA KindsAre ==
  /\ Len(Kinds) = 3 /\ DOMAIN Kinds = 1 .. 3
  /\ ToSet(Kinds) = {Kinds[t] : t \in 1 .. 3}
<1>1. Len(Kinds) = 3 /\ DOMAIN Kinds = 1 .. 3
  BY DEF Kinds
<1> QED BY <1>1 DEF ToSet

LEMMA LedgerIs ==
  /\ Len(Ledger) \in Nat /\ Row = 1 .. Len(Ledger)
  /\ \A r \in Row : Ledger[r].kind \in ToSet(Kinds) /\ Stamp(r) \in Nat
<1>1. Ledger \in Seq([kind : ToSet(Kinds), stamp : Nat])
  BY ExplorerConstantsOK
<1>2. /\ Len(Ledger) \in Nat /\ Row = 1 .. Len(Ledger)
      /\ Ledger \in [Row -> [kind : ToSet(Kinds), stamp : Nat]]
  BY <1>1, LenProperties DEF Row
<1> QED BY <1>2 DEF Stamp

-----------------------------------------------------------------------------
(* The first page of a list. *)

\* A page holds rows of its list, once each, and a row it leaves out is behind a
\* full page of them.
LEMMA PageHolds ==
  ASSUME ExplorerInv, NEW kind
  PROVE  \E m \in 0 .. Offset :
           /\ Page(kind) \in [1 .. m -> 1 .. listed]
           /\ \A k, l \in 1 .. m : Page(kind)[k] = Page(kind)[l] => k = l
           /\ \A r \in 1 .. listed : Ledger[r].kind = kind =>
                \/ \E k \in 1 .. m : Page(kind)[k] = r
                \/ /\ m = Offset /\ \A k \in 1 .. m : Page(kind)[k] <= r
                   /\ ~OnFirstPage(r)
<1> DEFINE rows == {r \in 1 .. listed : Ledger[r].kind = kind}
           key == [r \in rows |-> r]
           p == Page(kind)
<1>1. listed \in Nat /\ Offset \in Nat
  BY LedgerIs, ExplorerConstantsOK DEF ExplorerInv
<1>2. rows \in SUBSET Nat /\ IsFiniteSet(rows)
  <2>1. IsFiniteSet(1 .. listed) /\ rows \in SUBSET (1 .. listed)
    BY <1>1, FS_Interval
  <2> HIDE DEF rows
  <2>2. IsFiniteSet(rows)
    BY <2>1, FS_Subset
  <2> QED BY <1>1, <2>1, <2>2
<1>3. p = Leading(rows, key, Offset)
  BY DEF Page
<1>4. \A r \in rows : key[r] = r /\ key[r] \in Int
  BY <1>1
<1> HIDE DEF rows, key, p
<1>5. PICK m \in 0 .. Offset :
         /\ p \in [1 .. m -> rows]
         /\ \A k, l \in 1 .. m : p[k] = p[l] => k = l
         /\ \A k, l \in 1 .. m : k < l => key[p[k]] <= key[p[l]]
         /\ \A i \in rows : \/ \E k \in 1 .. m : p[k] = i
                            \/ m = Offset /\ \A k \in 1 .. m : key[p[k]] <= key[i]
  <2>1. Leads(p, rows, key, Offset)
    BY <1>1, <1>2, <1>3, <1>4, LeadingSorts
  <2> QED BY <2>1 DEF Leads
<1>6. rows \in SUBSET (1 .. listed) /\ \A r \in 1 .. listed : r \in rows <=> Ledger[r].kind = kind
  BY DEF rows
<1>7. ASSUME NEW r \in rows, ~\E k \in 1 .. m : p[k] = r
      PROVE  m = Offset /\ (\A k \in 1 .. m : p[k] <= r) /\ ~OnFirstPage(r)
  <2>1. m = Offset /\ \A k \in 1 .. m : p[k] \in rows /\ p[k] <= r /\ p[k] # r
    BY <1>4, <1>5, <1>7
  <2> DEFINE before == {q \in 1 .. r : Ledger[q].kind = Ledger[r].kind}
             g == [k \in 1 .. m + 1 |-> IF k <= m THEN p[k] ELSE r]
  <2>2. g \in Injection(1 .. m + 1, before)
    <3>1. ASSUME NEW k \in 1 .. m PROVE p[k] \in before
      <4>1. p[k] \in 1 .. listed /\ Ledger[p[k]].kind = kind /\ Ledger[r].kind = kind /\ p[k] <= r
        BY <1>6, <2>1
      <4>2. p[k] \in 1 .. r
        BY <1>1, <1>6, <4>1
      <4> QED BY <4>1, <4>2
    <3>2. r \in before
      BY <1>1, <1>6
    <3>3. g \in [1 .. m + 1 -> before]
      BY <1>1, <1>5, <3>1, <3>2
    <3>4. \A k, l \in 1 .. m + 1 : g[k] = g[l] => k = l
      BY <1>1, <1>5, <2>1
    <3> HIDE DEF before, g
    <3> QED BY <3>3, <3>4 DEF Injection, IsInjective
  <2>3. IsFiniteSet(1 .. m + 1) /\ Cardinality(1 .. m + 1) = m + 1
    BY <1>1, <1>5, FS_Interval
  <2>4. IsFiniteSet(before) /\ Cardinality(before) \in Nat
    <3>1. r \in Int /\ IsFiniteSet(1 .. r) /\ before \in SUBSET (1 .. r)
      BY <1>1, <1>6, FS_Interval
    <3> HIDE DEF before
    <3> QED BY <3>1, FS_Subset, FS_CardinalityType
  <2>5. m + 1 <= Cardinality(before)
    <3> HIDE DEF before, g
    <3> QED BY <2>2, <2>3, <2>4, FS_Injection
  <2> QED BY <1>1, <2>1, <2>4, <2>5 DEF OnFirstPage
<1>8. p \in [1 .. m -> 1 .. listed]
  BY <1>5, <1>6
<1>9. ASSUME NEW r \in 1 .. listed, Ledger[r].kind = kind
      PROVE  \/ \E k \in 1 .. m : p[k] = r
             \/ m = Offset /\ (\A k \in 1 .. m : p[k] <= r) /\ ~OnFirstPage(r)
  BY <1>6, <1>7, <1>9
<1>10. \A k, l \in 1 .. m : p[k] = p[l] => k = l
  BY <1>5
<1>11. m \in 0 .. Offset
  OBVIOUS
<1> USE DEF p
<1> QED BY ONLY <1>8, <1>9, <1>10, <1>11

-----------------------------------------------------------------------------
(* The answer. *)

\* A row of which less than a page is asked for is no farther than a page of rows
\* that are all in the window.
LEMMA AnswerIs ==
  ASSUME ExplorerInv
  PROVE  \E m \in 0 .. ask.limit :
           /\ Answer(got) \in [1 .. m -> 1 .. listed]
           /\ \A k \in 1 .. m : InWindow(Answer(got)[k])
           /\ \A k \in 1 .. m : \E j \in DOMAIN got : Answer(got)[k] = got[j]
           /\ \A k, l \in 1 .. m : k < l => Stamp(Answer(got)[k]) <= Stamp(Answer(got)[l])
           /\ \A r \in Owed : Accounted(r) =>
                \/ \E k \in 1 .. m : Answer(got)[k] = r
                \/ m = ask.limit /\ \A k \in 1 .. m : Stamp(Answer(got)[k]) <= Stamp(r)
<1> DEFINE kept == {i \in DOMAIN got : InWindow(got[i])}
           key == [i \in kept |-> Stamp(got[i])]
           best == Leading(kept, key, ask.limit)
           a == Answer(got)
<1>1. /\ Len(got) \in Nat /\ DOMAIN got = 1 .. Len(got)
      /\ \A i \in DOMAIN got : got[i] \in 1 .. listed
  BY LenProperties DEF ExplorerInv
<1>2. listed \in Nat /\ listed <= Len(Ledger) /\ began \in 0 .. listed
  BY LedgerIs DEF ExplorerInv
<1>3. \A r \in 1 .. listed : r \in Row /\ Stamp(r) \in Nat
  BY <1>2, LedgerIs
<1>4. ask.limit \in Nat /\ Offset \in Nat
  BY ExplorerConstantsOK DEF ExplorerInv, Asked
<1>5. kept \subseteq Nat /\ IsFiniteSet(kept)
  <2>1. IsFiniteSet(1 .. Len(got)) /\ kept \in SUBSET (1 .. Len(got))
    BY <1>1, FS_Interval
  <2> HIDE DEF kept
  <2>2. IsFiniteSet(kept)
    BY <2>1, FS_Subset
  <2> QED BY <1>1, <2>1, <2>2
<1>6. \A i \in kept : key[i] = Stamp(got[i]) /\ key[i] \in Int
  BY <1>1, <1>3
<1>7. a = [k \in DOMAIN best |-> got[best[k]]]
  BY DEF Answer
<1>8. /\ kept \in SUBSET (DOMAIN got)
      /\ \A i \in DOMAIN got : i \in kept <=> InWindow(got[i])
  OBVIOUS
<1> HIDE DEF kept, key, best, a
<1>9. PICK m \in 0 .. ask.limit :
         /\ best \in [1 .. m -> kept]
         /\ \A k, l \in 1 .. m : best[k] = best[l] => k = l
         /\ \A k, l \in 1 .. m : k < l => key[best[k]] <= key[best[l]]
         /\ \A i \in kept : \/ \E k \in 1 .. m : best[k] = i
                            \/ m = ask.limit /\ \A k \in 1 .. m : key[best[k]] <= key[i]
  <2>1. Leads(best, kept, key, ask.limit)
    BY <1>4, <1>5, <1>6, LeadingSorts DEF best
  <2> QED BY <2>1 DEF Leads
<1>10. \A k \in 1 .. m : /\ best[k] \in kept /\ a[k] = got[best[k]]
                         /\ Stamp(a[k]) = key[best[k]] /\ InWindow(a[k])
  BY <1>6, <1>7, <1>8, <1>9
<1>11. a \in [1 .. m -> 1 .. listed]
  BY <1>1, <1>7, <1>8, <1>9
<1>12. \A k, l \in 1 .. m : k < l => Stamp(a[k]) <= Stamp(a[l])
  BY <1>9, <1>10
<1>13. ASSUME NEW r \in Owed, Accounted(r), ~\E k \in 1 .. m : a[k] = r
       PROVE  m = ask.limit /\ \A k \in 1 .. m : Stamp(a[k]) <= Stamp(r)
  <2>1. /\ r \in 1 .. listed /\ Stamp(r) \in Nat /\ Stamp(r) # NoStamp /\ InWindow(r)
        /\ OnFirstPage(r) \/ (ask.limit <= Offset /\ ask.from = 0)
    BY <1>2, <1>3, <1>13 DEF Owed
  \* The row was read, and cut.
  <2>2. CASE \E i \in DOMAIN got : got[i] = r
    <3>1. PICK i \in DOMAIN got : got[i] = r
      BY <2>2
    <3>2. i \in kept /\ ~\E k \in 1 .. m : best[k] = i
      BY <1>8, <1>10, <1>13, <2>1, <3>1
    <3>3. m = ask.limit /\ \A k \in 1 .. m : key[best[k]] <= key[i]
      BY <1>9, <3>2
    <3> QED BY <1>6, <1>10, <3>1, <3>2, <3>3
  \* A page of earlier rows was read: they are enough.
  <2>3. CASE \E f \in Injection(1 .. Offset, DOMAIN got) :
               \A k \in 1 .. Offset : got[f[k]] <= r
    <3>1. PICK f \in Injection(1 .. Offset, DOMAIN got) :
            \A k \in 1 .. Offset : got[f[k]] <= r
      BY <2>3
    <3>2. /\ \A k \in 1 .. Offset : f[k] \in DOMAIN got
          /\ \A k, l \in 1 .. Offset : f[k] = f[l] => k = l
      BY DEF Injection, IsInjective
    <3>3. ~OnFirstPage(r) \/ \E i \in DOMAIN got : got[i] = r
      BY <1>13 DEF Accounted
    <3>4. CASE \E i \in DOMAIN got : got[i] = r
      BY <2>2, <3>4
    <3>5. CASE ~OnFirstPage(r)
      <4> DEFINE Low == {i \in kept : key[i] <= Stamp(r)}
                 g == [k \in 1 .. ask.limit |-> f[k]]
      <4>1. ask.limit <= Offset /\ ask.from = 0
        BY <2>1, <3>5
      <4>2. \A k \in 1 .. ask.limit : k \in 1 .. Offset
        BY <1>4, <4>1
      <4>3. ASSUME NEW k \in 1 .. Offset PROVE f[k] \in Low
        <5>1. got[f[k]] \in 1 .. listed /\ got[f[k]] <= r
          BY <1>1, <3>1, <3>2
        <5>2. Stamp(got[f[k]]) <= Stamp(r)
          <6>1. CASE Stamp(got[f[k]]) = NoStamp
            BY <2>1, <6>1 DEF NoStamp
          <6>2. CASE got[f[k]] = r
            BY <2>1, <6>2
          <6>3. CASE Stamp(got[f[k]]) # NoStamp /\ got[f[k]] < r
            BY <1>3, <2>1, <5>1, <6>3, ExplorerConstantsOK DEF Stamp
          <6> QED BY <1>2, <2>1, <5>1, <6>1, <6>2, <6>3
        <5>3. InWindow(got[f[k]])
          <6>1. ask.till \in Nat /\ Stamp(got[f[k]]) \in Nat
            BY <1>3, <5>1, ExplorerConstantsOK DEF ExplorerInv, Asked
          <6>2. Stamp(r) <= ask.till
            BY <2>1 DEF InWindow
          <6> QED BY <2>1, <4>1, <5>2, <6>1, <6>2 DEF InWindow, AfterStart
        <5> QED BY <1>6, <1>8, <3>2, <5>2, <5>3
      <4>4. g \in Injection(1 .. ask.limit, Low)
        <5>1. g \in [1 .. ask.limit -> Low]
          BY <4>2, <4>3
        <5>2. \A k, l \in 1 .. ask.limit : g[k] = g[l] => k = l
          BY <3>2, <4>2
        <5> HIDE DEF g, Low
        <5> QED BY <5>1, <5>2 DEF Injection, IsInjective
      <4>5. /\ DOMAIN best = 1 .. ask.limit
            /\ \A k \in 1 .. ask.limit : key[best[k]] <= Stamp(r)
        <5>1. kept \subseteq Nat /\ IsFiniteSet(kept) /\ ask.limit \in Nat /\ Stamp(r) \in Int
              /\ \A i \in kept : key[i] \in Int
          BY <1>4, <1>5, <1>6, <2>1
        <5> HIDE DEF g
        <5> QED BY <4>4, <5>1, LeadingIsFull DEF best
      <4>6. m = ask.limit
        BY <1>4, <1>9, <4>5
      <4> QED BY <1>10, <4>5, <4>6
    <3> QED BY <3>3, <3>4, <3>5
  <2> QED BY <1>13, <2>2, <2>3 DEF Accounted
<1>14. \A k \in 1 .. m : \E j \in DOMAIN got : a[k] = got[j]
  BY <1>8, <1>10
<1>15. /\ m \in 0 .. ask.limit /\ \A k \in 1 .. m : InWindow(a[k])
       /\ \A r \in Owed : Accounted(r) =>
            \/ \E k \in 1 .. m : a[k] = r
            \/ m = ask.limit /\ \A k \in 1 .. m : Stamp(a[k]) <= Stamp(r)
  BY <1>10, <1>13
<1> QED BY <1>11, <1>12, <1>14, <1>15 DEF a

-----------------------------------------------------------------------------
(* The invariant. *)

LEMMA InitInv == Init => ExplorerInv
<1> SUFFICES ASSUME Init PROVE ExplorerInv
  OBVIOUS
<1>1. got = <<>> /\ answer = <<>> /\ got \in Seq(1 .. listed) /\ answer \in Seq(1 .. listed)
  BY DEF Init
<1>2. \A i \in DOMAIN answer : \E j \in DOMAIN got : answer[i] = got[j]
  BY <1>1
<1>3. ask \in Asked /\ listed \in 0 .. Len(Ledger) /\ began = listed /\ turn = 1
      /\ attempt = 0 /\ outcome = "open" /\ odd = FALSE
  BY DEF Init
<1>4. began \in 0 .. listed /\ 1 .. turn - 1 = {}
  BY <1>3, LedgerIs
<1>5. ~\E t \in 1 .. turn - 1 : TRUE
  BY <1>4
<1>6. turn \in 1 .. 4 /\ attempt \in {0, 1} /\ outcome \in {"open", "failed", "answered"}
  BY <1>3
<1>7. odd \in BOOLEAN
  BY <1>3
<1> QED BY <1>1, <1>2, <1>3, <1>4, <1>5, <1>6, <1>7 DEF ExplorerInv

\* While the rows read stay, what is accounted for stays so.
LEMMA AccountedStays ==
  ASSUME UNCHANGED got, NEW r, Accounted(r)
  PROVE  Accounted(r)'
BY DEF Accounted, OnFirstPage

LEMMA GrowInv == ASSUME ExplorerInv, Grow PROVE ExplorerInv'
<1>1. /\ listed' = listed + 1 /\ listed < Len(Ledger)
      /\ UNCHANGED <<ask, began, turn, attempt, got, outcome, answer, odd>>
  BY DEF Grow
<1>2. listed' \in 0 .. Len(Ledger) /\ began' \in 0 .. listed' /\ 1 .. listed \subseteq 1 .. listed'
  BY <1>1, LedgerIs DEF ExplorerInv
<1>3. got' \in Seq(1 .. listed') /\ answer' \in Seq(1 .. listed')
  BY <1>1, <1>2, SeqMonotonic DEF ExplorerInv
<1> QED BY <1>1, <1>2, <1>3, AccountedStays DEF ExplorerInv

\* A list that is taken accounts for its rows; those of the others stay so.
LEMMA TakeInv ==
  ASSUME ExplorerInv, Asking, NEW rows, Take(rows),
         \/ rows = Page(Kinds[turn]) /\ odd' = odd
         \/ rows = <<>> /\ odd' = TRUE
  PROVE  ExplorerInv'
<1>1. /\ outcome = "open" /\ turn \in 1 .. 3 /\ turn' = turn + 1 /\ attempt' = 0
      /\ got' = got \o rows /\ UNCHANGED <<ask, listed, began, outcome, answer>>
      /\ odd' \in BOOLEAN
  <2>1. turn \in 1 .. 4 /\ outcome = "open" /\ turn <= 3
    BY KindsAre DEF ExplorerInv, Asking
  <2>2. odd' \in BOOLEAN
    BY DEF ExplorerInv
  <2> QED BY <2>1, <2>2 DEF Take
<1>2. /\ Len(got) \in Nat /\ DOMAIN got = 1 .. Len(got) /\ got \in Seq(1 .. listed)
      /\ listed \in Nat /\ began \in 0 .. listed /\ Offset \in Nat
  BY LenProperties, LedgerIs, ExplorerConstantsOK DEF ExplorerInv
<1>3. rows \in Seq(1 .. listed)
  <2>1. CASE rows = Page(Kinds[turn])
    <3>1. PICK m \in 0 .. Offset : rows \in [1 .. m -> 1 .. listed]
      BY <2>1, PageHolds
    <3> QED BY <1>2, <3>1, FunctionIsSeq
  <2>2. CASE rows = <<>>
    BY <2>2
  <2> QED BY <2>1, <2>2
<1>4. /\ got' \in Seq(1 .. listed) /\ Len(rows) \in Nat
      /\ Len(got') = Len(got) + Len(rows) /\ DOMAIN got' = 1 .. Len(got) + Len(rows)
      /\ \A i \in 1 .. Len(got) + Len(rows) :
           got'[i] = IF i <= Len(got) THEN got[i] ELSE rows[i - Len(got)]
  <2>1. /\ got' \in Seq(1 .. listed)
        /\ Len(got') = Len(got) + Len(rows)
        /\ \A i \in 1 .. Len(got) + Len(rows) :
             got'[i] = IF i <= Len(got) THEN got[i] ELSE rows[i - Len(got)]
    BY <1>1, <1>2, <1>3, ConcatProperties
  <2>2. Len(rows) \in Nat
    BY <1>3, LenProperties
  <2>3. DOMAIN got' = 1 .. Len(got')
    BY <2>1, LenProperties
  <2> QED BY <2>1, <2>2, <2>3
<1>5. \A i \in DOMAIN got : i \in DOMAIN got' /\ got'[i] = got[i]
  BY <1>2, <1>4
<1>6. ASSUME NEW r, Accounted(r) PROVE Accounted(r)'
  <2>1. CASE \E i \in DOMAIN got : got[i] = r
    BY <1>5, <2>1 DEF Accounted
  <2>2. ASSUME NEW f \in Injection(1 .. Offset, DOMAIN got), ~OnFirstPage(r),
               \A k \in 1 .. Offset : got[f[k]] <= r
        PROVE  Accounted(r)'
    <3>1. /\ f \in [1 .. Offset -> DOMAIN got]
          /\ \A k, l \in 1 .. Offset : f[k] = f[l] => k = l
      BY DEF Injection, IsInjective
    <3>2. f \in [1 .. Offset -> DOMAIN got'] /\ \A k \in 1 .. Offset : got'[f[k]] = got[f[k]]
      BY <1>5, <3>1
    <3>3. f \in Injection(1 .. Offset, DOMAIN got')
      BY <3>1, <3>2 DEF Injection, IsInjective
    <3> QED BY <2>2, <3>2, <3>3 DEF Accounted, OnFirstPage
  <2> QED BY <1>6, <2>1, <2>2 DEF Accounted
<1>7. ASSUME ~odd', NEW r \in 1 .. began, Ledger[r].kind = Kinds[turn] PROVE Accounted(r)'
  <2>1. PICK m \in 0 .. Offset :
          /\ rows \in [1 .. m -> 1 .. listed]
          /\ \A k, l \in 1 .. m : rows[k] = rows[l] => k = l
          /\ \A q \in 1 .. listed : Ledger[q].kind = Kinds[turn] =>
               \/ \E k \in 1 .. m : rows[k] = q
               \/ /\ m = Offset /\ \A k \in 1 .. m : rows[k] <= q
                  /\ ~OnFirstPage(q)
    <3>1. rows = Page(Kinds[turn])
      BY <1>7
    <3> QED BY <3>1, PageHolds
  <2>2. Len(rows) = m /\ r \in 1 .. listed
    <3>1. m \in Nat /\ rows \in [1 .. m -> 1 .. listed]
      BY <1>2, <2>1
    <3>2. Len(rows) = m
      BY <3>1, FunctionIsSeq
    <3>3. r \in 1 .. listed
      BY <1>2
    <3> QED BY <3>2, <3>3
  <2>3. ASSUME NEW k \in 1 .. m
        PROVE  Len(got) + k \in DOMAIN got' /\ got'[Len(got) + k] = rows[k]
    <3>1. /\ Len(got) + k \in 1 .. Len(got) + Len(rows)
          /\ ~(Len(got) + k <= Len(got)) /\ (Len(got) + k) - Len(got) = k
      BY <1>2, <1>4, <2>2
    <3> QED BY <1>4, <3>1
  <2>4. CASE \E k \in 1 .. m : rows[k] = r
    BY <2>3, <2>4 DEF Accounted
  <2>5. CASE m = Offset /\ (\A k \in 1 .. m : rows[k] <= r) /\ ~OnFirstPage(r)
    <3> DEFINE f == [k \in 1 .. Offset |-> Len(got) + k]
    <3>1. f \in [1 .. Offset -> DOMAIN got']
      BY <2>3, <2>5
    <3>2. \A k, l \in 1 .. Offset : f[k] = f[l] => k = l
      BY <1>2
    <3>3. \A k \in 1 .. Offset : got'[f[k]] <= r
      BY <2>3, <2>5
    <3> HIDE DEF f
    <3>4. f \in Injection(1 .. Offset, DOMAIN got')
      BY <3>1, <3>2 DEF Injection, IsInjective
    <3> QED BY <2>5, <3>3, <3>4 DEF Accounted, OnFirstPage
  <2> QED BY <1>7, <2>1, <2>2, <2>4, <2>5
<1>8. ASSUME ~odd', NEW r \in 1 .. began, NEW t \in 1 .. turn, Kinds[t] = Ledger[r].kind
      PROVE  Accounted(r)'
  <2>1. CASE t = turn
    BY <1>7, <1>8, <2>1
  <2>2. CASE t # turn
    <3>1. t \in 1 .. turn - 1
      BY <1>1, <2>2
    <3>2. ~odd
      BY <1>8
    <3> QED BY <1>6, <1>8, <3>1, <3>2 DEF ExplorerInv
  <2> QED BY <2>1, <2>2
<1>9. turn' \in 1 .. 4 /\ turn' - 1 = turn
  BY <1>1
<1>10. \A i \in DOMAIN answer' : \E j \in DOMAIN got' : answer'[i] = got'[j]
  BY <1>1, <1>5 DEF ExplorerInv
<1>11. ~odd' => \A r \in 1 .. began' :
                  (\E t \in 1 .. turn' - 1 : Kinds[t] = Ledger[r].kind) => Accounted(r)'
  BY <1>1, <1>8, <1>9
<1>12. /\ (ask \in Asked)' /\ (began \in 0 .. listed)' /\ (listed \in 0 .. Len(Ledger))'
       /\ attempt' \in {0, 1} /\ (got \in Seq(1 .. listed))'
       /\ (outcome \in {"open", "failed", "answered"})' /\ (answer \in Seq(1 .. listed))'
  BY <1>1, <1>4 DEF ExplorerInv
<1> QED BY <1>1, <1>9, <1>10, <1>11, <1>12 DEF ExplorerInv

\* Steps that read nothing and answer nothing.
LEMMA WaitInv ==
  ASSUME ExplorerInv, UNCHANGED <<ask, listed, began, turn, got, answer, odd>>,
         attempt' \in {0, 1}, outcome' \in {"open", "failed", "answered"}
  PROVE  ExplorerInv'
<1>1. \A r : Accounted(r) => Accounted(r)'
  BY AccountedStays
<1> QED BY <1>1 DEF ExplorerInv

\* What the last step answers is sorted, in the window, within the limit, and
\* leaves out nothing owed unless it is full of older rows.
LEMMA FinishAnswers ==
  ASSUME ExplorerInv, Finish
  PROVE  \E m \in 0 .. ask.limit :
           /\ answer' \in [1 .. m -> 1 .. listed] /\ Len(answer') = m
           /\ \A k \in 1 .. m : InWindow(answer'[k])
           /\ \A k \in 1 .. m : \E j \in DOMAIN got : answer'[k] = got[j]
           /\ \A k, l \in 1 .. m : k < l => Stamp(answer'[k]) <= Stamp(answer'[l])
           /\ ~odd => \A r \in Owed :
                \/ \E k \in 1 .. m : answer'[k] = r
                \/ m = ask.limit /\ \A k \in 1 .. m : Stamp(answer'[k]) <= Stamp(r)
<1>1. answer' = Answer(got) /\ turn = 4
  BY KindsAre DEF Finish, ExplorerInv
<1>2. ASSUME ~odd, NEW r \in Owed PROVE Accounted(r)
  <2>1. r \in 1 .. began /\ r \in Row
    BY LedgerIs DEF Owed, ExplorerInv
  <2>2. PICK t \in 1 .. 3 : Kinds[t] = Ledger[r].kind
    BY <2>1, LedgerIs, KindsAre
  <2> QED BY <1>1, <1>2, <2>1, <2>2 DEF ExplorerInv
<1>3. PICK m \in 0 .. ask.limit :
        /\ answer' \in [1 .. m -> 1 .. listed]
        /\ \A k \in 1 .. m : InWindow(answer'[k])
        /\ \A k \in 1 .. m : \E j \in DOMAIN got : answer'[k] = got[j]
        /\ \A k, l \in 1 .. m : k < l => Stamp(answer'[k]) <= Stamp(answer'[l])
        /\ \A r \in Owed : Accounted(r) =>
             \/ \E k \in 1 .. m : answer'[k] = r
             \/ m = ask.limit /\ \A k \in 1 .. m : Stamp(answer'[k]) <= Stamp(r)
  BY <1>1, AnswerIs
<1>4. ask.limit \in Nat
  BY ExplorerConstantsOK DEF ExplorerInv, Asked
<1>5. Len(answer') = m
  BY <1>3, <1>4, FunctionIsSeq
<1> QED BY <1>2, <1>3, <1>5

LEMMA FinishInv == ASSUME ExplorerInv, Finish PROVE ExplorerInv'
<1>1. /\ UNCHANGED <<ask, listed, began, turn, attempt, got, odd>> /\ outcome' = "answered"
  BY DEF Finish
<1>2. PICK m \in 0 .. ask.limit :
        /\ answer' \in [1 .. m -> 1 .. listed]
        /\ \A k \in 1 .. m : \E j \in DOMAIN got : answer'[k] = got[j]
  BY FinishAnswers
<1>3. ask.limit \in Nat
  BY ExplorerConstantsOK DEF ExplorerInv, Asked
<1>4. answer' \in Seq(1 .. listed) /\ DOMAIN answer' = 1 .. m
  <2>1. m \in Nat /\ answer' \in [1 .. m -> 1 .. listed]
    BY <1>2, <1>3
  <2> QED BY <2>1, FunctionIsSeq
<1>5. \A r : Accounted(r) => Accounted(r)'
  BY <1>1, AccountedStays
<1> QED BY <1>1, <1>2, <1>4, <1>5 DEF ExplorerInv

LEMMA StepInv == ASSUME ExplorerInv, [Next]_vars PROVE ExplorerInv'
<1>1. CASE Receive
  BY <1>1, TakeInv DEF Receive
<1>2. CASE ReceiveOdd
  BY <1>2, TakeInv DEF ReceiveOdd
<1>3. CASE Limited
  BY <1>3, WaitInv DEF Limited, Raise, ExplorerInv
<1>4. CASE Fail
  BY <1>4, WaitInv DEF Fail, Raise, ExplorerInv
<1>5. CASE Finish
  BY <1>5, FinishInv
<1>6. CASE Grow
  BY <1>6, GrowInv
<1>7. CASE UNCHANGED vars
  BY <1>7, WaitInv DEF vars, ExplorerInv
<1> QED BY <1>1, <1>2, <1>3, <1>4, <1>5, <1>6, <1>7 DEF Next, Call

\* The inductive invariant of a call.
THEOREM ExplorerInvHolds == Spec => []ExplorerInv
<1>1. ExplorerInv /\ [Next]_vars => ExplorerInv'
  BY StepInv
<1> QED BY <1>1, InitInv, PTL DEF Spec

\* The type invariant of a call: at most two attempts for a list, and an answer
\* that holds nothing but rows that were read.
THEOREM CallIsTyped == Spec => []TypeOK
<1>1. ASSUME ExplorerInv PROVE TypeOK
  <2>1. /\ \A i \in DOMAIN got : got[i] \in 1 .. listed
        /\ ToSet(got) \subseteq 1 .. listed
    BY <1>1, LenProperties DEF ExplorerInv, ToSet
  <2>2. ToSet(answer) \subseteq ToSet(got)
    BY <1>1 DEF ExplorerInv, ToSet
  <2> QED BY <1>1, <2>1, <2>2, KindsAre DEF ExplorerInv, TypeOK
<1> QED BY <1>1, ExplorerInvHolds, PTL

-----------------------------------------------------------------------------
(* Every step of a call is a step of the contract, or none that it sees. *)

TimeOf == [r \in Row |-> Stamp(r)]

Wanted == {r \in Row : InWindow(r)}

\* What a call was asked, and what is owed to it, stays.
LEMMA TermsStay ==
  ASSUME UNCHANGED <<ask, began>>
  PROVE  UNCHANGED <<ask.limit, Wanted, Owed>>
<1>1. \A r : InWindow(r) <=> InWindow(r)'
  BY DEF InWindow, AfterStart
<1>2. \A r : OnFirstPage(r) <=> OnFirstPage(r)'
  BY DEF OnFirstPage
<1> QED BY <1>1, <1>2 DEF Wanted, Owed

LEMMA InitPromised == Init => Promised!Init
<1> SUFFICES ASSUME Init PROVE Promised!Init
  OBVIOUS
<1>1. /\ began = listed /\ listed \in 0 .. Len(Ledger)
      /\ outcome = "open" /\ answer = <<>> /\ odd = FALSE
  BY DEF Init
<1>2. Owed \subseteq (1 .. listed) \cap Wanted
  <2>1. \A r \in 1 .. began : r \in Row
    BY <1>1, LedgerIs
  <2> QED BY <1>1, <2>1 DEF Owed, Wanted
<1> QED BY <1>1, <1>2 DEF Promised!Init, Wanted

LEMMA GrowPromised ==
  ASSUME ExplorerInv, Grow
  PROVE  Promised!Grow
<1>1. listed' = listed + 1 /\ UNCHANGED <<ask, began, outcome, answer, odd>>
  BY DEF Grow
<1>2. 1 .. listed \subseteq 1 .. listed'
  BY <1>1, LedgerIs DEF ExplorerInv
<1>3. UNCHANGED <<ask.limit, Wanted, Owed>>
  BY <1>1, TermsStay
<1> QED BY <1>1, <1>2, <1>3 DEF Promised!Grow, Promised!terms, Wanted

\* What the last step answers is what the contract allows: all of it, or only the
\* sound part when a reply of another shape was taken for an empty list.
LEMMA FinishPromised ==
  ASSUME ExplorerInv, Finish
  PROVE  Promised!End
<1>1. /\ outcome = "open" /\ outcome' = "answered"
      /\ UNCHANGED <<ask, listed, began, odd>>
  BY DEF Finish
<1>2. PICK m \in 0 .. ask.limit :
        /\ answer' \in [1 .. m -> 1 .. listed] /\ Len(answer') = m
        /\ \A k \in 1 .. m : InWindow(answer'[k])
        /\ \A k, l \in 1 .. m : k < l => Stamp(answer'[k]) <= Stamp(answer'[l])
        /\ ~odd => \A r \in Owed :
             \/ \E k \in 1 .. m : answer'[k] = r
             \/ m = ask.limit /\ \A k \in 1 .. m : Stamp(answer'[k]) <= Stamp(r)
  BY FinishAnswers
<1>3. ask.limit \in Nat /\ \A r \in 1 .. listed : r \in Row
  BY ExplorerConstantsOK, LedgerIs DEF ExplorerInv, Asked
<1>4. /\ \A k \in 1 .. m : answer'[k] \in 1 .. listed /\ TimeOf[answer'[k]] = Stamp(answer'[k])
      /\ DOMAIN answer' = 1 .. m
  BY <1>2, <1>3 DEF TimeOf
<1>5. Promised!Sound(answer')
  <2>1. Promised!Rows(answer') \subseteq (1 .. listed) \cap Wanted
    BY <1>2, <1>3, <1>4 DEF Promised!Rows, Wanted
  <2>2. Len(answer') <= ask.limit
    BY <1>2, <1>3
  <2>3. \A i \in 1 .. Len(answer') - 1 : TimeOf[answer'[i]] <= TimeOf[answer'[i + 1]]
    <3> SUFFICES ASSUME NEW i \in 1 .. m - 1
                 PROVE  TimeOf[answer'[i]] <= TimeOf[answer'[i + 1]]
      BY <1>2
    <3>1. i \in 1 .. m /\ i + 1 \in 1 .. m /\ i < i + 1
      BY <1>2, <1>3
    <3> QED BY <1>2, <1>4, <3>1
  <2> QED BY <2>1, <2>2, <2>3 DEF Promised!Sound, Wanted, TimeOf
<1>6. ASSUME ~odd PROVE Promised!Complete(answer')
  <2> SUFFICES ASSUME NEW r \in Owed \ Promised!Rows(answer')
               PROVE  /\ Len(answer') = ask.limit
                      /\ \A q \in Promised!Rows(answer') : TimeOf[q] <= TimeOf[r]
    BY DEF Promised!Complete, TimeOf
  <2>1. ~\E k \in 1 .. m : answer'[k] = r
    BY <1>4 DEF Promised!Rows
  <2>2. m = ask.limit /\ \A k \in 1 .. m : Stamp(answer'[k]) <= Stamp(r)
    BY <1>2, <1>6, <2>1
  <2>3. r \in Row /\ TimeOf[r] = Stamp(r)
    BY LedgerIs DEF Owed, ExplorerInv, TimeOf
  <2>4. \A q \in Promised!Rows(answer') : \E k \in 1 .. m : q = answer'[k]
    BY <1>4 DEF Promised!Rows
  <2> QED BY <1>2, <1>4, <2>2, <2>3, <2>4
<1>7. UNCHANGED <<ask.limit, Wanted, Owed>>
  BY <1>1, TermsStay
<1>8. CASE odd
  BY <1>1, <1>5, <1>7, <1>8 DEF Promised!End, Promised!terms, Wanted
<1>9. CASE ~odd
  BY <1>1, <1>5, <1>6, <1>7, <1>9 DEF Promised!End, Promised!terms, Wanted
<1> QED BY <1>8, <1>9

\* Steps the contract sees nothing of.
LEMMA Unseen ==
  ASSUME UNCHANGED <<ask, began, listed, outcome, answer>>, odd' = odd \/ outcome = "open"
  PROVE  UNCHANGED Promised!vars
<1>1. UNCHANGED <<ask.limit, Wanted, Owed>>
  BY TermsStay
<1> QED BY <1>1 DEF Promised!vars, Promised!terms, Wanted

LEMMA RaisePromised ==
  ASSUME Raise, outcome = "open"
  PROVE  Promised!End
<1>1. /\ outcome' = "failed"
      /\ UNCHANGED <<ask, listed, began, turn, attempt, got, answer, odd>>
  BY DEF Raise
<1>2. UNCHANGED <<ask.limit, Wanted, Owed>>
  BY <1>1, TermsStay
<1> QED BY <1>1, <1>2 DEF Promised!End, Promised!terms, Wanted

LEMMA StepPromised ==
  ASSUME ExplorerInv, [Next]_vars
  PROVE  [Promised!Next]_(Promised!vars)
<1>1. CASE Receive \/ ReceiveOdd
  BY <1>1, Unseen DEF Receive, ReceiveOdd, Take, Asking
<1>2. CASE Limited
  BY <1>2, Unseen, RaisePromised DEF Limited, Asking, Promised!Next
<1>3. CASE Fail
  BY <1>3, RaisePromised DEF Fail, Asking, Promised!Next
<1>4. CASE Finish
  BY <1>4, FinishPromised DEF Promised!Next
<1>5. CASE Grow
  BY <1>5, GrowPromised DEF Promised!Next
<1>6. CASE UNCHANGED vars
  BY <1>6, Unseen DEF vars
<1> QED BY <1>1, <1>2, <1>3, <1>4, <1>5, <1>6 DEF Next, Call

\* A call implements the contract History but for its end: it starts as the
\* contract does, and every step of it is a step of the contract or none, whatever
\* the explorer answers and however its lists grow between the three requests.
THEOREM CallKeepsPromise == Spec => Promised!Init /\ [][Promised!Next]_(Promised!vars)
<1>1. ExplorerInv /\ [Next]_vars => [Promised!Next]_(Promised!vars)
  BY StepPromised
<1> QED BY <1>1, InitPromised, ExplorerInvHolds, PTL DEF Spec

================================================================================
