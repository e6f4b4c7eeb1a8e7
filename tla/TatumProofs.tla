------------------------------ MODULE TatumProofs ------------------------------
(***************************************************************************)
(* A call of the Bitcoin and Tron providers keeps the contract History,    *)
(* for every number of rows, page size and question: its pages leave no    *)
(* gap though the list grows, in whichever order the rows are listed, and  *)
(* every step of it is a step of the contract.  (That a call ends is left  *)
(* to TLC.)                                                                *)
(***************************************************************************)
EXTENDS Tatum, SortingProofs

\* Row r was fetched.
Fetched(r) == \E i \in DOMAIN rows : rows[i] = r

\* A row of the list is no newer than its place allows (newest first), or is its
\* place (oldest first).
PlacesOK ==
    /\ newestFirst => \A i \in DOMAIN rows : rows[i] <= listed + 1 - i
    /\ ~newestFirst => \A i \in DOMAIN rows : rows[i] = i

\* Rows newer than a fetched one were fetched before it, if they were listed then.
NewerFetched ==
    newestFirst => \A i \in DOMAIN rows : \A r \in rows[i] .. began : Fetched(r)

\* The loop ends early only when there is nothing more, or by a strange reply.
EndsFull ==
    outcome = "fetched" /\ ~odd =>
        Len(rows) >= ask.limit \/ \A r \in 1 .. began : Fetched(r)

TatumInv ==
    /\ ask \in Asked /\ newestFirst \in BOOLEAN
    /\ began \in 0 .. listed /\ listed \in 0 .. Height
    /\ place \in 0 .. listed /\ attempt \in {0, 1}
    /\ rows \in Seq(1 .. listed) /\ Len(rows) < ask.limit + PageSize
    /\ outcome \in {"open", "fetched", "failed", "answered"} /\ odd \in BOOLEAN
    /\ outcome = "open" => place = Len(rows)
    /\ PlacesOK /\ NewerFetched /\ EndsFull
    /\ answer \in Seq(1 .. listed)
    /\ \A i \in DOMAIN answer : \E j \in DOMAIN rows : answer[i] = rows[j]

\* The numbers of a call.
LEMMA NumbersAre ==
  ASSUME TatumInv
  PROVE  /\ Height \in Nat /\ PageSize \in Nat /\ PageSize > 0
         /\ ask.limit \in Nat /\ ask.from \in Nat /\ ask.till \in Nat
         /\ listed \in Nat /\ listed <= Height
         /\ began \in Nat /\ began <= listed
         /\ place \in Nat /\ place <= listed
         /\ Len(rows) \in Nat /\ DOMAIN rows = 1 .. Len(rows)
         /\ \A i \in DOMAIN rows : rows[i] \in 1 .. listed
<1>1. Height \in Nat /\ PageSize \in Nat /\ PageSize > 0
  BY TatumConstantsOK
<1>2. ask.limit \in Nat /\ ask.from \in Nat /\ ask.till \in Nat
  BY TatumConstantsOK DEF TatumInv, Asked
<1>3. listed \in Nat /\ listed <= Height
  BY <1>1 DEF TatumInv
<1>4. began \in Nat /\ began <= listed /\ place \in Nat /\ place <= listed
  BY <1>3 DEF TatumInv
<1>5. /\ Len(rows) \in Nat /\ DOMAIN rows = 1 .. Len(rows)
      /\ \A i \in DOMAIN rows : rows[i] \in 1 .. listed
  BY LenProperties DEF TatumInv
<1> QED BY <1>1, <1>2, <1>3, <1>4, <1>5

-----------------------------------------------------------------------------
(* One page. *)

\* A page goes on where the last one ended; it is short only at the end of the list.
LEMMA BatchIs ==
  ASSUME TatumInv
  PROVE  /\ Batch \in Seq(1 .. listed)
         /\ Len(Batch) \in Nat /\ place + Len(Batch) <= listed
         /\ Len(Batch) <= PageSize
         /\ \A k \in 1 .. Len(Batch) :
              Batch[k] = IF newestFirst THEN listed + 1 - (place + k) ELSE place + k
         /\ place + Len(Batch) = listed \/ Len(Batch) = PageSize \/ Len(Batch) = ask.limit
<1> DEFINE step == Lesser(PageSize, ask.limit)
           last == Lesser(place + step, listed)
           first == place + 1
<1>1. /\ PageSize \in Nat /\ ask.limit \in Nat /\ listed \in Nat
      /\ place \in Nat /\ place <= listed
  BY NumbersAre
<1>2. step \in Nat /\ step <= PageSize /\ (step = PageSize \/ step = ask.limit)
  BY <1>1 DEF Lesser
<1> HIDE DEF step
<1>3. /\ last \in Nat /\ place <= last /\ last <= listed /\ last <= place + step
      /\ last = listed \/ last = place + step
  BY <1>1, <1>2 DEF Lesser
<1>4. Batch = SubSeq(Listing, first, last)
  BY DEF Batch, step
<1> HIDE DEF last
<1>5. \A i \in first .. last :
        /\ i \in 1 .. listed /\ Listing[i] \in 1 .. listed
        /\ Listing[i] = IF newestFirst THEN listed + 1 - i ELSE i
  BY <1>1, <1>3 DEF Listing
<1>6. first \in Int /\ last \in Int /\ last - first + 1 = last - place
  BY <1>1, <1>3
<1>7. /\ Batch \in Seq(1 .. listed)
      /\ Len(Batch) = IF first <= last THEN last - first + 1 ELSE 0
      /\ \A k \in 1 .. last - first + 1 : Batch[k] = Listing[first + k - 1]
  <2> HIDE DEF first
  <2> QED BY <1>4, <1>5, <1>6, SubSeqProperties
<1>8. Len(Batch) = last - place
  BY <1>1, <1>3, <1>7
<1>9. ASSUME NEW k \in 1 .. Len(Batch)
      PROVE  Batch[k] = IF newestFirst THEN listed + 1 - (place + k) ELSE place + k
  <2>1. /\ k \in 1 .. last - first + 1 /\ place + k \in first .. last
        /\ first + k - 1 = place + k
    BY <1>1, <1>3, <1>8
  <2>2. Batch[k] = Listing[place + k]
    BY <1>7, <2>1
  <2> QED BY <1>5, <2>1, <2>2
<1> QED BY <1>1, <1>2, <1>3, <1>7, <1>8, <1>9

\* The rows after a page.
LEMMA RowsGrow ==
  ASSUME TatumInv, Asking
  PROVE  /\ rows \o Batch \in Seq(1 .. listed)
         /\ Len(rows \o Batch) = Len(rows) + Len(Batch)
         /\ DOMAIN (rows \o Batch) = 1 .. place + Len(Batch)
         /\ \A i \in 1 .. place :
              i \in DOMAIN rows /\ (rows \o Batch)[i] = rows[i]
         /\ \A k \in 1 .. Len(Batch) :
              (rows \o Batch)[place + k] =
                IF newestFirst THEN listed + 1 - (place + k) ELSE place + k
<1> DEFINE s == rows \o Batch
<1>1. /\ Batch \in Seq(1 .. listed) /\ Len(Batch) \in Nat
      /\ \A k \in 1 .. Len(Batch) :
           Batch[k] = IF newestFirst THEN listed + 1 - (place + k) ELSE place + k
  BY BatchIs
<1>2. /\ rows \in Seq(1 .. listed) /\ Len(rows) = place /\ place \in Nat
      /\ DOMAIN rows = 1 .. place
  BY NumbersAre DEF TatumInv, Asking
<1>3. /\ s \in Seq(1 .. listed) /\ Len(s) = Len(rows) + Len(Batch)
      /\ \A i \in 1 .. Len(rows) + Len(Batch) :
           s[i] = IF i <= Len(rows) THEN rows[i] ELSE Batch[i - Len(rows)]
  BY <1>1, <1>2, ConcatProperties
<1>4. DOMAIN s = 1 .. place + Len(Batch)
  BY <1>2, <1>3, LenProperties
<1> HIDE DEF s
<1>5. \A i \in 1 .. place : i \in DOMAIN rows /\ s[i] = rows[i]
  BY <1>1, <1>2, <1>3
<1>6. ASSUME NEW k \in 1 .. Len(Batch)
      PROVE  s[place + k] = IF newestFirst THEN listed + 1 - (place + k) ELSE place + k
  <2>1. /\ place + k \in 1 .. Len(rows) + Len(Batch)
        /\ ~(place + k <= Len(rows)) /\ (place + k) - Len(rows) = k
    BY <1>1, <1>2
  <2>2. s[place + k] = Batch[k]
    BY <1>3, <2>1
  <2> QED BY <1>1, <2>2
<1> QED BY <1>3, <1>4, <1>5, <1>6 DEF s

-----------------------------------------------------------------------------
(* The invariant. *)

LEMMA InitInv == Init => TatumInv
<1> SUFFICES ASSUME Init PROVE TatumInv
  OBVIOUS
<1>1. /\ ask \in Asked /\ listed \in 0 .. Height /\ began = listed
      /\ place = 0 /\ attempt = 0 /\ outcome = "open" /\ odd = FALSE
  BY DEF Init
<1>2. newestFirst \in BOOLEAN
  BY DEF Init
<1>3. /\ rows = <<>> /\ answer = <<>> /\ DOMAIN rows = {} /\ DOMAIN answer = {}
      /\ rows \in Seq(1 .. listed) /\ answer \in Seq(1 .. listed) /\ Len(rows) = 0
  BY DEF Init
<1>4. listed \in Nat /\ ask.limit \in Nat /\ PageSize \in Nat \ {0}
  BY <1>1, TatumConstantsOK DEF Asked
<1>5. began \in 0 .. listed /\ place \in 0 .. listed /\ Len(rows) < ask.limit + PageSize
  BY <1>1, <1>3, <1>4
<1>6. PlacesOK /\ NewerFetched /\ EndsFull
  BY <1>1, <1>3 DEF PlacesOK, NewerFetched, EndsFull
<1>7. odd \in BOOLEAN
  BY <1>1
<1> QED BY <1>1, <1>2, <1>3, <1>5, <1>6, <1>7 DEF TatumInv

LEMMA GrowInv == ASSUME TatumInv, Grow PROVE TatumInv'
<1>1. /\ listed' = listed + 1 /\ listed < Height
      /\ UNCHANGED <<ask, newestFirst, began, place, attempt, rows, outcome, answer, odd>>
  BY DEF Grow, given
<1>2. /\ listed \in Nat /\ Height \in Nat /\ began \in Nat /\ began <= listed
      /\ place \in Nat /\ place <= listed
  BY NumbersAre
<1>3. /\ listed' \in 0 .. Height /\ began' \in 0 .. listed' /\ place' \in 0 .. listed'
      /\ 1 .. listed \subseteq 1 .. listed'
  BY <1>1, <1>2
<1>4. rows' \in Seq(1 .. listed') /\ answer' \in Seq(1 .. listed')
  BY <1>1, <1>3, SeqMonotonic DEF TatumInv
<1>5. PlacesOK'
  <2>1. \A i \in DOMAIN rows : i \in Int /\ rows[i] \in Int
    BY NumbersAre
  <2>2. ASSUME newestFirst, NEW i \in DOMAIN rows PROVE rows[i] <= listed' + 1 - i
    <3>1. rows[i] <= listed + 1 - i
      BY <2>2 DEF TatumInv, PlacesOK
    <3> QED BY <1>1, <1>2, <2>1, <3>1
  <2>3. ~newestFirst => \A i \in DOMAIN rows : rows[i] = i
    BY DEF TatumInv, PlacesOK
  <2> QED BY <1>1, <2>2, <2>3 DEF PlacesOK
<1>6. \A r : Fetched(r) <=> Fetched(r)'
  BY <1>1 DEF Fetched
<1>7. NewerFetched' /\ EndsFull'
  BY <1>1, <1>6 DEF TatumInv, NewerFetched, EndsFull
<1> QED BY <1>1, <1>3, <1>4, <1>5, <1>7 DEF TatumInv

\* When a page is appended, places stay right and no gap comes between.
LEMMA PageKeeps ==
  ASSUME TatumInv, Asking, rows' = rows \o Batch,
         UNCHANGED <<ask, newestFirst, listed, began>>
  PROVE  /\ (rows \in Seq(1 .. listed))' /\ Len(rows') = place + Len(Batch)
         /\ Len(rows') < ask.limit + PageSize
         /\ \A r : Fetched(r) => Fetched(r)'
         /\ PlacesOK' /\ NewerFetched'
         /\ place + Len(Batch) = listed => \A r \in 1 .. began : Fetched(r)'
<1>1. /\ listed \in Nat /\ place \in Nat /\ place <= listed /\ began \in Nat /\ began <= listed
      /\ place = Len(rows) /\ DOMAIN rows = 1 .. place
      /\ ask.limit \in Nat /\ PageSize \in Nat /\ place < ask.limit
      /\ \A i \in DOMAIN rows : rows[i] \in 1 .. listed
  BY NumbersAre DEF TatumInv, Asking
<1>2. Len(Batch) \in Nat /\ place + Len(Batch) <= listed /\ Len(Batch) <= PageSize
  BY BatchIs
<1> DEFINE n == place + Len(Batch)
<1>3. /\ rows' \in Seq(1 .. listed) /\ Len(rows') = n /\ DOMAIN rows' = 1 .. n
      /\ \A i \in 1 .. place : i \in DOMAIN rows /\ rows'[i] = rows[i]
      /\ \A k \in 1 .. Len(Batch) :
           rows'[place + k] = IF newestFirst THEN listed + 1 - (place + k) ELSE place + k
  BY <1>1, RowsGrow
<1>4. n \in Nat /\ place <= n /\ n <= listed /\ n < ask.limit + PageSize
  BY <1>1, <1>2
<1>5. \A i \in 1 .. n : i \in 1 .. place
                        \/ rows'[i] = IF newestFirst THEN listed + 1 - i ELSE i
  <2> SUFFICES ASSUME NEW i \in 1 .. n, i \notin 1 .. place
               PROVE  rows'[i] = IF newestFirst THEN listed + 1 - i ELSE i
    OBVIOUS
  <2>1. i - place \in 1 .. Len(Batch) /\ place + (i - place) = i
    BY <1>1, <1>2
  <2> HIDE DEF n
  <2> QED BY <1>3, <2>1
<1> HIDE DEF n
<1>6. ASSUME NEW r, Fetched(r) PROVE Fetched(r)'
  <2>1. PICK i \in 1 .. place : rows[i] = r
    BY <1>1, <1>6 DEF Fetched
  <2>2. i \in DOMAIN rows' /\ rows'[i] = r
    BY <1>1, <1>3, <1>4, <2>1
  <2> QED BY <2>2 DEF Fetched
<1>7. PlacesOK'
  <2>1. ASSUME newestFirst, NEW i \in 1 .. n PROVE rows'[i] <= listed + 1 - i
    <3>1. CASE i \in 1 .. place
      <4>1. rows[i] <= listed + 1 - i
        BY <1>1, <2>1, <3>1 DEF TatumInv, PlacesOK
      <4> QED BY <1>3, <3>1, <4>1
    <3>2. CASE rows'[i] = listed + 1 - i
      BY <1>1, <1>4, <3>2
    <3> QED BY <1>5, <2>1, <3>1, <3>2
  <2>2. ASSUME ~newestFirst, NEW i \in 1 .. n PROVE rows'[i] = i
    <3>1. CASE i \in 1 .. place
      BY <1>1, <1>3, <2>2, <3>1 DEF TatumInv, PlacesOK
    <3> QED BY <1>5, <2>2, <3>1
  <2>3. \A i \in DOMAIN rows' : i \in 1 .. n
    BY <1>3
  <2> QED BY <2>1, <2>2, <2>3 DEF PlacesOK
\* Newest first: a row of the page, or one that came before the page.
<1>8. ASSUME newestFirst, NEW r \in 1 .. began, listed + 1 - n <= r PROVE Fetched(r)'
  <2>1. CASE r <= listed - place
    <3>1. (listed + 1 - r) - place \in 1 .. Len(Batch)
      BY <1>1, <1>2, <1>8, <2>1 DEF n
    <3>2. /\ place + ((listed + 1 - r) - place) = listed + 1 - r
          /\ listed + 1 - (listed + 1 - r) = r /\ listed + 1 - r \in 1 .. n
      BY <1>1, <1>2, <1>8, <2>1 DEF n
    <3>3. rows'[listed + 1 - r] = r
      BY <1>3, <1>8, <3>1, <3>2
    <3> QED BY <1>3, <3>2, <3>3 DEF Fetched
  <2>2. CASE r > listed - place
    <3>1. place \in DOMAIN rows
      BY <1>1, <1>8, <2>2
    <3>2. rows[place] <= listed + 1 - place
      BY <1>8, <3>1 DEF TatumInv, PlacesOK
    <3>3. r \in rows[place] .. began
      BY <1>1, <1>8, <2>2, <3>1, <3>2
    <3>4. Fetched(r)
      BY <1>8, <3>1, <3>3 DEF TatumInv, NewerFetched
    <3> QED BY <1>6, <3>4
  <2> QED BY <1>1, <1>8, <2>1, <2>2
<1>9. NewerFetched'
  <2> SUFFICES ASSUME newestFirst, NEW i \in 1 .. n, NEW r \in rows'[i] .. began
               PROVE  Fetched(r)'
    BY <1>3 DEF NewerFetched
  <2>1. CASE i \in 1 .. place
    <3>1. i \in DOMAIN rows /\ r \in rows[i] .. began
      BY <1>3, <2>1
    <3>2. Fetched(r)
      BY <3>1 DEF TatumInv, NewerFetched
    <3> QED BY <1>6, <3>2
  <2>2. CASE rows'[i] = listed + 1 - i
    <3>1. r \in 1 .. began /\ listed + 1 - n <= r
      BY <1>1, <1>4, <2>2
    <3> QED BY <1>8, <3>1
  <2> QED BY <1>5, <2>1, <2>2
<1>10. ASSUME n = listed, NEW r \in 1 .. began PROVE Fetched(r)'
  <2>1. CASE newestFirst
    <3>1. listed + 1 - n <= r
      BY <1>1, <1>10
    <3> QED BY <1>8, <2>1, <3>1
  <2>2. CASE ~newestFirst
    <3>1. r \in DOMAIN rows'
      BY <1>1, <1>3, <1>10
    <3>2. rows'[r] = r
      BY <1>7, <2>2, <3>1 DEF PlacesOK
    <3> QED BY <3>1, <3>2 DEF Fetched
  <2> QED BY <2>1, <2>2
<1>11. (rows \in Seq(1 .. listed))'
  BY <1>3
<1> QED BY <1>3, <1>4, <1>6, <1>7, <1>9, <1>10, <1>11 DEF n

\* An answer of rows that were fetched stays one while the rows stay.
LEMMA AnswerStays ==
  ASSUME TatumInv, UNCHANGED <<listed, answer>>,
         \A i \in DOMAIN rows : i \in DOMAIN rows' /\ rows'[i] = rows[i]
  PROVE  /\ (answer \in Seq(1 .. listed))'
         /\ (\A i \in DOMAIN answer : \E j \in DOMAIN rows : answer[i] = rows[j])'
BY DEF TatumInv

LEMMA FetchInv == ASSUME TatumInv, Fetch PROVE TatumInv'
<1>1. /\ Asking /\ outcome = "open" /\ rows' = rows \o Batch /\ attempt' = 0
      /\ place' = place + Len(Batch)
      /\ outcome' = IF IsLast(Batch) THEN "fetched" ELSE "open"
      /\ UNCHANGED <<ask, newestFirst, listed, began, answer, odd>>
  BY DEF Fetch, Asking, given
<1>2. /\ (rows \in Seq(1 .. listed))' /\ Len(rows') = place + Len(Batch)
      /\ Len(rows') < ask.limit + PageSize
      /\ PlacesOK' /\ NewerFetched'
      /\ place + Len(Batch) = listed => \A r \in 1 .. began : Fetched(r)'
  BY <1>1, PageKeeps
<1>3. /\ Len(Batch) \in Nat /\ place + Len(Batch) <= listed /\ Len(Batch) <= PageSize
      /\ place + Len(Batch) = listed \/ Len(Batch) = PageSize \/ Len(Batch) = ask.limit
      /\ Batch \in Seq(1 .. listed)
  BY BatchIs
<1>4. /\ place \in Nat /\ place = Len(rows) /\ listed \in Nat /\ PageSize \in Nat
      /\ PageSize > 0 /\ ask.limit \in Nat /\ place < ask.limit
  BY <1>1, NumbersAre DEF TatumInv, Asking
<1>5. place' \in 0 .. listed /\ place' = Len(rows')
  BY <1>1, <1>2, <1>3, <1>4
<1>6. ASSUME IsLast(Batch)
      PROVE  place + Len(Batch) = listed \/ Len(rows') >= ask.limit
  <2>1. Batch = <<>> \/ ~HasNext \/ Len(Batch) < PageSize
    BY <1>6 DEF IsLast
  <2>2. CASE Batch = <<>>
    <3>1. Len(Batch) = 0
      BY <2>2
    <3> QED BY <1>3, <1>4, <3>1
  <2>3. CASE ~HasNext
    BY <1>3, <1>4, <2>3 DEF HasNext
  <2>4. CASE Len(Batch) < PageSize
    BY <1>2, <1>3, <1>4, <2>4
  <2> QED BY <2>1, <2>2, <2>3, <2>4
<1>7. EndsFull'
  <2> SUFFICES ASSUME outcome' = "fetched"
               PROVE  Len(rows') >= ask.limit \/ \A r \in 1 .. began : Fetched(r)'
    BY <1>1 DEF EndsFull
  <2>1. IsLast(Batch)
    BY <1>1
  <2> QED BY <1>2, <1>6, <2>1
<1>8. \A i \in DOMAIN rows : i \in DOMAIN rows' /\ rows'[i] = rows[i]
  <2>1. DOMAIN rows' = 1 .. place + Len(Batch) /\ DOMAIN rows = 1 .. place
    BY <1>1, <1>4, NumbersAre, RowsGrow
  <2> QED BY <1>1, <1>3, <1>4, <2>1, RowsGrow
<1>9. /\ (answer \in Seq(1 .. listed))'
      /\ (\A i \in DOMAIN answer : \E j \in DOMAIN rows : answer[i] = rows[j])'
  BY <1>1, <1>8, AnswerStays
<1>10. /\ (ask \in Asked)' /\ (newestFirst \in BOOLEAN)' /\ (began \in 0 .. listed)'
       /\ (listed \in 0 .. Height)' /\ attempt' \in {0, 1} /\ (odd \in BOOLEAN)'
       /\ outcome' \in {"open", "fetched", "failed", "answered"}
  BY <1>1 DEF TatumInv
<1>11. (place \in 0 .. listed)' /\ (Len(rows) < ask.limit + PageSize)'
  BY <1>1, <1>2, <1>5
<1> QED BY <1>2, <1>5, <1>7, <1>9, <1>10, <1>11 DEF TatumInv

\* Steps that fetch nothing and answer nothing, and are not the end of the loop.
LEMMA WaitInv ==
  ASSUME TatumInv,
         UNCHANGED <<ask, newestFirst, listed, began, place, rows, answer>>,
         attempt' \in {0, 1}, odd' \in BOOLEAN,
         outcome' \in {"open", "fetched", "failed", "answered"},
         outcome' = "open" => outcome = "open",
         outcome' = "fetched" => odd' \/ UNCHANGED <<outcome, odd>>
  PROVE  TatumInv'
<1>1. \A r : Fetched(r) <=> Fetched(r)'
  BY DEF Fetched
<1>2. PlacesOK' /\ NewerFetched'
  BY <1>1 DEF TatumInv, PlacesOK, NewerFetched
<1>3. EndsFull'
  BY <1>1 DEF TatumInv, EndsFull
<1> QED BY <1>2, <1>3 DEF TatumInv

LEMMA FetchOddInv == ASSUME TatumInv, FetchOdd PROVE TatumInv'
<1>1. /\ Asking /\ outcome' = "fetched" /\ odd' = TRUE
      /\ rows' = rows \/ rows' = rows \o Batch
      /\ UNCHANGED <<ask, newestFirst, listed, began, place, attempt, answer>>
  BY DEF FetchOdd, given
<1>2. odd' \in BOOLEAN
  BY <1>1
<1>3. CASE rows' = rows
  <2>1. UNCHANGED <<ask, newestFirst, listed, began, place, rows, answer>>
    BY <1>1, <1>3
  <2>2. attempt' \in {0, 1}
    BY <1>1 DEF TatumInv
  <2> QED BY <1>1, <1>2, <2>1, <2>2, WaitInv
<1>4. CASE rows' = rows \o Batch
  <2>1. /\ (rows \in Seq(1 .. listed))' /\ Len(rows') < ask.limit + PageSize
        /\ PlacesOK' /\ NewerFetched'
    BY <1>1, <1>4, PageKeeps
  <2>2. EndsFull'
    BY <1>1 DEF EndsFull
  <2>3. \A i \in DOMAIN rows : i \in DOMAIN rows' /\ rows'[i] = rows[i]
    <3>1. /\ DOMAIN rows' = 1 .. place + Len(Batch) /\ DOMAIN rows = 1 .. place
          /\ place \in Nat /\ Len(Batch) \in Nat
      BY <1>1, <1>4, NumbersAre, RowsGrow, BatchIs DEF TatumInv, Asking
    <3> QED BY <1>1, <1>4, <3>1, RowsGrow
  <2>4. /\ (answer \in Seq(1 .. listed))'
        /\ (\A i \in DOMAIN answer : \E j \in DOMAIN rows : answer[i] = rows[j])'
    BY <1>1, <2>3, AnswerStays
  <2>5. /\ (ask \in Asked)' /\ (newestFirst \in BOOLEAN)' /\ (began \in 0 .. listed)'
        /\ (listed \in 0 .. Height)' /\ attempt' \in {0, 1} /\ (place \in 0 .. listed)'
        /\ outcome' \in {"open", "fetched", "failed", "answered"}
        /\ (Len(rows) < ask.limit + PageSize)' /\ outcome' # "open"
    BY <1>1, <2>1 DEF TatumInv
  <2> QED BY <1>2, <2>1, <2>2, <2>4, <2>5 DEF TatumInv
<1> QED BY <1>1, <1>3, <1>4

-----------------------------------------------------------------------------
(* The answer. *)

\* A row that is owed but was not fetched is behind a limit of rows that are all
\* in the window.
LEMMA AnswerIs ==
  ASSUME TatumInv
  PROVE  \E m \in 0 .. ask.limit :
           /\ Answer(rows) \in [1 .. m -> 1 .. listed]
           /\ \A k \in 1 .. m : InWindow(Answer(rows)[k])
           /\ \A k \in 1 .. m : \E j \in DOMAIN rows : Answer(rows)[k] = rows[j]
           /\ \A k, l \in 1 .. m : k < l => Stamp(Answer(rows)[k]) <= Stamp(Answer(rows)[l])
           /\ \A r \in Owed : Fetched(r) \/ Len(rows) >= ask.limit =>
                \/ \E k \in 1 .. m : Answer(rows)[k] = r
                \/ /\ m = ask.limit
                   /\ ~newestFirst => \A k \in 1 .. m : Stamp(Answer(rows)[k]) <= r
<1> DEFINE kept == {i \in DOMAIN rows : InWindow(rows[i])}
           key == [i \in kept |-> Stamp(rows[i])]
           best == Leading(kept, key, ask.limit)
           a == Answer(rows)
<1>1. /\ ask.limit \in Nat /\ ask.till \in Nat /\ listed \in Nat /\ Height \in Nat
      /\ listed <= Height /\ began \in Nat /\ began <= listed
      /\ Len(rows) \in Nat /\ DOMAIN rows = 1 .. Len(rows)
      /\ \A i \in DOMAIN rows : rows[i] \in 1 .. listed
  BY NumbersAre
<1>2. kept \subseteq Nat /\ IsFiniteSet(kept)
  <2>1. IsFiniteSet(1 .. Len(rows)) /\ kept \in SUBSET (1 .. Len(rows))
    BY <1>1, FS_Interval
  <2> HIDE DEF kept
  <2>2. IsFiniteSet(kept)
    BY <2>1, FS_Subset
  <2> QED BY <1>1, <2>1, <2>2
<1>3. /\ kept \in SUBSET (DOMAIN rows)
      /\ \A i \in DOMAIN rows : i \in kept <=> InWindow(rows[i])
  OBVIOUS
<1>4. \A i \in kept : key[i] = Stamp(rows[i]) /\ key[i] \in Int /\ key[i] <= rows[i]
  BY <1>1 DEF Stamp
<1>5. a = [k \in DOMAIN best |-> rows[best[k]]]
  BY DEF Answer
<1> HIDE DEF kept, key, best, a
<1>6. PICK m \in 0 .. ask.limit :
         /\ best \in [1 .. m -> kept]
         /\ \A k, l \in 1 .. m : best[k] = best[l] => k = l
         /\ \A k, l \in 1 .. m : k < l => key[best[k]] <= key[best[l]]
         /\ \A i \in kept : \/ \E k \in 1 .. m : best[k] = i
                            \/ m = ask.limit /\ \A k \in 1 .. m : key[best[k]] <= key[i]
  <2>1. Leads(best, kept, key, ask.limit)
    BY <1>1, <1>2, <1>4, LeadingSorts DEF best
  <2> QED BY <2>1 DEF Leads
<1>7. \A k \in 1 .. m : /\ best[k] \in kept /\ a[k] = rows[best[k]]
                        /\ Stamp(a[k]) = key[best[k]] /\ InWindow(a[k])
  BY <1>3, <1>4, <1>5, <1>6
<1>8. a \in [1 .. m -> 1 .. listed]
  BY <1>1, <1>3, <1>5, <1>6
<1>9. \A k, l \in 1 .. m : k < l => Stamp(a[k]) <= Stamp(a[l])
  BY <1>6, <1>7
<1>10. \A k \in 1 .. m : \E j \in DOMAIN rows : a[k] = rows[j]
  BY <1>3, <1>7
<1>11. ASSUME NEW r \in Owed, Fetched(r), ~\E k \in 1 .. m : a[k] = r
       PROVE  m = ask.limit /\ \A k \in 1 .. m : Stamp(a[k]) <= r
  <2>1. PICK i \in DOMAIN rows : rows[i] = r
    BY <1>11 DEF Fetched
  <2>2. ask.from = 0 /\ r <= ask.till /\ Stamp(r) = r
    BY <1>11 DEF Owed, Stamp
  <2>3. i \in kept /\ ~\E k \in 1 .. m : best[k] = i
    BY <1>3, <1>7, <1>11, <2>1, <2>2 DEF InWindow, AfterStart
  <2>4. m = ask.limit /\ \A k \in 1 .. m : key[best[k]] <= key[i]
    BY <1>6, <2>3
  <2> QED BY <1>3, <1>4, <1>7, <2>1, <2>2, <2>3, <2>4
<1>12. ASSUME NEW r \in Owed, ~Fetched(r), Len(rows) >= ask.limit
       PROVE  m = ask.limit /\ (~newestFirst => \A k \in 1 .. m : Stamp(a[k]) <= r)
  <2>1. /\ ask.from = 0 /\ r \in 1 .. began /\ r <= ask.till
        /\ newestFirst => Height <= ask.till
    BY <1>1, <1>12 DEF Owed
  <2>2. PICK b \in Int : b <= ask.till /\ (\A i \in DOMAIN rows : rows[i] <= b)
                         /\ (~newestFirst => b = r)
    <3>1. CASE newestFirst
      <4>1. Height <= ask.till /\ \A i \in DOMAIN rows : rows[i] <= Height
        BY <1>1, <2>1, <3>1
      <4> QED BY <1>1, <3>1, <4>1
    <3>2. CASE ~newestFirst
      <4>1. \A i \in DOMAIN rows : rows[i] = i
        BY <3>2 DEF TatumInv, PlacesOK
      <4>2. ~(r \in DOMAIN rows)
        BY <1>12, <4>1 DEF Fetched
      <4>3. \A i \in DOMAIN rows : rows[i] <= r
        BY <1>1, <2>1, <4>1, <4>2
      <4> QED BY <2>1, <3>2, <4>3
    <3> QED BY <3>1, <3>2
  <2> DEFINE Low == {i \in kept : key[i] <= b}
             f == [k \in 1 .. ask.limit |-> k]
  <2>3. ASSUME NEW k \in 1 .. ask.limit PROVE k \in Low
    <3>1. k \in DOMAIN rows
      BY <1>1, <1>12
    <3>2. rows[k] <= b /\ rows[k] <= ask.till
      BY <1>1, <2>2, <3>1
    <3>3. k \in kept
      BY <1>3, <2>1, <3>1, <3>2 DEF InWindow, AfterStart
    <3> QED BY <1>1, <1>4, <2>2, <3>1, <3>2, <3>3
  <2>4. f \in Injection(1 .. ask.limit, Low)
    <3>1. f \in [1 .. ask.limit -> Low]
      BY <2>3
    <3>2. \A k, l \in 1 .. ask.limit : f[k] = f[l] => k = l
      OBVIOUS
    <3> HIDE DEF f, Low
    <3> QED BY <3>1, <3>2 DEF Injection, IsInjective
  <2>5. DOMAIN best = 1 .. ask.limit /\ \A k \in 1 .. ask.limit : key[best[k]] <= b
    <3>1. kept \subseteq Nat /\ IsFiniteSet(kept) /\ ask.limit \in Nat /\ b \in Int
          /\ \A i \in kept : key[i] \in Int
      BY <1>1, <1>2, <1>4
    <3> HIDE DEF f
    <3> QED BY <2>4, <3>1, LeadingIsFull DEF best
  <2>6. m = ask.limit
    BY <1>1, <1>6, <2>5
  <2> QED BY <1>7, <2>2, <2>5, <2>6
<1>13. \A r \in Owed : Fetched(r) \/ Len(rows) >= ask.limit =>
         \/ \E k \in 1 .. m : a[k] = r
         \/ m = ask.limit /\ (~newestFirst => \A k \in 1 .. m : Stamp(a[k]) <= r)
  BY <1>11, <1>12
<1>14. m \in 0 .. ask.limit /\ \A k \in 1 .. m : InWindow(a[k])
  BY <1>7
<1> QED BY <1>8, <1>9, <1>10, <1>13, <1>14 DEF a

\* What the last step answers is sorted, in the window, within the limit, and
\* leaves out nothing owed unless it is full.
LEMMA FinishAnswers ==
  ASSUME TatumInv, Finish
  PROVE  \E m \in 0 .. ask.limit :
           /\ answer' \in [1 .. m -> 1 .. listed] /\ Len(answer') = m
           /\ \A k \in 1 .. m : InWindow(answer'[k])
           /\ \A k \in 1 .. m : \E j \in DOMAIN rows : answer'[k] = rows[j]
           /\ \A k, l \in 1 .. m : k < l => Stamp(answer'[k]) <= Stamp(answer'[l])
           /\ ~odd => \A r \in Owed :
                \/ \E k \in 1 .. m : answer'[k] = r
                \/ /\ m = ask.limit
                   /\ ~newestFirst => \A k \in 1 .. m : Stamp(answer'[k]) <= r
<1>1. answer' = Answer(rows)
  BY DEF Finish
<1>2. ASSUME ~odd, NEW r \in Owed PROVE Fetched(r) \/ Len(rows) >= ask.limit
  <2>1. r \in 1 .. began
    BY DEF Owed
  <2> QED BY <1>2, <2>1 DEF Finish, TatumInv, EndsFull
<1>3. PICK m \in 0 .. ask.limit :
        /\ answer' \in [1 .. m -> 1 .. listed]
        /\ \A k \in 1 .. m : InWindow(answer'[k])
        /\ \A k \in 1 .. m : \E j \in DOMAIN rows : answer'[k] = rows[j]
        /\ \A k, l \in 1 .. m : k < l => Stamp(answer'[k]) <= Stamp(answer'[l])
        /\ \A r \in Owed : Fetched(r) \/ Len(rows) >= ask.limit =>
             \/ \E k \in 1 .. m : answer'[k] = r
             \/ /\ m = ask.limit
                /\ ~newestFirst => \A k \in 1 .. m : Stamp(answer'[k]) <= r
  BY <1>1, AnswerIs
<1>4. m \in Nat /\ answer' \in [1 .. m -> 1 .. listed]
  BY <1>3, NumbersAre
<1>5. Len(answer') = m
  BY <1>4, FunctionIsSeq
<1> QED BY <1>2, <1>3, <1>5

LEMMA FinishInv == ASSUME TatumInv, Finish PROVE TatumInv'
<1>1. /\ UNCHANGED <<ask, newestFirst, listed, began, place, attempt, rows, odd>>
      /\ outcome' = "answered"
  BY DEF Finish, given
<1>2. PICK m \in 0 .. ask.limit :
        /\ answer' \in [1 .. m -> 1 .. listed]
        /\ \A k \in 1 .. m : \E j \in DOMAIN rows : answer'[k] = rows[j]
  BY FinishAnswers
<1>3. m \in Nat /\ answer' \in [1 .. m -> 1 .. listed]
  BY <1>2, NumbersAre
<1>4. answer' \in Seq(1 .. listed) /\ DOMAIN answer' = 1 .. m
  BY <1>3, FunctionIsSeq
<1>5. \A r : Fetched(r) <=> Fetched(r)'
  BY <1>1 DEF Fetched
<1>6. PlacesOK' /\ NewerFetched' /\ EndsFull'
  BY <1>1, <1>5 DEF TatumInv, PlacesOK, NewerFetched, EndsFull
<1> QED BY <1>1, <1>2, <1>4, <1>6 DEF TatumInv

LEMMA StepInv == ASSUME TatumInv, [Next]_vars PROVE TatumInv'
<1>1. CASE Fetch
  BY <1>1, FetchInv
<1>2. CASE FetchOdd
  BY <1>2, FetchOddInv
<1>3. CASE Limited
  <2>1. /\ UNCHANGED <<ask, newestFirst, listed, began, place, rows, answer, odd>>
        /\ outcome = "open" /\ outcome' \in {"open", "failed"}
        /\ attempt' = 1 \/ attempt' = attempt
    BY <1>3 DEF Limited, Raise, Asking, given
  <2>2. attempt' \in {0, 1} /\ odd' \in BOOLEAN
    BY <2>1 DEF TatumInv
  <2> QED BY <2>1, <2>2, WaitInv
<1>4. CASE Fail
  <2>1. /\ UNCHANGED <<ask, newestFirst, listed, began, place, attempt, rows, answer, odd>>
        /\ outcome' = "failed"
    BY <1>4 DEF Fail, Raise, given
  <2>2. attempt' \in {0, 1} /\ odd' \in BOOLEAN
    BY <2>1 DEF TatumInv
  <2> QED BY <2>1, <2>2, WaitInv
<1>5. CASE Finish
  BY <1>5, FinishInv
<1>6. CASE Grow
  BY <1>6, GrowInv
<1>7. CASE UNCHANGED vars
  <2>1. UNCHANGED <<ask, newestFirst, listed, began, place, attempt, rows, outcome, answer, odd>>
    BY <1>7 DEF vars, given
  <2>2. attempt' \in {0, 1} /\ odd' \in BOOLEAN
        /\ outcome' \in {"open", "fetched", "failed", "answered"}
    BY <2>1 DEF TatumInv
  <2> QED BY <2>1, <2>2, WaitInv
<1> QED BY <1>1, <1>2, <1>3, <1>4, <1>5, <1>6, <1>7 DEF Next, Call

\* The inductive invariant of a call.
THEOREM TatumInvHolds == Spec => []TatumInv
<1>1. TatumInv /\ [Next]_vars => TatumInv'
  BY StepInv
<1> QED BY <1>1, InitInv, PTL DEF Spec

\* The type invariant of a call: at most two attempts for a page, never a page
\* more than the limit needs, and an answer of nothing but fetched rows.
THEOREM PagingIsTyped == Spec => []TypeOK
<1>1. ASSUME TatumInv PROVE TypeOK
  <2>1. ToSet(rows) \subseteq 1 .. listed /\ ToSet(answer) \subseteq ToSet(rows)
    BY <1>1, LenProperties DEF TatumInv, ToSet
  <2> QED BY <1>1, <2>1 DEF TatumInv, TypeOK
<1> QED BY <1>1, TatumInvHolds, PTL

\* Two pages that were fetched leave out nothing between them that was listed when
\* the call began: offsets shift while they are used, but only towards rows that
\* the call has seen.
THEOREM NoGapBetweenPages == Spec => []PagesLeaveNoGap
<1>1. ASSUME TatumInv PROVE PagesLeaveNoGap
  <2>1. /\ \A r : r \in ToSet(rows) <=> Fetched(r)
        /\ \A i \in DOMAIN rows : i \in Int /\ rows[i] \in Int
        /\ began \in Nat
        /\ Len(rows) \in Nat /\ DOMAIN rows = 1 .. Len(rows)
    BY <1>1, NumbersAre DEF ToSet, Fetched
  <2>2. ASSUME NEW i \in DOMAIN rows, NEW j \in DOMAIN rows,
               NEW x \in rows[i] .. rows[j], x \in 1 .. began
        PROVE  Fetched(x)
    <3>1. CASE newestFirst
      <4>1. x \in rows[i] .. began
        BY <2>1, <2>2
      <4> QED BY <1>1, <3>1, <4>1 DEF TatumInv, NewerFetched
    <3>2. CASE ~newestFirst
      <4>1. \A k \in DOMAIN rows : rows[k] = k
        BY <1>1, <3>2 DEF TatumInv, PlacesOK
      <4>2. x \in DOMAIN rows
        BY <2>1, <2>2, <4>1
      <4> QED BY <4>1, <4>2 DEF Fetched
    <3> QED BY <3>1, <3>2
  <2> SUFFICES ASSUME NEW r \in ToSet(rows), NEW q \in ToSet(rows),
                      NEW x \in r .. q, x \in 1 .. began
               PROVE  x \in ToSet(rows)
    BY DEF PagesLeaveNoGap
  <2>3. PICK i \in DOMAIN rows : rows[i] = r
    BY <2>1 DEF Fetched
  <2>4. PICK j \in DOMAIN rows : rows[j] = q
    BY <2>1 DEF Fetched
  <2> QED BY <2>1, <2>2, <2>3, <2>4
<1> QED BY <1>1, TatumInvHolds, PTL

-----------------------------------------------------------------------------
(* Every step of a call is a step of the contract, or none that it sees. *)

TimeOf == [r \in 1 .. Height |-> Stamp(r)]

Wanted == {r \in 1 .. Height : InWindow(r)}

\* What a call was asked, and what is owed to it, stays.
LEMMA TermsStay ==
  ASSUME UNCHANGED <<ask, newestFirst, began>>
  PROVE  UNCHANGED <<ask.limit, Wanted, Owed, ~newestFirst>>
<1>1. \A r : InWindow(r) <=> InWindow(r)'
  BY DEF InWindow, AfterStart, ByCursor
<1> QED BY <1>1 DEF Wanted, Owed

LEMMA InitPromised == Init => Promised!Init
<1> SUFFICES ASSUME Init PROVE Promised!Init
  OBVIOUS
<1>1. /\ began = listed /\ listed \in 0 .. Height /\ Height \in Nat
      /\ outcome = "open" /\ answer = <<>> /\ odd = FALSE
  BY TatumConstantsOK DEF Init
<1>2. Owed \subseteq (1 .. listed) \cap Wanted
  <2> SUFFICES ASSUME NEW r \in Owed PROVE r \in 1 .. listed /\ r \in Wanted
    OBVIOUS
  <2>1. ask.from = 0 /\ r \in 1 .. began /\ r <= ask.till
    BY DEF Owed
  <2>2. InWindow(r)
    BY <2>1 DEF InWindow, AfterStart
  <2> QED BY <1>1, <2>1, <2>2 DEF Wanted
<1> QED BY <1>1, <1>2 DEF Promised!Init, Wanted

LEMMA GrowPromised ==
  ASSUME TatumInv, Grow
  PROVE  Promised!Grow
<1>1. listed' = listed + 1 /\ UNCHANGED <<ask, newestFirst, began, outcome, answer, odd>>
  BY DEF Grow, given
<1>2. 1 .. listed \subseteq 1 .. listed'
  BY <1>1, NumbersAre
<1>3. UNCHANGED <<ask.limit, Wanted, Owed, ~newestFirst>>
  BY <1>1, TermsStay
<1> QED BY <1>1, <1>2, <1>3 DEF Promised!Grow, Promised!terms, Wanted

\* What the last step answers is what the contract allows: all of it, or only the
\* sound part when a reply of another shape ended the reading.
LEMMA FinishPromised ==
  ASSUME TatumInv, Finish
  PROVE  Promised!End
<1>1. /\ outcome \in {"open", "fetched"} /\ outcome' = "answered"
      /\ UNCHANGED <<ask, newestFirst, listed, began, odd>>
  BY DEF Finish, given
<1>2. PICK m \in 0 .. ask.limit :
        /\ answer' \in [1 .. m -> 1 .. listed] /\ Len(answer') = m
        /\ \A k \in 1 .. m : InWindow(answer'[k])
        /\ \A k, l \in 1 .. m : k < l => Stamp(answer'[k]) <= Stamp(answer'[l])
        /\ ~odd => \A r \in Owed :
             \/ \E k \in 1 .. m : answer'[k] = r
             \/ /\ m = ask.limit
                /\ ~newestFirst => \A k \in 1 .. m : Stamp(answer'[k]) <= r
  BY FinishAnswers
<1>3. ask.limit \in Nat /\ \A r \in 1 .. listed : r \in 1 .. Height
  BY NumbersAre
<1>4. /\ \A k \in 1 .. m : answer'[k] \in 1 .. listed /\ TimeOf[answer'[k]] = Stamp(answer'[k])
      /\ DOMAIN answer' = 1 .. m
  BY <1>2, <1>3 DEF TimeOf
<1>5. Promised!Sound(answer')
  <2>1. Promised!Rows(answer') \subseteq (1 .. listed) \cap Wanted
    BY <1>2, <1>3, <1>4 DEF Promised!Rows, Wanted
  <2>2. Len(answer') <= ask.limit
    BY <1>2, <1>3
  <2>3. \A i \in 1 .. Len(answer') - 1 : TimeOf[answer'[i]] <= TimeOf[answer'[i + 1]]
    <3> SUFFICES ASSUME NEW i \in 1 .. m - 1
                 PROVE  TimeOf[answer'[i]] <= TimeOf[answer'[i + 1]]
      BY <1>2
    <3>1. i \in 1 .. m /\ i + 1 \in 1 .. m /\ i < i + 1
      BY <1>2, <1>3
    <3> QED BY <1>2, <1>4, <3>1
  <2> QED BY <2>1, <2>2, <2>3 DEF Promised!Sound, Wanted, TimeOf
<1>6. ASSUME ~odd PROVE Promised!Complete(answer')
  <2> SUFFICES ASSUME NEW r \in Owed \ Promised!Rows(answer')
               PROVE  /\ Len(answer') = ask.limit
                      /\ ~newestFirst => \A q \in Promised!Rows(answer') : TimeOf[q] <= TimeOf[r]
    BY DEF Promised!Complete, TimeOf
  <2>1. ~\E k \in 1 .. m : answer'[k] = r
    BY <1>4 DEF Promised!Rows
  <2>2. m = ask.limit /\ (~newestFirst => \A k \in 1 .. m : Stamp(answer'[k]) <= r)
    BY <1>2, <1>6, <2>1
  <2>3. r \in 1 .. Height /\ TimeOf[r] = r
    BY NumbersAre DEF Owed, TimeOf, Stamp
  <2>4. \A q \in Promised!Rows(answer') : \E k \in 1 .. m : q = answer'[k]
    BY <1>4 DEF Promised!Rows
  <2> QED BY <1>2, <1>4, <2>2, <2>3, <2>4
<1>7. UNCHANGED <<ask.limit, Wanted, Owed, ~newestFirst>>
  BY <1>1, TermsStay
<1>8. CASE odd
  BY <1>1, <1>5, <1>7, <1>8 DEF Promised!End, Promised!terms, Wanted
<1>9. CASE ~odd
  BY <1>1, <1>5, <1>6, <1>7, <1>9 DEF Promised!End, Promised!terms, Wanted
<1> QED BY <1>8, <1>9

\* Steps the contract sees nothing of.
LEMMA Unseen ==
  ASSUME UNCHANGED <<ask, newestFirst, began, listed, answer>>,
         \/ UNCHANGED <<outcome, odd>>
         \/ outcome \in {"open", "fetched"} /\ outcome' \in {"open", "fetched"}
  PROVE  UNCHANGED Promised!vars
<1>1. UNCHANGED <<ask.limit, Wanted, Owed, ~newestFirst>>
  BY TermsStay
<1> QED BY <1>1 DEF Promised!vars, Promised!terms, Wanted

LEMMA RaisePromised ==
  ASSUME Raise, outcome = "open"
  PROVE  Promised!End
<1>1. /\ outcome' = "failed"
      /\ UNCHANGED <<ask, newestFirst, listed, began, answer, odd>>
  BY DEF Raise, given
<1>2. UNCHANGED <<ask.limit, Wanted, Owed, ~newestFirst>>
  BY <1>1, TermsStay
<1> QED BY <1>1, <1>2 DEF Promised!End, Promised!terms, Wanted

LEMMA StepPromised ==
  ASSUME TatumInv, [Next]_vars
  PROVE  [Promised!Next]_(Promised!vars)
<1>1. CASE Fetch \/ FetchOdd
  BY <1>1, Unseen DEF Fetch, FetchOdd, Asking, given
<1>2. CASE Limited
  BY <1>2, Unseen, RaisePromised DEF Limited, Asking, Promised!Next, given
<1>3. CASE Fail
  BY <1>3, RaisePromised DEF Fail, Asking, Promised!Next
<1>4. CASE Finish
  BY <1>4, FinishPromised DEF Promised!Next
<1>5. CASE Grow
  BY <1>5, GrowPromised DEF Promised!Next
<1>6. CASE UNCHANGED vars
  BY <1>6, Unseen DEF vars, given
<1> QED BY <1>1, <1>2, <1>3, <1>4, <1>5, <1>6 DEF Next, Call

\* A call implements the contract History but for its end: it starts as the
\* contract does, and every step of it is a step of the contract or none, whatever
\* the service answers and however its list grows between the pages.
THEOREM PagingKeepsPromise == Spec => Promised!Init /\ [][Promised!Next]_(Promised!vars)
<1>1. TatumInv /\ [Next]_vars => [Promised!Next]_(Promised!vars)
  BY StepPromised
<1> QED BY <1>1, InitPromised, TatumInvHolds, PTL DEF Spec

================================================================================
